----------------------------- MODULE Mp4Format -----------------------------
(***************************************************************************)
(* The on-disk records of a private MP4 file and the three header parsers  *)
(* of mp4_format.h.                                                        *)
(*                                                                         *)
(* A file is an "image": its size, the start code of its file header, and  *)
(* the words a parser reads at the byte offsets where reading can succeed. *)
(*                                                                         *)
(*   image.size        number of mapped bytes                              *)
(*   image.start_code  first word of the file header                       *)
(*   image.group       offset -> the words of a group header; the domain   *)
(*                     is exactly the set of offsets whose first word is   *)
(*                     the group start code 1                              *)
(*   image.block       offset -> type and size of a block header           *)
(*                                                                         *)
(* Offsets outside image.group and image.block hold bytes that no parser   *)
(* accepts.  Both maps may reach past image.size (a truncated file): the   *)
(* parsers test the size first, as the code does.                          *)
(***************************************************************************)
EXTENDS Integers, Sequences

CONSTANTS
    UIntMax,          \* largest uint32_t (2^32 - 1 in the code)
    MaxBlockCount     \* kMaxReasonableBlockCount (4096 in the code)

kFileHeaderSize  == 40
kGroupHeaderSize == 48
kBlockHeaderSize == 20
kConstNumberBase == 4096

(* Every encoded block count fits a word above the number base. *)
ASSUME FormatAssumption ==
    /\ UIntMax \in Nat
    /\ MaxBlockCount \in Nat \ {0}
    /\ kConstNumberBase + MaxBlockCount <= UIntMax

kGroupStartCode == 1

(* The words of an image, whatever bytes the file holds. *)
IsImage(image) ==
    /\ image.size \in Nat
    /\ DOMAIN image.group \subseteq Nat
    /\ \A o \in DOMAIN image.group : /\ image.group[o].frame_num \in 0 .. UIntMax
                                     /\ image.group[o].block_number \in Nat
    /\ DOMAIN image.block \subseteq Nat
    /\ \A o \in DOMAIN image.block : image.block[o].size \in Nat

AudioBlockTypes == {"AudioI", "AudioP"}
VideoBlockTypes == {"VideoI", "VideoP", "VideoB"}

IsKnownBlockType(type) == type \in AudioBlockTypes \cup VideoBlockTypes
IsVideoBlockType(type) == type \in VideoBlockTypes
IsKnownPictureMode(mode) == mode \in 4097 .. 4103

-----------------------------------------------------------------------------
(* ParseFileHeader: the header is complete and has one of the two codes. *)
FileHeaderParses(image) ==
    /\ image.size >= kFileHeaderSize
    /\ image.start_code \in {"HKM4", "HKH4"}

(* The checks of ParseGroupHeader on the words it has read. *)
ValidGroupHeader(raw) ==
    /\ raw.start_code = kGroupStartCode
    /\ raw.frame_num >= kConstNumberBase
    /\ raw.block_number >= kConstNumberBase + 1
    /\ IsKnownPictureMode(raw.picture_mode)
    /\ raw.frame_rate \in 1 .. 240

(* ParseGroupHeader succeeds at this offset. *)
GroupHeaderParses(image, offset) ==
    /\ offset \in DOMAIN image.group
    /\ offset <= image.size
    /\ image.size - offset >= kGroupHeaderSize
    /\ ValidGroupHeader(image.group[offset])

(* Mutant: the number base is left in the frame number.                    *)
RawGroupHeader(image, offset) ==
    LET raw == image.group[offset]
    IN  [frame |-> raw.frame_num,
         audio |-> raw.is_audio # kConstNumberBase,
         block_count |-> raw.block_number - kConstNumberBase]

(* The header ParseGroupHeader returns: the number base is taken off.  Any *)
(* audio word but the base itself means audio.                             *)
GroupHeader(image, offset) ==
    LET raw == image.group[offset]
    IN  [frame |-> raw.frame_num - kConstNumberBase,
         audio |-> raw.is_audio # kConstNumberBase,
         block_count |-> raw.block_number - kConstNumberBase]

(* Mutant: the payload may reach past the end of the file.                 *)
BlockHeaderParsesUnbounded(image, offset) ==
    /\ offset \in DOMAIN image.block
    /\ offset <= image.size
    /\ image.size - offset >= kBlockHeaderSize
    /\ IsKnownBlockType(image.block[offset].type)

(* ParseBlockHeader succeeds: a known type, and the payload fits the file. *)
BlockHeaderParses(image, offset) ==
    /\ offset \in DOMAIN image.block
    /\ offset <= image.size
    /\ image.size - offset >= kBlockHeaderSize
    /\ IsKnownBlockType(image.block[offset].type)
    /\ image.size - offset >= kBlockHeaderSize + image.block[offset].size

(* HasGroupStartCodeAt: the four bytes are in the file and spell the code. *)
HasGroupStartCodeAt(image, offset) ==
    /\ offset \in DOMAIN image.group
    /\ offset + 4 <= image.size
    /\ image.group[offset].start_code = kGroupStartCode
=============================================================================
