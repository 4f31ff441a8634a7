---------------------------- MODULE SyntheticMp4 ----------------------------
(***************************************************************************)
(* The encoder of synthetic_mp4_support.cpp: what AppendFileHeader and     *)
(* AppendGroup add to a file image.  A group specification is a record     *)
(*   [frame_num, is_audio, block_types, payload_size, block_payload_sizes] *)
(* as in the code.                                                         *)
(***************************************************************************)
EXTENDS GroupParser, Functions

GroupSpecs ==
    [frame_num : 0 .. UIntMax, is_audio : BOOLEAN,
     block_types : Seq(AudioBlockTypes \cup VideoBlockTypes),
     payload_size : 0 .. UIntMax, block_payload_sizes : Seq(0 .. UIntMax)]

(* ResolveBlockPayloadSize, with the block index counted from 1. *)
ResolveBlockPayloadSize(spec, index) ==
    IF index <= Len(spec.block_payload_sizes) THEN spec.block_payload_sizes[index]
    ELSE spec.payload_size

(* AppendFileHeader: forty bytes with a valid start code. *)
AppendFileHeader ==
    [size |-> kFileHeaderSize, start_code |-> "HKH4", group |-> << >>, block |-> << >>]

(* Bytes that happen to be 01 00 00 00: the start code is there, but what  *)
(* is read behind it is no header, the frame number or the picture mode is *)
(* out of range.                                                           *)
BareStartCode ==
    [start_code |-> kGroupStartCode, frame_num |-> 0, is_audio |-> 0,
     block_number |-> 0, picture_mode |-> 0, frame_rate |-> 0]

(* uint32_t addition wraps. *)
HeaderWord(number) == (kConstNumberBase + number) % (UIntMax + 1)

(* The words AppendGroup writes. *)
EncodedHeader(spec) ==
    [start_code   |-> kGroupStartCode,
     frame_num    |-> HeaderWord(spec.frame_num),
     is_audio     |-> kConstNumberBase + (IF spec.is_audio THEN 1 ELSE 0),
     block_number |-> kConstNumberBase + Len(spec.block_types),
     picture_mode |-> 4097,
     frame_rate   |-> 25]

(* Where each block of the group goes, and where the group ends. *)
BlockOffset(spec, offset) ==
    LET at[i \in 1 .. Len(spec.block_types) + 1] ==
            IF i = 1 THEN offset + kGroupHeaderSize
            ELSE at[i - 1] + kBlockHeaderSize + ResolveBlockPayloadSize(spec, i - 1)
    IN  at

(* Offsets inside headers that read as a start code: a frame number whose  *)
(* last byte before zeros is a 1; the version 1 of a block at +2; its size *)
(* at +16 when it is 1, and at +17 when its second byte is 1, the others   *)
(* are zero, and so is the first byte of the payload.                      *)
BareCodeOffsets(spec, offset) ==
    LET at == BlockOffset(spec, offset)
        n  == Len(spec.block_types)
        size(i) == ResolveBlockPayloadSize(spec, i)
    IN  {offset + 4 + k : k \in {j \in 0 .. 3 : HeaderWord(spec.frame_num) \div 256 ^ j = 1}}
        \cup {at[i] + 2 : i \in 1 .. n}
        \cup {at[i] + 16 : i \in {j \in 1 .. n : size(j) = 1}}
        \cup {at[i] + 17 : i \in {j \in 1 .. n : /\ size(j) \div 256 = 1
                                              /\ (j - 1 + spec.frame_num) % 256 = 0}}

(* AppendGroup: the header, the block headers and their payloads. *)
AppendGroup(image, spec) ==
    LET offset == image.size
        n  == Len(spec.block_types)
        at == BlockOffset(spec, offset)
        bare == BareCodeOffsets(spec, offset)
    IN  [image EXCEPT
            !.size  = at[n + 1],
            !.group = [o \in DOMAIN @ \cup bare \cup {offset} |->
                          IF o = offset THEN EncodedHeader(spec)
                          ELSE IF o \in bare THEN BareStartCode ELSE @[o]],
            !.block = [o \in DOMAIN @ \cup {at[i] : i \in 1 .. n} |->
                          IF o \in DOMAIN @ THEN @[o]
                          ELSE LET i == CHOOSE j \in 1 .. n : at[j] = o
                               IN  [type |-> spec.block_types[i],
                                    size |-> ResolveBlockPayloadSize(spec, i)]]]

(* The image BuildSyntheticFileBytes makes of groups it accepts. *)
EncodedFile(groups) ==
    LET image[i \in 0 .. Len(groups)] ==
            IF i = 0 THEN AppendFileHeader ELSE AppendGroup(image[i - 1], groups[i])
    IN  image[Len(groups)]

-----------------------------------------------------------------------------
(* What a file of these groups should be read back as.                     *)

(* The offsets of the first count groups, and of what comes after them. *)
Starts(groups, count) ==
    LET at[i \in 1 .. count + 1] ==
            IF i = 1 THEN kFileHeaderSize
            ELSE BlockOffset(groups[i - 1], at[i - 1])[Len(groups[i - 1].block_types) + 1]
    IN  at

(* The frame number fits a word above the base, and the block count is one *)
(* the parser takes.                                                       *)
Representable(spec) ==
    /\ kConstNumberBase + spec.frame_num <= UIntMax
    /\ Len(spec.block_types) <= MaxBlockCount

(* The blocks of the specification, each with type and payload size. *)
Blocks(spec) ==
    [i \in 1 .. Len(spec.block_types) |->
        [video |-> spec.block_types[i] \in VideoBlockTypes,
         size  |-> ResolveBlockPayloadSize(spec, i)]]

-----------------------------------------------------------------------------
(* Damage a file can suffer after it was written. *)

(* The file was cut after some bytes. *)
Truncated(image, size) == [image EXCEPT !.size = size]

(* The words of one group header were overwritten. *)
Overwritten(image, offset, field, value) ==
    [image EXCEPT !.group[offset][field] = value]

(* The type of one block was overwritten. *)
Retyped(image, offset, type) ==
    [image EXCEPT !.block[offset].type = type]

(* The start code of one group was overwritten. *)
Erased(image, offset) ==
    [image EXCEPT !.group = Restrict(@, DOMAIN @ \ {offset})]
=============================================================================
