----------------------- MODULE FrameLocatorRefinement -----------------------
(***************************************************************************)
(* The search implements the abstract index: a recording is the set of     *)
(* video blocks of the file, a question is open while the search runs, and *)
(* the answer is the places of the block headers found.                    *)
(***************************************************************************)
EXTENDS FrameLocator

Index == INSTANCE FrameIndex WITH
            recording  <- VideoFrames(file),
            question   <- target,
            asked      <- pc \in {"binary", "linear"},
            answer     <- [n \in 1 .. Len(out) |-> out[n].block_header_offset]

(* Two video groups that hold the same frame adjoin, and the backward scan *)
(* from the second finds the first.                                        *)
PairsAdjoin(f, opt) ==
    \A o, p \in VideoGroups(f) :
        o < p /\ f.groups[o].frame = f.groups[p].frame =>
            f.groups[o].next = p /\ o % 4 = 0 /\ p - o <= opt.back

(* The recordings that can be searched like an index: every group can be   *)
(* reached from the first, and no frame is spread over more than a pair.   *)
Indexed(f, opt) ==
    /\ Regular(f)
    /\ ReadablePrefix(f) = DOMAIN f.groups
    /\ DOMAIN f.groups # {} => f.header
    /\ PairsAdjoin(f, opt)

(* LocateFrame answers every question as the index does: the same blocks,  *)
(* in file order, whatever the probe window and whichever of the two       *)
(* searches finds them, and it does answer.                                *)
ImplementsIndex == Index!Spec

-----------------------------------------------------------------------------
(* Damage that no parser notices: a group header whose audio word is not   *)
(* the number base is that of an audio group.                              *)

(* The groups as they were recorded, if only the audio word of the one at  *)
(* o is damaged.                                                           *)
Repaired(f, o) ==
    [groups |-> [p \in DOMAIN f.groups |->
        [frame |-> f.groups[p].frame, blocks |-> f.groups[p].blocks,
         next |-> f.groups[p].next, audio |-> f.groups[p].audio /\ p # o]]]

(* The video blocks of a recording that are not in the group at o. *)
FramesOutside(f, o) ==
    {b \in VideoFrames(f) : b.at < o \/ f.groups[o].next <= b.at}

(* The places that LocateFrame reports. *)
PlacesFound(ms) == [n \in 1 .. Len(ms) |-> ms[n].block_header_offset]

(* A damaged audio word costs the frames of its own group and no others:   *)
(* in the damaged file every search finds what there is to find in the     *)
(* undamaged one outside that group: the other half of a shared frame      *)
(* too, and for a frame of the lost group the last block before it, or     *)
(* none.                                                                   *)
MislabelledGroupHidesOnlyItself ==
    pc = "done" =>
        \A o \in DOMAIN file.groups \ VideoGroups(file) :
            PlacesFound(out) = Index!Lookup(FramesOutside(Repaired(file, o), o), target)
=============================================================================
