----------------------------- MODULE FrameIndex -----------------------------
(***************************************************************************)
(* What LocateFrame promises of a well-formed recording, without offsets,  *)
(* probes or scans: a recording is a set of video blocks, each holding one *)
(* frame, and a question is answered with the blocks that hold the frame.  *)
(* Where the recording skips the frame, the answer is the last block       *)
(* before it; outside the recording there is no answer.                    *)
(***************************************************************************)
EXTENDS Integers, Sequences, FiniteSets, FiniteSetsExt

CONSTANTS
    Targets           \* the frames that may be asked for

VARIABLES
    recording,        \* the blocks of the file: which frame is where
    question,         \* the frame asked for
    asked,            \* a question is waiting for its answer
    answer            \* the places of the blocks found, in file order

indexVars == <<recording, question, asked, answer>>

Places(blocks) == {b.at : b \in blocks}

(* The places in increasing order. *)
InFileOrder(places) ==
    CHOOSE s \in [1 .. Cardinality(places) -> places] :
        \A i, j \in 1 .. Cardinality(places) : i < j => s[i] < s[j]

Lookup(blocks, t) ==
    LET exact   == {b \in blocks : b.frame = t}
        earlier == {b \in blocks : b.frame < t}
        later   == {b \in blocks : b.frame > t}
    IN  IF exact # {} THEN InFileOrder(Places(exact))
        ELSE IF earlier # {} /\ later # {} THEN <<Max(Places(earlier))>>
        ELSE << >>

Init ==
    /\ recording \subseteq [frame : Nat, at : Nat]
    /\ question = 0
    /\ asked = FALSE
    /\ answer = << >>

Ask(t) ==
    /\ ~ asked
    /\ question' = t
    /\ asked' = TRUE
    /\ answer' = << >>
    /\ UNCHANGED recording

Answer ==
    /\ asked
    /\ answer' = Lookup(recording, question)
    /\ asked' = FALSE
    /\ UNCHANGED <<recording, question>>

(* A file without groups is refused without a search. *)
Refuse(t) ==
    /\ ~ asked
    /\ recording = {}
    /\ question' = t
    /\ answer' = << >>
    /\ UNCHANGED <<recording, asked>>

Next == (\E t \in Targets : Ask(t) \/ Refuse(t)) \/ Answer

Safety == Init /\ [][Next]_indexVars
Spec == Safety /\ WF_indexVars(Answer)
=============================================================================
