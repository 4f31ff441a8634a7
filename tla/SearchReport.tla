---------------------------- MODULE SearchReport ----------------------------
(***************************************************************************)
(* What the search program promises of a well-formed recording: it either  *)
(* gives up without printing anything, or prints the answer to each frame  *)
(* asked for, in the order asked, and succeeds exactly if every one was    *)
(* found.                                                                  *)
(***************************************************************************)
EXTENDS Integers, Sequences

CONSTANT
    Lookup(_, _)      \* the places of a frame in a recording (FrameIndex)

VARIABLES
    recording,        \* the blocks of the file: which frame is where
    request,          \* the frames asked for, once they are known
    report,           \* what has been printed: [frame, places]
    status            \* "running", "success" or "failure"

reportVars == <<recording, request, report, status>>

Init ==
    /\ recording \subseteq [frame : Nat, at : Nat]
    /\ request = << >>
    /\ report = << >>
    /\ status = "running"

(* The query has been understood. *)
Understand ==
    /\ status = "running" /\ request = << >>
    /\ request' \in Seq(Nat) \ {<< >>}
    /\ UNCHANGED <<recording, report, status>>

(* Wrong arguments, a query that is none, or a file that cannot be opened. *)
GiveUp ==
    /\ status = "running" /\ report = << >>
    /\ status' = "failure"
    /\ UNCHANGED <<recording, request, report>>

AnswerNext ==
    /\ status = "running"
    /\ Len(report) < Len(request)
    /\ LET frame == request[Len(report) + 1]
       IN  report' = Append(report, [frame |-> frame, places |-> Lookup(recording, frame)])
    /\ UNCHANGED <<recording, request, status>>

Finish ==
    /\ status = "running"
    /\ request # << >> /\ Len(report) = Len(request)
    /\ status' = IF \A i \in 1 .. Len(report) : report[i].places # << >>
                 THEN "success" ELSE "failure"
    /\ UNCHANGED <<recording, request, report>>

Next == Understand \/ GiveUp \/ AnswerNext \/ Finish

Spec == Init /\ [][Next]_reportVars
=============================================================================
