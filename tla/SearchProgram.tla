--------------------------- MODULE SearchProgram ---------------------------
(***************************************************************************)
(* main of main.cpp: the query is parsed (FrameQuery), the file is mapped  *)
(* (MappedFileWin32), and each frame of the query is searched in the       *)
(* mapped bytes (FrameLocator) and printed.  The destructor gives the      *)
(* mapping back on the way out.  Each part keeps its own variables; main   *)
(* decides which of them moves.                                            *)
(***************************************************************************)
EXTENDS FrameLocatorRefinement

CONSTANTS
    Queries,          \* the queries that may be typed
    Handles, Addresses, ErrorCodes    \* of the system (MappedFileWin32)

EXIT_SUCCESS == 0
EXIT_FAILURE == 1

VARIABLES
    \* the query parser
    query, frames, error, query_pc, token, frame,
    \* the mapped file, and the locals of its Open
    file_handle_, mapping_handle_, data_, size_, error_message_,
    open_pc, handle, mapping, file_size, opened, openHandles, views, last_error, raised,
    \* main
    stage,            \* "start", "parse", "open", "loop", "search" or "ended"
    at,               \* the frame of the query at hand (index + 1)
    output,           \* the lines printed: a frame and what was found
    exit_code         \* the variable, and at the end what main returns

Query == INSTANCE FrameQuery WITH pc <- query_pc, index <- token

Mapped == INSTANCE MappedFileWin32 WITH
    pc <- open_pc, file <- handle, result <- opened, Sizes <- Nat

ASSUME ProgramAssumption ==
    /\ Queries \subseteq Seq(Seq(Nat \cup {Query!NotANumber}))
    /\ Targets = 0 .. UIntMax     \* what a token may hold
    /\ {Mapped!NULL, Mapped!INVALID_HANDLE_VALUE} \cap (Handles \cup Addresses) = {}

queryVars == <<query, frames, error, query_pc, token, frame>>
mappedVars == <<file_handle_, mapping_handle_, data_, size_, error_message_, open_pc, handle,
                mapping, file_size, opened, openHandles, views, last_error, raised>>
mainVars == <<stage, at, output, exit_code>>
programVars == <<vars, queryVars, mappedVars, mainVars>>

ProgramInit ==
    /\ Init
    /\ Query!Init
    /\ Mapped!Init
    /\ stage = "start"
    /\ at = 1
    /\ output = << >>
    /\ exit_code = EXIT_SUCCESS

(* The arguments are not a path and a query. *)
WrongArguments ==
    /\ stage = "start"
    /\ stage' = "ended"
    /\ exit_code' = EXIT_FAILURE
    /\ UNCHANGED <<vars, queryVars, mappedVars, at, output>>

ParseQuery ==
    /\ stage = "start"
    /\ \E q \in Queries : Query!Call(q)
    /\ stage' = "parse"
    /\ UNCHANGED <<vars, mappedVars, at, output, exit_code>>

ParseStep ==
    /\ stage = "parse"
    /\ Query!Step
    /\ UNCHANGED <<vars, mappedVars, mainVars>>

(* main returns before the mapped file exists; what a rejected query left  *)
(* in the vector of frames is not looked at.                               *)
QueryRejected ==
    /\ stage = "parse"
    /\ query_pc = "rejected"
    /\ stage' = "ended"
    /\ exit_code' = EXIT_FAILURE
    /\ UNCHANGED <<vars, queryVars, mappedVars, at, output>>

OpenFile ==
    /\ stage = "parse"
    /\ query_pc = "accepted"
    /\ Mapped!OpenCloses
    /\ stage' = "open"
    /\ UNCHANGED <<vars, queryVars, at, output, exit_code>>

(* The calls of Open, on the file that is searched afterwards. *)
OpenStep ==
    /\ stage = "open"
    /\ \/ Mapped!CreateFileSucceeds
       \/ file_size' = file.size /\ Mapped!GetFileSizeSucceeds
       \/ file.size = 0 /\ Mapped!FileIsEmpty
       \/ Mapped!CreateFileMappingSucceeds
       \/ Mapped!MapViewOfFileSucceeds
       \/ \E code \in ErrorCodes :
             \/ Mapped!CreateFileFails(code) \/ Mapped!GetFileSizeFails(code)
             \/ Mapped!CreateFileMappingFails(code) \/ Mapped!MapViewOfFileFails(code)
    /\ UNCHANGED <<vars, queryVars, mainVars>>

OpenFailed ==
    /\ stage = "open" /\ open_pc = "idle"
    /\ ~ opened
    /\ Mapped!Destroy
    /\ stage' = "ended"
    /\ exit_code' = EXIT_FAILURE
    /\ UNCHANGED <<vars, queryVars, at, output>>

(* Mutant: the result of Open is not tested. *)
EnterLoopUnchecked ==
    /\ stage = "open" /\ open_pc = "idle"
    /\ stage' = "loop"
    /\ UNCHANGED <<vars, queryVars, mappedVars, at, output, exit_code>>

EnterLoop ==
    /\ stage = "open" /\ open_pc = "idle"
    /\ opened
    /\ stage' = "loop"
    /\ UNCHANGED <<vars, queryVars, mappedVars, at, output, exit_code>>

SearchFrame ==
    /\ stage = "loop"
    /\ at <= Len(frames)
    /\ Call(frames[at]) \/ CallRejected(frames[at])
    /\ stage' = "search"
    /\ UNCHANGED <<queryVars, mappedVars, at, output, exit_code>>

SearchStep ==
    /\ stage = "search"
    /\ Step
    /\ UNCHANGED <<queryVars, mappedVars, mainVars>>

(* The lines printed for a frame: the matches are printed with all their   *)
(* fields, or "not_found" if there is none.                                *)
PrintMatches(t, matches) == [frame |-> t, matches |-> matches]

(* Mutant: the exit code is the result of the last search. *)
PrintLastResult ==
    /\ stage = "search" /\ pc = "done"
    /\ output' = Append(output, PrintMatches(target, out))
    /\ exit_code' = IF out = << >> THEN EXIT_FAILURE ELSE EXIT_SUCCESS
    /\ at' = at + 1
    /\ stage' = "loop"
    /\ UNCHANGED <<vars, queryVars, mappedVars>>

(* One failed search is enough to fail. *)
PrintResult ==
    /\ stage = "search" /\ pc = "done"
    /\ output' = Append(output, PrintMatches(target, out))
    /\ exit_code' = IF out = << >> THEN EXIT_FAILURE ELSE exit_code
    /\ at' = at + 1
    /\ stage' = "loop"
    /\ UNCHANGED <<vars, queryVars, mappedVars>>

(* Mutant: the file is left open. *)
ReturnWithoutDestructor ==
    /\ stage = "loop"
    /\ at > Len(frames)
    /\ stage' = "ended"
    /\ UNCHANGED <<vars, queryVars, mappedVars, at, output, exit_code>>

(* The mapped file is destroyed on return. *)
Return ==
    /\ stage = "loop"
    /\ at > Len(frames)
    /\ Mapped!Destroy
    /\ stage' = "ended"
    /\ UNCHANGED <<vars, queryVars, at, output, exit_code>>

ProgramNext ==
    \/ WrongArguments \/ ParseQuery \/ ParseStep \/ QueryRejected
    \/ OpenFile \/ OpenStep \/ OpenFailed
    \/ EnterLoop \/ SearchFrame \/ SearchStep \/ PrintResult \/ Return

ProgramSpec == ProgramInit /\ [][ProgramNext]_programVars

(* One thread that never waits for anything but system calls. *)
FairProgramSpec == ProgramSpec /\ WF_programVars(ProgramNext)

-----------------------------------------------------------------------------
(* The query is expanded in full and in order, see FrameQuery. *)
QueryExpands == Query!ExpandsInOrder

(* While a search runs, and wherever it reads, the whole file is mapped:   *)
(* data() and size() are those of the file that was opened, the view is    *)
(* there, and it is not given back before the last search has returned.    *)
MappedWhileSearching ==
    stage \in {"loop", "search"} =>
        /\ data_ \in DOMAIN views
        /\ size_ = file.size
        /\ views[data_] = size_

(* However main returns, no handle and no view of it is left behind.       *)
NothingLeftOpen ==
    stage = "ended" => openHandles = << >> /\ views = << >>

(* The program reaches its end, whatever the query and the file: ranges,   *)
(* the bisection, the linear scan and the loop over the frames all end.    *)
ProgramEnds == <>(stage = "ended")

(* The report so far, with the places of the blocks that were printed. *)
Reported ==
    [i \in 1 .. Len(output) |->
        [frame  |-> output[i].frame,
         places |-> [n \in 1 .. Len(output[i].matches) |-> output[i].matches[n].block_header_offset]]]

Report == INSTANCE SearchReport WITH
    Lookup    <- Index!Lookup,
    recording <- VideoFrames(file),
    request   <- IF query_pc = "accepted" THEN frames ELSE << >>,
    report    <- Reported,
    status    <- IF stage # "ended" THEN "running"
                 ELSE IF exit_code = EXIT_SUCCESS THEN "success" ELSE "failure"

(* On well-formed recordings the program prints, for every frame of the    *)
(* query and in its order, the blocks that hold it, and its exit code      *)
(* tells whether each of them was found - not just the last.               *)
ImplementsReport == Report!Spec
=============================================================================
