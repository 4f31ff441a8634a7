------------------------- MODULE SearchProgramProofs -------------------------
(***************************************************************************)
(* The search program, the file it maps and the query it parses: the       *)
(* searches read mapped bytes, no way out of main leaves anything open,    *)
(* the frames searched are those the query asks for, in order, and what is *)
(* printed are the answers of the abstract SearchReport.                   *)
(***************************************************************************)
EXTENDS SearchProgram, FrameIndexProofs

(* Nothing is open, and the object says so. *)
NothingOpen ==
    /\ openHandles = << >> /\ views = << >>
    /\ data_ = Mapped!NULL /\ mapping_handle_ = Mapped!NULL
    /\ file_handle_ = Mapped!INVALID_HANDLE_VALUE

(* Open is under way, and has acquired some handles. *)
Acquired(handles) ==
    /\ DOMAIN openHandles = handles /\ views = << >>
    /\ handles \cap {Mapped!NULL, Mapped!INVALID_HANDLE_VALUE} = {}
    /\ data_ = Mapped!NULL /\ mapping_handle_ = Mapped!NULL
    /\ file_handle_ = Mapped!INVALID_HANDLE_VALUE

(* The object holds the whole file. *)
WholeFile ==
    /\ DOMAIN openHandles = {file_handle_, mapping_handle_}
    /\ file_handle_ # Mapped!INVALID_HANDLE_VALUE /\ mapping_handle_ # Mapped!NULL
    /\ DOMAIN views = {data_} /\ data_ # Mapped!NULL
    /\ size_ = file.size /\ views[data_] = size_

(* The inductive invariant: what is open at each stage of main and, while  *)
(* Open runs, before each of its calls.                                    *)
OpenInv ==
    \/ stage \in {"start", "parse"} /\ open_pc = "idle" /\ ~ opened /\ NothingOpen
    \/ stage = "open" /\ open_pc = "CreateFile" /\ ~ opened /\ NothingOpen
    \/ stage = "open" /\ open_pc = "GetFileSize" /\ ~ opened /\ Acquired({handle})
    \/ /\ stage = "open" /\ open_pc = "CreateFileMapping" /\ ~ opened /\ Acquired({handle})
       /\ file_size = file.size
    \/ /\ stage = "open" /\ open_pc = "MapViewOfFile" /\ ~ opened
       /\ Acquired({handle, mapping})
       /\ file_size = file.size
    \/ stage = "open" /\ open_pc = "idle" /\ ~ opened /\ NothingOpen
    \/ stage = "open" /\ open_pc = "idle" /\ opened /\ WholeFile
    \/ stage \in {"loop", "search"} /\ open_pc = "idle" /\ WholeFile
    \/ stage = "ended" /\ openHandles = << >> /\ views = << >>

-----------------------------------------------------------------------------
(* What is left when all that is open is closed. *)
LEMMA AllClosed ==
    ASSUME NEW S, DOMAIN openHandles \subseteq S
    PROVE  Mapped!ClosedHandles(S) = << >>
  BY DEF Mapped!ClosedHandles

LEMMA AllUnmapped ==
    ASSUME NEW S, DOMAIN views \subseteq S
    PROVE  Mapped!UnmappedViews(S) = << >>
  BY DEF Mapped!UnmappedViews

LEMMA CloseClosesAll ==
    ASSUME NothingOpen \/ WholeFile, Mapped!CloseAll
    PROVE  NothingOpen'
<1> DEFINE S == ({mapping_handle_} \ {Mapped!NULL})
                    \cup ({file_handle_} \ {Mapped!INVALID_HANDLE_VALUE})
           V == {data_} \ {Mapped!NULL}
<1>1. DOMAIN openHandles \subseteq S /\ DOMAIN views \subseteq V
  BY DEF NothingOpen, WholeFile
<1>2. openHandles' = Mapped!ClosedHandles(S) /\ views' = Mapped!UnmappedViews(V)
  BY Zenon DEF Mapped!CloseAll
<1>3. openHandles' = << >> /\ views' = << >>
  <2> HIDE DEF S, V
  <2> QED
    BY <1>1, <1>2, AllClosed, AllUnmapped, Zenon
<1>4. /\ data_' = Mapped!NULL /\ mapping_handle_' = Mapped!NULL
      /\ file_handle_' = Mapped!INVALID_HANDLE_VALUE
  BY DEF Mapped!CloseAll
<1> QED
  BY <1>3, <1>4 DEF NothingOpen

(* One call of Open. *)
LEMMA CreateFileKeeps ==
    ASSUME OpenInv, stage = "open", UNCHANGED stage, NEW code,
           Mapped!CreateFileSucceeds \/ Mapped!CreateFileFails(code)
    PROVE  OpenInv'
<1>1. open_pc = "CreateFile" /\ ~ opened /\ NothingOpen
  BY DEF OpenInv, Mapped!CreateFileSucceeds, Mapped!CreateFileFails
<1>2. CASE Mapped!CreateFileSucceeds
  <2>1. PICK h \in Handles : handle' = h /\ openHandles' = Mapped!Opened(h, "file")
    BY <1>2 DEF Mapped!CreateFileSucceeds
  <2>2. DOMAIN openHandles' = {h}
    BY <1>1, <2>1 DEF Mapped!Opened, NothingOpen
  <2>3. /\ open_pc' = "GetFileSize" /\ opened' = opened /\ views' = views
        /\ data_' = data_ /\ mapping_handle_' = mapping_handle_ /\ file_handle_' = file_handle_
    BY <1>2 DEF Mapped!CreateFileSucceeds, Mapped!object
  <2>4. Acquired({h})'
    BY <1>1, <2>1, <2>2, <2>3, ProgramAssumption DEF Acquired, NothingOpen
  <2> QED
    BY <1>1, <2>1, <2>3, <2>4 DEF OpenInv
<1>3. CASE Mapped!CreateFileFails(code)
  <2>1. open_pc' = "idle" /\ ~ opened' /\ NothingOpen'
    BY <1>1, <1>3 DEF Mapped!CreateFileFails, Mapped!FailsWith, Mapped!object, Mapped!system,
       NothingOpen
  <2> QED
    BY <2>1 DEF OpenInv
<1> QED
  BY <1>2, <1>3

(* A call that fails, with all that was acquired closed. *)
LEMMA FailureCloses ==
    ASSUME stage = "open", UNCHANGED stage, NEW S, Acquired(S),
           openHandles' = Mapped!ClosedHandles(S),
           UNCHANGED <<views, file_handle_, mapping_handle_, data_>>,
           open_pc' = "idle", ~ opened'
    PROVE  OpenInv'
<1>1. openHandles' = << >>
  BY AllClosed DEF Acquired
<1>2. NothingOpen'
  BY <1>1 DEF NothingOpen, Acquired
<1> QED
  BY <1>2 DEF OpenInv

LEMMA GetFileSizeKeeps ==
    ASSUME OpenInv, stage = "open", UNCHANGED <<stage, file>>, NEW code,
           \/ file_size' = file.size /\ Mapped!GetFileSizeSucceeds
           \/ Mapped!GetFileSizeFails(code) \/ Mapped!FileIsEmpty
    PROVE  OpenInv'
<1>1. open_pc = "GetFileSize" /\ ~ opened /\ Acquired({handle})
  BY DEF OpenInv, Mapped!GetFileSizeSucceeds, Mapped!GetFileSizeFails, Mapped!FileIsEmpty
<1>2. CASE file_size' = file.size /\ Mapped!GetFileSizeSucceeds
  <2>1. /\ open_pc' = "CreateFileMapping" /\ opened' = opened /\ handle' = handle
        /\ openHandles' = openHandles /\ views' = views
        /\ data_' = data_ /\ mapping_handle_' = mapping_handle_ /\ file_handle_' = file_handle_
    BY <1>2 DEF Mapped!GetFileSizeSucceeds, Mapped!object, Mapped!system
  <2>2. Acquired({handle})'
    BY <1>1, <2>1 DEF Acquired
  <2> QED
    BY <1>1, <1>2, <2>1, <2>2 DEF OpenInv
<1>3. CASE Mapped!GetFileSizeFails(code) \/ Mapped!FileIsEmpty
  <2>1. /\ openHandles' = Mapped!ClosedHandles({handle})
        /\ UNCHANGED <<views, file_handle_, mapping_handle_, data_>>
        /\ open_pc' = "idle" /\ ~ opened'
    BY <1>3 DEF Mapped!GetFileSizeFails, Mapped!FileIsEmpty, Mapped!FailsWith, Mapped!object
  <2> QED
    BY <1>1, <2>1, FailureCloses
<1> QED
  BY <1>2, <1>3

LEMMA CreateFileMappingKeeps ==
    ASSUME OpenInv, stage = "open", UNCHANGED <<stage, file>>, NEW code,
           Mapped!CreateFileMappingSucceeds \/ Mapped!CreateFileMappingFails(code)
    PROVE  OpenInv'
<1>1. open_pc = "CreateFileMapping" /\ ~ opened /\ Acquired({handle}) /\ file_size = file.size
  BY DEF OpenInv, Mapped!CreateFileMappingSucceeds, Mapped!CreateFileMappingFails
<1>2. CASE Mapped!CreateFileMappingSucceeds
  <2>1. PICK h \in Handles : mapping' = h /\ openHandles' = Mapped!Opened(h, "mapping")
    BY <1>2 DEF Mapped!CreateFileMappingSucceeds
  <2>2. /\ open_pc' = "MapViewOfFile" /\ opened' = opened /\ handle' = handle
        /\ file_size' = file_size /\ views' = views
        /\ data_' = data_ /\ mapping_handle_' = mapping_handle_ /\ file_handle_' = file_handle_
    BY <1>2 DEF Mapped!CreateFileMappingSucceeds, Mapped!object
  <2>3. DOMAIN openHandles' = {handle', mapping'}
    BY <1>1, <2>1, <2>2 DEF Mapped!Opened, Acquired
  <2>4. Acquired({handle, mapping})'
    BY <1>1, <2>1, <2>2, <2>3, ProgramAssumption DEF Acquired
  <2> QED
    BY <1>1, <2>2, <2>4 DEF OpenInv
<1>3. CASE Mapped!CreateFileMappingFails(code)
  <2>1. /\ openHandles' = Mapped!ClosedHandles({handle})
        /\ UNCHANGED <<views, file_handle_, mapping_handle_, data_>>
        /\ open_pc' = "idle" /\ ~ opened'
    BY <1>3 DEF Mapped!CreateFileMappingFails, Mapped!FailsWith, Mapped!object
  <2> QED
    BY <1>1, <2>1, FailureCloses
<1> QED
  BY <1>2, <1>3

LEMMA MapViewOfFileKeeps ==
    ASSUME OpenInv, stage = "open", UNCHANGED <<stage, file>>, NEW code,
           Mapped!MapViewOfFileSucceeds \/ Mapped!MapViewOfFileFails(code)
    PROVE  OpenInv'
<1>1. open_pc = "MapViewOfFile" /\ ~ opened /\ Acquired({handle, mapping})
      /\ file_size = file.size
  BY DEF OpenInv, Mapped!MapViewOfFileSucceeds, Mapped!MapViewOfFileFails
<1>2. CASE Mapped!MapViewOfFileSucceeds
  <2>1. PICK a \in Addresses :
           /\ views' = [b \in DOMAIN views \cup {a} |-> IF b = a THEN file_size ELSE views[b]]
           /\ data_' = a
    BY <1>2 DEF Mapped!MapViewOfFileSucceeds
  <2>2. DOMAIN views' = {a} /\ views'[a] = file_size
    BY <1>1, <2>1 DEF Acquired
  <2>3. /\ open_pc' = "idle" /\ opened' = TRUE /\ openHandles' = openHandles
        /\ file_handle_' = handle /\ mapping_handle_' = mapping /\ size_' = file_size
    BY <1>2 DEF Mapped!MapViewOfFileSucceeds
  <2>4. a # Mapped!NULL
    BY ProgramAssumption
  <2>5. WholeFile'
    BY <1>1, <2>1, <2>2, <2>3, <2>4 DEF WholeFile, Acquired
  <2> QED
    BY <2>3, <2>5 DEF OpenInv
<1>3. CASE Mapped!MapViewOfFileFails(code)
  <2>1. /\ openHandles' = Mapped!ClosedHandles({handle, mapping})
        /\ UNCHANGED <<views, file_handle_, mapping_handle_, data_>>
        /\ open_pc' = "idle" /\ ~ opened'
    BY <1>3 DEF Mapped!MapViewOfFileFails, Mapped!FailsWith, Mapped!object
  <2> QED
    BY <1>1, <2>1, FailureCloses
<1> QED
  BY <1>2, <1>3

-----------------------------------------------------------------------------
LEMMA OpenStarts == ProgramInit => OpenInv
  BY DEF ProgramInit, Mapped!Init, OpenInv, NothingOpen

LEMMA SearchKeepsFile ==
    ASSUME NEW t, Call(t) \/ CallRejected(t) \/ Step PROVE UNCHANGED file
  BY DEF Call, CallRejected, Step, ProbeHit, ProbeRight, ProbeLeft, GiveUp, LinearHit,
         LinearStep, LinearMiss

(* Steps that leave the mapped file alone. *)
LEMMA OtherStagesKeep ==
    ASSUME OpenInv, UNCHANGED <<mappedVars, file>>,
           \/ stage = "start" /\ stage' \in {"parse", "ended"}
           \/ stage = "parse" /\ stage' \in {"parse", "ended"}
           \/ stage = "open" /\ open_pc = "idle" /\ opened /\ stage' = "loop"
           \/ stage \in {"loop", "search"} /\ stage' \in {"loop", "search"}
           \/ UNCHANGED stage
    PROVE  OpenInv'
<1>1. /\ NothingOpen' <=> NothingOpen
      /\ WholeFile' <=> WholeFile
      /\ Acquired({handle})' <=> Acquired({handle})
      /\ Acquired({handle, mapping})' <=> Acquired({handle, mapping})
      /\ UNCHANGED <<open_pc, opened, file_size, openHandles, views, file>>
  BY DEF mappedVars, NothingOpen, WholeFile, Acquired
<1>2. NothingOpen => openHandles = << >> /\ views = << >>
  BY DEF NothingOpen
<1> QED
  BY <1>1, <1>2, Zenon DEF OpenInv

LEMMA OpenStepKeeps ==
    ASSUME OpenInv, OpenStep PROVE OpenInv'
<1>1. stage = "open" /\ UNCHANGED <<stage, file>>
  BY DEF OpenStep, mainVars, vars
<1>2. \/ Mapped!CreateFileSucceeds
      \/ file_size' = file.size /\ Mapped!GetFileSizeSucceeds
      \/ Mapped!FileIsEmpty
      \/ Mapped!CreateFileMappingSucceeds
      \/ Mapped!MapViewOfFileSucceeds
      \/ \E code : \/ Mapped!CreateFileFails(code) \/ Mapped!GetFileSizeFails(code)
                   \/ Mapped!CreateFileMappingFails(code) \/ Mapped!MapViewOfFileFails(code)
  BY Zenon DEF OpenStep
<1> QED
  BY <1>1, <1>2, CreateFileKeeps, GetFileSizeKeeps, CreateFileMappingKeeps, MapViewOfFileKeeps

LEMMA ProgramStepKeeps ==
    ASSUME OpenInv, [ProgramNext]_programVars PROVE OpenInv'
<1>1. CASE OpenStep
  BY <1>1, OpenStepKeeps
<1>2. CASE OpenFile
  <2>1. stage = "parse" /\ stage' = "open" /\ Mapped!OpenCloses
    BY <1>2 DEF OpenFile
  <2>2. NothingOpen /\ ~ opened
    BY <2>1 DEF OpenInv
  <2>3. Mapped!CloseAll /\ open_pc' = "CreateFile" /\ opened' = opened
    BY <2>1 DEF Mapped!OpenCloses
  <2>4. NothingOpen'
    BY <2>2, <2>3, CloseClosesAll
  <2> QED
    BY <2>1, <2>2, <2>3, <2>4 DEF OpenInv
<1>3. CASE OpenFailed \/ Return
  <2>1. stage' = "ended" /\ Mapped!Destroy
    BY <1>3 DEF OpenFailed, Return
  <2>2. NothingOpen \/ WholeFile
    BY <1>3 DEF OpenFailed, Return, OpenInv
  <2>3. Mapped!CloseAll
    BY <2>1 DEF Mapped!Destroy
  <2>4. NothingOpen'
    BY <2>2, <2>3, CloseClosesAll
  <2> QED
    BY <2>1, <2>4 DEF OpenInv, NothingOpen
<1>4. CASE WrongArguments \/ ParseQuery \/ ParseStep \/ QueryRejected \/ EnterLoop
  <2>1. UNCHANGED <<mappedVars, file>>
    BY <1>4 DEF WrongArguments, ParseQuery, ParseStep, QueryRejected, EnterLoop, vars
  <2>2. \/ stage = "start" /\ stage' \in {"parse", "ended"}
        \/ stage = "parse" /\ stage' \in {"parse", "ended"}
        \/ stage = "open" /\ open_pc = "idle" /\ opened /\ stage' = "loop"
    BY <1>4 DEF WrongArguments, ParseQuery, ParseStep, QueryRejected, EnterLoop, mainVars
  <2> QED
    BY <2>1, <2>2, OtherStagesKeep
<1>5. CASE SearchFrame \/ SearchStep \/ PrintResult
  <2>1. UNCHANGED mappedVars /\ stage \in {"loop", "search"} /\ stage' \in {"loop", "search"}
    BY <1>5 DEF SearchFrame, SearchStep, PrintResult, mainVars
  <2>2. UNCHANGED file
    BY <1>5, SearchKeepsFile DEF SearchFrame, SearchStep, PrintResult, vars
  <2> QED
    BY <2>1, <2>2, OtherStagesKeep
<1>6. CASE UNCHANGED programVars
  <2>1. UNCHANGED <<mappedVars, file, stage>>
    BY <1>6 DEF programVars, vars, mainVars
  <2> QED
    BY <2>1, OtherStagesKeep
<1> QED
  BY <1>1, <1>2, <1>3, <1>4, <1>5, <1>6 DEF ProgramNext

(* What is open at each stage of main, whichever call of Open fails.       *)
THEOREM WhatIsOpen == ProgramSpec => []OpenInv
<1>1. ProgramInit => OpenInv
  BY OpenStarts
<1>2. OpenInv /\ [ProgramNext]_programVars => OpenInv'
  BY ProgramStepKeeps
<1> QED
  BY <1>1, <1>2, PTL DEF ProgramSpec

(* Whenever a search may read, the whole file is mapped. *)
THEOREM SearchesReadMappedBytes == ProgramSpec => []MappedWhileSearching
<1>1. OpenInv => MappedWhileSearching
  BY DEF OpenInv, WholeFile, MappedWhileSearching
<1> QED
  BY <1>1, WhatIsOpen, PTL

(* Every return of main leaves nothing open. *)
THEOREM MainLeavesNothingOpen == ProgramSpec => []NothingLeftOpen
<1>1. OpenInv => NothingLeftOpen
  BY DEF OpenInv, NothingLeftOpen
<1> QED
  BY <1>1, WhatIsOpen, PTL

-----------------------------------------------------------------------------
(* The frames of the query. *)

Yielded == {frames[i] : i \in 1 .. Len(frames)}

(* While the query is parsed: what the tokens so far ask for is stored,    *)
(* and of the range at hand the frames below the counter.                  *)
QueryInv ==
    /\ query \in Seq(Seq(Nat \cup {-1}))
    /\ frames \in Seq(Nat)
    /\ token \in 1 .. Len(query) + 1
    /\ query_pc \in {"tokens", "accepted"} => Yielded = Query!AskedBy(token - 1)
    /\ query_pc = "accepted" => token = Len(query) + 1
    /\ query_pc = "range" =>
          /\ token <= Len(query) /\ Len(query[token]) = 2
          /\ query[token][1] \in Nat /\ query[token][2] \in 0 .. UIntMax
          /\ frame \in query[token][1] .. query[token][2]
          /\ Yielded = Query!AskedBy(token - 1) \cup (query[token][1] .. frame - 1)

LEMMA QueryStarts == ProgramInit => QueryInv
  BY DEF ProgramInit, Query!Init, QueryInv

(* Storing one more frame. *)
LEMMA FrameStored ==
    ASSUME frames \in Seq(Nat), NEW n \in Nat, frames' = Append(frames, n)
    PROVE  frames' \in Seq(Nat) /\ Yielded' = Yielded \cup {n}
<1>1. /\ frames' \in Seq(Nat) /\ Len(frames') = Len(frames) + 1 /\ Len(frames) \in Nat
      /\ frames'[Len(frames) + 1] = n
      /\ \A i \in 1 .. Len(frames) : frames'[i] = frames[i]
  OBVIOUS
<1>2. 1 .. Len(frames') = (1 .. Len(frames)) \cup {Len(frames) + 1}
  BY <1>1
<1> QED
  BY <1>1, <1>2 DEF Yielded

(* One more token is done. *)
LEMMA AskedByNext ==
    ASSUME NEW n \in Nat
    PROVE  Query!AskedBy(n + 1) = Query!AskedBy(n) \cup
               (IF Len(query[n + 1]) = 1 THEN {query[n + 1][1]}
                ELSE query[n + 1][1] .. query[n + 1][2])
<1>1. 1 .. n + 1 = (1 .. n) \cup {n + 1}
  OBVIOUS
<1> QED
  BY <1>1 DEF Query!AskedBy

(* The counter of a range does not wrap before the break. *)
LEMMA RangeCounter ==
    ASSUME NEW last \in 0 .. UIntMax, frame \in Nat, frame <= last, query[token][2] = last
    PROVE  /\ Query!RangeEnds => frame = last
           /\ ~ Query!RangeEnds => Query!Incremented = frame + 1 /\ frame + 1 <= last
<1>1. UIntMax \in Nat
  BY LocatorAssumption
<1>2. CASE frame = UIntMax
  BY <1>1, <1>2 DEF Query!RangeEnds
<1>3. CASE frame # UIntMax
  <2>1. frame + 1 \in 0 .. UIntMax
    BY <1>1, <1>3
  <2>2. Query!Incremented = frame + 1
    BY <1>1, <2>1 DEF Query!Incremented
  <2> QED
    BY <1>1, <1>3, <2>1, <2>2 DEF Query!RangeEnds, Query!Token
<1> QED
  BY <1>2, <1>3

LEMMA CallKeepsQueryInv ==
    ASSUME NEW q \in Queries, Query!Call(q) PROVE QueryInv'
<1>1. q \in Seq(Seq(Nat \cup {-1}))
  BY ProgramAssumption DEF Query!NotANumber
<1>2. query' = q /\ frames' = << >> /\ token' = 1 /\ query_pc' \in {"rejected", "tokens"}
  BY DEF Query!Call
<1>3. Yielded' = {} /\ Query!AskedBy(0)' = {}
  BY <1>2 DEF Yielded, Query!AskedBy
<1>4. token' \in 1 .. Len(query') + 1 /\ frames' \in Seq(Nat) /\ token' - 1 = 0
  BY <1>1, <1>2
<1> QED
  BY <1>1, <1>2, <1>3, <1>4 DEF QueryInv

(* What is known of a token with nothing to complain about. *)
LEMMA WellFormedToken ==
    ASSUME QueryInv, token <= Len(query), Query!Complaint(query[token]) = "none"
    PROVE  \/ Len(query[token]) = 1 /\ query[token][1] \in 0 .. UIntMax
           \/ /\ Len(query[token]) = 2
              /\ query[token][1] \in 0 .. UIntMax /\ query[token][2] \in 0 .. UIntMax
              /\ query[token][1] <= query[token][2]
<1> DEFINE t == query[token]
<1>1. t \in Seq(Nat \cup {-1}) /\ Len(t) \in Nat
  <2>1. token \in 1 .. Len(query)
    BY DEF QueryInv
  <2>2. t \in Seq(Nat \cup {-1})
    BY <2>1 DEF QueryInv
  <2> HIDE DEF t
  <2> QED
    BY <2>2
<1>2. UIntMax \in Nat
  BY LocatorAssumption
<1>3. /\ t # << >>
      /\ Len(t) = 1 => t[1] \in 0 .. UIntMax
      /\ ~ (Len(t) > 2)
      /\ Len(t) = 2 => t[1] \in 0 .. UIntMax /\ t[2] \in 0 .. UIntMax /\ ~ (t[1] > t[2])
  BY Zenon DEF Query!Complaint, Query!ParsesAsUint32
<1> HIDE DEF t
<1>4. Len(t) = 1 \/ Len(t) = 2
  <2>1. Len(t) # 0
    BY <1>1, <1>3
  <2>2. ~ (Len(t) > 2) /\ Len(t) \in Nat
    BY <1>1, <1>3, Zenon
  <2>3. \A n \in Nat : n # 0 /\ ~ (n > 2) => n = 1 \/ n = 2
    OBVIOUS
  <2> QED
    BY <2>1, <2>2, <2>3, Zenon
<1>5. t[1] \in 0 .. UIntMax /\ t[2] \in 0 .. UIntMax /\ ~ (t[1] > t[2]) => t[1] <= t[2]
  BY <1>2
<1>6. Len(t) = 2 => t[1] \in 0 .. UIntMax /\ t[2] \in 0 .. UIntMax /\ t[1] <= t[2]
  BY <1>3, <1>5, Zenon
<1> QED
  BY <1>3, <1>4, <1>6, Zenon DEF t

LEMMA StepKeepsQueryInv ==
    ASSUME QueryInv, Query!Step PROVE QueryInv'
<1> USE DEF Query!AtToken, Query!Token
<1>1. CASE Query!RejectToken
  <2>1. UNCHANGED <<query, frames, token>> /\ query_pc' = "rejected"
    BY <1>1 DEF Query!RejectToken
  <2> QED
    BY <2>1 DEF QueryInv
<1>2. CASE Query!SingleFrame
  <2>1. /\ query_pc = "tokens" /\ token <= Len(query)
        /\ Query!Complaint(query[token]) = "none" /\ Len(query[token]) = 1
        /\ frames' = Append(frames, query[token][1]) /\ token' = token + 1
        /\ UNCHANGED <<query, query_pc>>
    BY <1>2 DEF Query!SingleFrame
  <2>2. query[token][1] \in Nat
    BY <2>1, WellFormedToken
  <2>3. frames' \in Seq(Nat) /\ Yielded' = Yielded \cup {query[token][1]}
    BY <2>1, <2>2, FrameStored DEF QueryInv
  <2>4. token \in 1 .. Len(query) /\ Len(query) \in Nat
    BY <2>1 DEF QueryInv
  <2>5. Query!AskedBy(token) = Query!AskedBy(token - 1) \cup {query[token][1]}
    BY <2>1, <2>4, AskedByNext
  <2>6. Query!AskedBy(token - 1)' = Query!AskedBy(token)
    BY <2>1, <2>4 DEF Query!AskedBy
  <2>7. Yielded' = Query!AskedBy(token - 1)'
    BY <2>1, <2>3, <2>5, <2>6, Zenon DEF QueryInv
  <2>8. token' \in 1 .. Len(query') + 1
    BY <2>1, <2>4
  <2>9. query' \in Seq(Seq(Nat \cup {-1})) /\ query_pc' = "tokens"
    BY <2>1 DEF QueryInv
  <2> QED
    BY <2>3, <2>7, <2>8, <2>9 DEF QueryInv
<1>3. CASE Query!StartRange
  <2>1. /\ query_pc = "tokens" /\ token <= Len(query)
        /\ Query!Complaint(query[token]) = "none" /\ Len(query[token]) = 2
        /\ frame' = query[token][1] /\ query_pc' = "range"
        /\ UNCHANGED <<query, frames, token>>
    BY <1>3 DEF Query!StartRange
  <2>2. /\ query[token][1] \in Nat /\ query[token][2] \in 0 .. UIntMax
        /\ query[token][1] <= query[token][2] /\ UIntMax \in Nat
    BY <2>1, WellFormedToken, LocatorAssumption
  <2>3. frame' \in query[token][1] .. query[token][2] /\ query[token][1] .. frame' - 1 = {}
    BY <2>1, <2>2
  <2>4. Yielded' = Query!AskedBy(token - 1)' \cup (query'[token'][1] .. frame' - 1)
    <3>1. Yielded' = Yielded /\ Query!AskedBy(token - 1)' = Query!AskedBy(token - 1)
      BY <2>1 DEF Yielded, Query!AskedBy
    <3> QED
      BY <2>1, <2>3, <3>1 DEF QueryInv
  <2> QED
    BY <2>1, <2>2, <2>3, <2>4 DEF QueryInv
<1>4. CASE Query!RangeFrame \/ Query!LastRangeFrame
  <2> DEFINE first == query[token][1]
             last == query[token][2]
  <2>1. /\ query_pc = "range" /\ frames' = Append(frames, frame) /\ query' = query
        /\ token <= Len(query) /\ Len(query[token]) = 2
        /\ first \in Nat /\ last \in 0 .. UIntMax /\ frame \in first .. last
        /\ Yielded = Query!AskedBy(token - 1) \cup (first .. frame - 1)
    BY <1>4 DEF Query!RangeFrame, Query!LastRangeFrame, QueryInv
  <2>2. UIntMax \in Nat /\ frame \in Nat /\ frame <= last
    BY <2>1, LocatorAssumption
  <2>3. frames' \in Seq(Nat) /\ Yielded' = Yielded \cup {frame}
    BY <2>1, <2>2, FrameStored DEF QueryInv
  <2>4. (first .. frame - 1) \cup {frame} = first .. frame
    BY <2>1, <2>2
  <2>5. Yielded' = Query!AskedBy(token - 1) \cup (first .. frame)
    BY <2>1, <2>3, <2>4
  <2>6. token \in 1 .. Len(query) /\ Len(query) \in Nat
    BY <2>1 DEF QueryInv
  <2>7. CASE Query!RangeFrame
    <3>1. /\ ~ Query!RangeEnds /\ frame' = Query!Incremented
          /\ UNCHANGED <<query_pc, token>>
      BY <2>7 DEF Query!RangeFrame
    <3>2. frame' = frame + 1 /\ frame + 1 <= last
      BY <2>1, <2>2, <3>1, RangeCounter
    <3>3. frame' \in first .. last /\ frame' - 1 = frame
      BY <2>1, <2>2, <3>2
    <3>4. Query!AskedBy(token - 1)' = Query!AskedBy(token - 1)
      BY <2>1, <3>1 DEF Query!AskedBy
    <3>5. Yielded' = Query!AskedBy(token - 1)' \cup (query'[token'][1] .. frame' - 1)
      BY <2>1, <2>5, <3>1, <3>3, <3>4, Zenon
    <3> QED
      BY <2>1, <2>3, <2>6, <3>1, <3>3, <3>5 DEF QueryInv
  <2>8. CASE Query!LastRangeFrame
    <3>1. Query!RangeEnds /\ token' = token + 1 /\ query_pc' = "tokens"
      BY <2>8 DEF Query!LastRangeFrame
    <3>2. frame = last
      BY <2>1, <2>2, <3>1, RangeCounter
    <3>3. Query!AskedBy(token) = Query!AskedBy(token - 1) \cup (first .. last)
      <4>1. token - 1 \in Nat /\ (token - 1) + 1 = token
        BY <2>6
      <4>2. Query!AskedBy((token - 1) + 1) = Query!AskedBy(token - 1) \cup
                (IF Len(query[(token - 1) + 1]) = 1 THEN {query[(token - 1) + 1][1]}
                 ELSE query[(token - 1) + 1][1] .. query[(token - 1) + 1][2])
        BY <4>1, AskedByNext
      <4>3. Len(query[token]) # 1
        BY <2>1
      <4> QED
        BY <4>1, <4>2, <4>3
    <3>4. Query!AskedBy(token - 1)' = Query!AskedBy(token)
      BY <2>1, <2>6, <3>1 DEF Query!AskedBy
    <3>5. Yielded' = Query!AskedBy(token - 1)'
      BY <2>5, <3>2, <3>3, <3>4, Zenon
    <3> QED
      BY <2>1, <2>3, <2>6, <3>1, <3>5 DEF QueryInv
  <2> QED
    BY <1>4, <2>7, <2>8
<1>5. CASE Query!Accept
  <2>1. /\ query_pc = "tokens" /\ token > Len(query) /\ query_pc' = "accepted"
        /\ UNCHANGED <<query, frames, token>>
    BY <1>5 DEF Query!Accept
  <2>2. token = Len(query) + 1
    BY <2>1 DEF QueryInv
  <2>3. Yielded' = Yielded /\ Query!AskedBy(token - 1)' = Query!AskedBy(token - 1)
    BY <2>1 DEF Yielded, Query!AskedBy
  <2> QED
    BY <2>1, <2>2, <2>3 DEF QueryInv
<1> QED
  BY <1>1, <1>2, <1>3, <1>4, <1>5 DEF Query!Step

LEMMA QueryInvKept ==
    ASSUME QueryInv, [ProgramNext]_programVars PROVE QueryInv'
<1>1. CASE ParseQuery
  BY <1>1, CallKeepsQueryInv DEF ParseQuery
<1>2. CASE ParseStep
  BY <1>2, StepKeepsQueryInv DEF ParseStep
<1>3. CASE ~ ParseQuery /\ ~ ParseStep
  <2>1. UNCHANGED queryVars
    BY <1>3, Zenon DEF ProgramNext, programVars, WrongArguments, QueryRejected, OpenFile, OpenStep,
       OpenFailed, EnterLoop, SearchFrame, SearchStep, PrintResult, Return
  <2>2. UNCHANGED <<query, frames, query_pc, token, frame>>
    BY <2>1 DEF queryVars
  <2>3. Yielded' = Yielded /\ \A n : Query!AskedBy(n)' = Query!AskedBy(n)
    BY <2>2 DEF Yielded, Query!AskedBy
  <2> QED
    BY <2>2, <2>3 DEF QueryInv, Yielded, Query!AskedBy
<1> QED
  BY <1>1, <1>2, <1>3

(* An accepted query has yielded every frame it asks for and no other, for *)
(* every width of the numbers: the counter of a range never wraps.         *)
THEOREM AcceptedQueryIsExpanded == ProgramSpec => []Query!AcceptedAsksForAll
<1>1. ProgramInit => QueryInv
  BY QueryStarts
<1>2. QueryInv /\ [ProgramNext]_programVars => QueryInv'
  BY QueryInvKept
<1>3. QueryInv => Query!AcceptedAsksForAll
  <2> SUFFICES ASSUME QueryInv, query_pc = "accepted"
               PROVE  Yielded = Query!AskedBy(Len(query))
    BY DEF Query!AcceptedAsksForAll, Yielded
  <2>1. token - 1 = Len(query)
    BY DEF QueryInv
  <2> QED
    BY <2>1 DEF QueryInv
<1> QED
  BY <1>1, <1>2, <1>3, PTL DEF ProgramSpec
-----------------------------------------------------------------------------
(* The order of the frames. *)

(* The definition of the flattening satisfies its recursion. *)
FlatteningOf(f, parts, n) ==
    f = [i \in 1 .. n |-> IF i = 1 THEN parts[i] ELSE f[i - 1] \o parts[i]]

LEMMA FlatteningExists ==
    ASSUME NEW n \in Nat, n # 0, NEW parts, \A i \in 1 .. n : parts[i] \in Seq(Nat)
    PROVE  \E f : FlatteningOf(f, parts, n)
<1> DEFINE T == Seq(Nat)
           Part(i) == IF i \in 1 .. n THEN parts[i] ELSE << >>
           step == [i \in Nat |-> [s \in T |-> s \o Part(i)]]
<1>1. \A i \in Nat : Part(i) \in T
  OBVIOUS
<1>2. \A i \in Nat : \A s \in T : s \o Part(i) \in T
  <2> HIDE DEF Part
  <2> QED
    BY <1>1
<1>3. step \in [Nat -> [T -> T]]
  <2> HIDE DEF Part, T
  <2> QED
    BY <1>2
<1>4. \A i \in 2 .. n : \A s \in T : step[i][s] = s \o parts[i]
  OBVIOUS
<1>5. 1 <= n /\ parts[1] \in T
  OBVIOUS
<1> HIDE DEF step, T, Part
<1>6. PICK f : Iterates(f, 1, n, T, parts[1], step)
  BY <1>3, <1>5, IterationExists
<1>7. /\ f \in [1 .. n -> T] /\ f[1] = parts[1]
      /\ \A i \in 2 .. n : f[i] = step[i][f[i - 1]]
  BY <1>6 DEF Iterates
<1>8. ASSUME NEW i \in 1 .. n
      PROVE f[i] = IF i = 1 THEN parts[i] ELSE f[i - 1] \o parts[i]
  <2>1. CASE i # 1
    <3>1. i \in 2 .. n /\ i - 1 \in 1 .. n
      BY <2>1
    <3> QED
      BY <3>1, <2>1, <1>4, <1>7
  <2> QED
    BY <2>1, <1>7
<1>9. FlatteningOf(f, parts, n)
  BY <1>7, <1>8 DEF FlatteningOf
<1> QED
  BY <1>9

(* What it yields for the first parts depends on them alone. *)
LEMMA FlatteningIsUnique ==
    ASSUME NEW n \in Nat, NEW m \in Nat, n <= m, NEW parts, NEW more,
           \A i \in 1 .. n : parts[i] = more[i],
           NEW f, FlatteningOf(f, parts, n), NEW g, FlatteningOf(g, more, m)
    PROVE  \A i \in 1 .. n : f[i] = g[i]
<1> DEFINE h == [i \in Nat |-> IF f[i] = g[i] THEN 1 ELSE 0]
           Equal == {1}
<1>1. ASSUME NEW i \in 1 .. n
      PROVE  /\ f[i] = IF i = 1 THEN parts[i] ELSE f[i - 1] \o parts[i]
             /\ g[i] = IF i = 1 THEN parts[i] ELSE g[i - 1] \o parts[i]
  <2>1. i \in 1 .. m
    OBVIOUS
  <2>2. g[i] = IF i = 1 THEN more[i] ELSE g[i - 1] \o more[i]
    BY <2>1, Zenon DEF FlatteningOf
  <2>3. f[i] = IF i = 1 THEN parts[i] ELSE f[i - 1] \o parts[i]
    BY Zenon DEF FlatteningOf
  <2> QED
    BY <2>2, <2>3
<1>2. \A i \in Nat : h[i] \in Equal <=> f[i] = g[i]
  OBVIOUS
<1> HIDE DEF h, Equal
<1>3. CASE n # 0
  <2>1. 1 \in 1 .. n /\ 1 \in Nat
    BY <1>3
  <2>2. f[1] = g[1]
    BY <2>1, <1>1
  <2>3. h[1] \in Equal
    BY <2>1, <2>2, <1>2
  <2>4. ASSUME NEW i \in 1 + 1 .. n, h[i - 1] \in Equal PROVE h[i] \in Equal
    <3>1. i \in Nat /\ i - 1 \in Nat /\ i \in 1 .. n /\ i # 1
      OBVIOUS
    <3>2. f[i - 1] = g[i - 1]
      BY <2>4, <3>1, <1>2
    <3>3. f[i] = g[i]
      BY <1>1, <3>1, <3>2
    <3> QED
      BY <3>1, <3>3, <1>2
  <2>5. \A i \in 1 .. n : h[i] \in Equal
    BY <2>3, <2>4, <2>1, StaysIn
  <2> QED
    BY <2>5, <1>2
<1> QED
  BY <1>3

LEMMA FlattenUnfolds ==
    ASSUME NEW parts, Len(parts) # 0
    PROVE  Query!FlattenSeq(parts) =
             (CHOOSE f : FlatteningOf(f, parts, Len(parts)))[Len(parts)]
  BY DEF Query!FlattenSeq, FlatteningOf

(* The parts of a flattening: what the first n tokens denote. *)
Parts(n) == [i \in 1 .. n |-> Query!Denoted(query[i])]
Flattened(n) == Query!FlattenSeq(Parts(n))
Denoting(n) == \A i \in 1 .. n : Query!Denoted(query[i]) \in Seq(Nat)

LEMMA NothingFlattened == Flattened(0) = << >>
<1>1. Parts(0) = << >>
  BY DEF Parts
<1> QED
  BY <1>1 DEF Flattened, Query!FlattenSeq

LEMMA FlattenedUnfolds ==
    ASSUME NEW n \in Nat, n # 0
    PROVE  Flattened(n) = (CHOOSE f : FlatteningOf(f, Parts(n), n))[n]
<1>1. Len(Parts(n)) = n
  BY DEF Parts
<1> QED
  BY <1>1, FlattenUnfolds DEF Flattened

(* One more token adds what it denotes at the end. *)
LEMMA FlattenedNext ==
    ASSUME NEW n \in Nat, Denoting(n + 1)
    PROVE  Flattened(n + 1) = Flattened(n) \o Query!Denoted(query[n + 1])
<1> DEFINE m == n + 1
           f == CHOOSE ff : FlatteningOf(ff, Parts(n), n)
           g == CHOOSE gg : FlatteningOf(gg, Parts(m), m)
           last == Query!Denoted(query[m])
<1>1. m \in Nat /\ m # 0 /\ n <= m /\ m \in 1 .. m /\ m - 1 = n
  OBVIOUS
<1>2. /\ \A i \in 1 .. m : Parts(m)[i] = Query!Denoted(query[i])
      /\ \A i \in 1 .. n : Parts(n)[i] = Query!Denoted(query[i])
  BY DEF Parts
<1>3. \A i \in 1 .. m : Parts(m)[i] \in Seq(Nat)
  BY <1>2 DEF Denoting
<1>4. FlatteningOf(g, Parts(m), m)
  <2>1. \E gg : FlatteningOf(gg, Parts(m), m)
    <3> HIDE DEF m
    <3> QED
      BY <1>1, <1>3, FlatteningExists, Zenon
  <2> HIDE DEF m
  <2> QED
    BY <2>1, Zenon
<1>5. Flattened(m) = g[m]
  <2> HIDE DEF m
  <2> QED
    BY <1>1, FlattenedUnfolds, Zenon
<1>6. g[m] = IF m = 1 THEN Parts(m)[m] ELSE g[m - 1] \o Parts(m)[m]
  <2> HIDE DEF m, g
  <2> QED
    BY <1>1, <1>4, Zenon DEF FlatteningOf
<1>7. last \in Seq(Nat) /\ Parts(m)[m] = last
  BY <1>1, <1>2, <1>3
<1> HIDE DEF last, g
<1>8. CASE n = 0
  <2>1. Flattened(m) = last
    BY <1>5, <1>6, <1>7, <1>8
  <2>2. Flattened(n) = << >>
    BY <1>8, NothingFlattened
  <2>3. << >> \o last = last
    BY <1>7
  <2> QED
    BY <2>1, <2>2, <2>3 DEF last
<1>9. CASE n # 0
  <2>1. \A i \in 1 .. n : Parts(n)[i] = Parts(m)[i] /\ Parts(n)[i] \in Seq(Nat)
    <3>1. \A i \in 1 .. n : i \in 1 .. m
      OBVIOUS
    <3> QED
      BY <3>1, <1>2, <1>3
  <2> HIDE DEF m, f
  <2>2. FlatteningOf(f, Parts(n), n)
    <3>1. \E ff : FlatteningOf(ff, Parts(n), n)
      BY <2>1, <1>9, FlatteningExists, Zenon
    <3> QED
      BY <3>1, Zenon DEF f
  <2>3. \A i \in 1 .. n : f[i] = g[i]
    <3>1. \A i \in 1 .. n : Parts(n)[i] = Parts(m)[i]
      BY <2>1
    <3> QED
      BY <1>1, <1>4, <2>2, <3>1, FlatteningIsUnique
  <2>4. Flattened(n) = f[n]
    BY <1>9, FlattenedUnfolds, Zenon DEF f
  <2>5. n \in 1 .. n /\ m # 1
    BY <1>9 DEF m
  <2>6. Flattened(m) = Flattened(n) \o last
    BY <2>3, <2>4, <2>5, <1>1, <1>5, <1>6, <1>7
  <2> QED
    BY <2>6 DEF m, last
<1> QED
  BY <1>8, <1>9

(* What more tokens ask for is stored behind what fewer ask for.           *)
LEMMA FlattenedGrows ==
    ASSUME NEW n \in Nat, NEW m \in Nat, n <= m, Denoting(m), Flattened(n) \in Seq(Nat)
    PROVE  Flattened(m) \in Seq(Nat) /\ Query!IsPrefix(Flattened(n), Flattened(m))
<1> DEFINE T == {s \in Seq(Nat) : Query!IsPrefix(Flattened(n), s)}
           h == [i \in Nat |-> Flattened(i)]
<1>1. h[n] \in T
  BY DEF Query!IsPrefix
<1>2. ASSUME NEW i \in n + 1 .. m, h[i - 1] \in T PROVE h[i] \in T
  <2> DEFINE k == i - 1
             a == Flattened(n)
             b == Flattened(k)
             c == Query!Denoted(query[i])
  <2>1. k \in Nat /\ k + 1 = i /\ i \in Nat /\ i \in 1 .. m /\ \A j \in 1 .. k + 1 : j \in 1 .. m
    OBVIOUS
  <2>2. Denoting(k + 1) /\ c \in Seq(Nat)
    BY <2>1 DEF Denoting
  <2>3. Flattened(i) = b \o c
    <3> HIDE DEF k
    <3> QED
      BY <2>1, <2>2, FlattenedNext
  <2>4. b \in Seq(Nat) /\ Query!IsPrefix(a, b) /\ h[i] = b \o c
    BY <1>2, <2>1, <2>3
  <2> HIDE DEF a, b, c, k
  <2>5. a \in Seq(Nat)
    BY DEF a
  <2>6. b \o c \in Seq(Nat) /\ Query!IsPrefix(a, b \o c)
    BY <2>2, <2>4, <2>5 DEF Query!IsPrefix
  <2> QED
    BY <2>4, <2>6 DEF a
<1>3. \A i \in n .. m : h[i] \in T
  <2> HIDE DEF h, T
  <2> QED
    BY <1>1, <1>2, StaysIn
<1>4. m \in n .. m
  OBVIOUS
<1> QED
  BY <1>3, <1>4

(* The tokens up to n are well-formed. *)
WellFormedTo(n) == \A i \in 1 .. n : Query!WellFormed(query[i])

(* The numbers of the range at hand that are below its counter. *)
CountedSoFar ==
    [i \in 1 .. frame - query[token][1] |-> query[token][1] + i - 1]

(* While the query is parsed, the vector holds what the tokens before the  *)
(* one at hand ask for, in order, and of the range at hand the frames the  *)
(* counter has passed; the tokens before are well-formed, and a query that *)
(* is rejected stands at one that is not.                                  *)
OrderInv ==
    /\ WellFormedTo(token - 1)
    /\ query_pc \in {"idle", "tokens", "range", "accepted", "rejected"}
    /\ query_pc # "range" => frames = Flattened(token - 1)
    /\ query_pc \in {"tokens", "range", "accepted"} => query # << >> /\ error = "none"
    /\ query_pc = "range" =>
          Query!WellFormed(query[token]) /\ frames = Flattened(token - 1) \o CountedSoFar
    /\ query_pc = "rejected" =>
          /\ error # "none"
          /\ query = << >> \/ (token <= Len(query) /\ ~ Query!WellFormed(query[token]))

(* What a well-formed token denotes is a sequence of numbers. *)
LEMMA DenotedNumbers ==
    ASSUME QueryInv, NEW i \in 1 .. Len(query), Query!WellFormed(query[i])
    PROVE  /\ Query!Denoted(query[i]) \in Seq(Nat)
           /\ Len(query[i]) = 1 => Query!Denoted(query[i]) = <<query[i][1]>>
           /\ Len(query[i]) = 2 =>
                 /\ query[i][1] \in Nat /\ query[i][2] \in Nat /\ query[i][1] <= query[i][2]
                 /\ Query!Denoted(query[i]) =
                      [j \in 1 .. query[i][2] - query[i][1] + 1 |-> query[i][1] + j - 1]
           /\ Len(query[i]) \in {1, 2}
<1> DEFINE t == query[i]
<1>1. t \in Seq(Nat \cup {-1}) /\ UIntMax \in Nat
  BY LocatorAssumption DEF QueryInv
<1>2. /\ Len(t) \in {1, 2}
      /\ \A j \in 1 .. Len(t) : t[j] \in 0 .. UIntMax
      /\ Len(t) = 2 => t[1] <= t[2]
  BY Zenon DEF Query!WellFormed
<1>3. Query!Denoted(t) =
        IF Len(t) = 1 THEN t ELSE [j \in 1 .. t[2] - t[1] + 1 |-> t[1] + j - 1]
  BY DEF Query!Denoted
<1> HIDE DEF t
<1>4. CASE Len(t) = 1
  <2>1. t[1] \in Nat /\ t = <<t[1]>>
    BY <1>1, <1>2, <1>4
  <2>2. Query!Denoted(t) = <<t[1]>>
    BY <1>3, <1>4, <2>1
  <2> QED
    BY <1>2, <1>4, <2>1, <2>2 DEF t
<1>5. CASE Len(t) = 2
  <2>1. t[1] \in Nat /\ t[2] \in Nat /\ t[1] <= t[2]
    BY <1>1, <1>2, <1>5
  <2>2. Query!Denoted(t) = [j \in 1 .. t[2] - t[1] + 1 |-> t[1] + j - 1]
    BY <1>3, <1>5
  <2>3. \A j \in 1 .. t[2] - t[1] + 1 : t[1] + j - 1 \in Nat
    BY <2>1
  <2>4. Query!Denoted(t) \in Seq(Nat)
    <3> DEFINE k == t[2] - t[1] + 1
               d(j) == t[1] + j - 1
    <3>1. k \in Nat /\ \A j \in 1 .. k : d(j) \in Nat
      BY <2>1
    <3>2. Query!Denoted(t) = [j \in 1 .. k |-> d(j)]
      BY <2>2
    <3> HIDE DEF k, d
    <3> QED
      BY <3>1, <3>2
  <2> QED
    BY <1>2, <1>5, <2>1, <2>2, <2>4 DEF t
<1> QED
  BY <1>2, <1>4, <1>5

LEMMA WellFormedDenoting ==
    ASSUME QueryInv, NEW n \in Nat, n <= Len(query), WellFormedTo(n)
    PROVE  Denoting(n) /\ Flattened(n) \in Seq(Nat)
<1>1. \A i \in 1 .. n : i \in 1 .. Len(query)
  BY DEF QueryInv
<1>2. Denoting(n)
  <2> SUFFICES ASSUME NEW i \in 1 .. n PROVE Query!Denoted(query[i]) \in Seq(Nat)
    BY DEF Denoting
  <2>1. i \in 1 .. Len(query) /\ Query!WellFormed(query[i])
    BY <1>1 DEF WellFormedTo
  <2> QED
    BY <2>1, DenotedNumbers
<1>3. Flattened(0) \in Seq(Nat)
  <2>1. << >> \in Seq(Nat)
    OBVIOUS
  <2> QED
    BY <2>1, NothingFlattened, Zenon
<1>4. 0 \in Nat /\ 0 <= n
  OBVIOUS
<1> QED
  BY <1>2, <1>3, <1>4, FlattenedGrows

(* The expansion is the flattening of the tokens before the first bad one. *)
LEMMA ExpansionIsFlattened ==
    ASSUME QueryInv, NEW n \in Nat, n <= Len(query), WellFormedTo(n)
    PROVE  /\ \E m \in n .. Len(query) :
                WellFormedTo(m) /\ Query!Expansion = Flattened(m)
           /\ n = Len(query) => Query!FirstBad = 0 /\ Query!Expansion = Flattened(n)
           /\ n < Len(query) /\ ~ Query!WellFormed(query[n + 1]) =>
                Query!FirstBad # 0 /\ Query!Expansion = Flattened(n)
<1> DEFINE Bad == {i \in 1 .. Len(query) : ~ Query!WellFormed(query[i])}
<1>1. /\ Len(query) \in Nat /\ query \in Seq(Seq(Nat \cup {-1}))
      /\ \A i \in Bad : n < i /\ i \in 1 .. Len(query)
  BY DEF QueryInv, WellFormedTo
<1>2. Query!FirstBad = IF Bad # {} THEN Query!Min(Bad) ELSE 0
  BY Zenon DEF Query!FirstBad, Query!SelectInSeq
<1>3. CASE Bad = {}
  <2>1. Query!FirstBad = 0
    BY <1>2, <1>3
  <2>2. WellFormedTo(Len(query))
    BY <1>3 DEF WellFormedTo
  <2>3. Query!Expansion = Flattened(Len(query))
    <3>1. DOMAIN query = 1 .. Len(query)
      BY <1>1
    <3> QED
      BY <2>1, <3>1 DEF Query!Expansion, Flattened, Parts
  <2>4. ~ (n < Len(query) /\ ~ Query!WellFormed(query[n + 1]))
    BY <1>1, <2>2 DEF WellFormedTo
  <2> QED
    BY <1>1, <2>1, <2>2, <2>3, <2>4
<1>4. CASE Bad # {}
  <2>1. PICK b \in Bad : \A i \in Bad : b <= i
    <3>1. Bad \in SUBSET Nat
      OBVIOUS
    <3> HIDE DEF Bad
    <3> QED
      BY <3>1, <1>4, SmallestOf
  <2>2. Query!FirstBad = b
    <3>1. Query!Min(Bad) = CHOOSE x \in Bad : \A y \in Bad : x <= y
      BY Zenon DEF Query!Min
    <3>2. \A x \in Bad : (\A y \in Bad : x <= y) => x = b
      BY <2>1, <1>1
    <3> HIDE DEF Bad
    <3> QED
      BY <1>2, <1>4, <2>1, <3>1, <3>2
  <2> DEFINE m == b - 1
  <2>3. b \in 1 .. Len(query) /\ n < b /\ b # 0 /\ m \in n .. Len(query) /\ m < Len(query)
        /\ m \in Nat
    BY <1>1, <2>1
  <2>4. WellFormedTo(m)
    <3>1. \A i \in 1 .. m : i \in 1 .. Len(query) /\ ~ (b <= i)
      BY <2>3
    <3> QED
      BY <3>1, <2>1 DEF WellFormedTo
  <2>5. Query!Expansion = Flattened(m)
    <3> DEFINE good == SubSeq(query, 1, m)
    <3>1. DOMAIN good = 1 .. m /\ \A i \in 1 .. m : good[i] = query[i]
      BY <1>1, <2>3
    <3>2. Query!Expansion = Query!FlattenSeq([i \in DOMAIN good |-> Query!Denoted(good[i])])
      BY <2>2, <2>3 DEF Query!Expansion
    <3>3. [i \in DOMAIN good |-> Query!Denoted(good[i])] = Parts(m)
      <4> HIDE DEF good, m
      <4> QED
        BY <3>1 DEF Parts
    <3> QED
      BY <3>2, <3>3 DEF Flattened
  <2>6. n < Len(query) /\ ~ Query!WellFormed(query[n + 1]) => m = n
    <3>1. ASSUME n < Len(query), ~ Query!WellFormed(query[n + 1]) PROVE m = n
      <4>1. n + 1 \in Bad
        BY <3>1, <1>1
      <4>2. b <= n + 1
        BY <2>1, <4>1
      <4> QED
        BY <2>3, <4>2
    <3> QED
      BY <3>1
  <2>7. n # Len(query)
    BY <1>1, <2>3
  <2> QED
    BY <2>2, <2>3, <2>4, <2>5, <2>6, <2>7
<1> QED
  BY <1>3, <1>4

(* A prefix of a prefix is a prefix. *)
LEMMA PrefixOfPrefix ==
    ASSUME NEW a \in Seq(Nat), NEW b \in Seq(Nat), NEW c \in Seq(Nat),
           Query!IsPrefix(a, b), Query!IsPrefix(b, c)
    PROVE  Query!IsPrefix(a, c)
<1>1. /\ Len(a) <= Len(b) /\ \A i \in 1 .. Len(a) : a[i] = b[i]
      /\ Len(b) <= Len(c) /\ \A i \in 1 .. Len(b) : b[i] = c[i]
  BY DEF Query!IsPrefix
<1>2. Len(a) <= Len(c) /\ \A i \in 1 .. Len(a) : a[i] = c[i]
  BY <1>1
<1> QED
  BY <1>2 DEF Query!IsPrefix

LEMMA OrderInvSuffices ==
    ASSUME QueryInv, OrderInv PROVE Query!ExpandsInOrder
<1> DEFINE n == token - 1
<1>1. n \in Nat /\ n <= Len(query) /\ Len(query) \in Nat
  BY DEF QueryInv
<1>2. WellFormedTo(n)
  BY DEF OrderInv
<1>3. Flattened(n) \in Seq(Nat)
  <2> HIDE DEF n
  <2> QED
    BY <1>1, <1>2, WellFormedDenoting
<1>4. Query!IsPrefix(frames, Query!Expansion)
  <2>1. CASE query_pc # "range"
    <3>1. PICK m \in n .. Len(query) : WellFormedTo(m) /\ Query!Expansion = Flattened(m)
      <4> HIDE DEF n
      <4> QED
        BY <1>1, <1>2, ExpansionIsFlattened
    <3>2. m \in Nat /\ n <= m /\ m <= Len(query)
      BY <1>1
    <3>3. Denoting(m)
      BY <3>1, <3>2, WellFormedDenoting
    <3>4. Query!IsPrefix(Flattened(n), Flattened(m))
      <4> HIDE DEF n
      <4> QED
        BY <1>1, <1>3, <3>2, <3>3, FlattenedGrows
    <3>5. frames = Flattened(n)
      BY <2>1 DEF OrderInv
    <3> QED
      BY <3>1, <3>4, <3>5
  <2>2. CASE query_pc = "range"
    <3> DEFINE t == query[token]
               d == Query!Denoted(t)
    <3>1. /\ token \in 1 .. Len(query) /\ token \in Nat /\ token <= Len(query) /\ Len(t) = 2
          /\ Query!WellFormed(t) /\ frames = Flattened(n) \o CountedSoFar
          /\ frame \in t[1] .. t[2]
      BY <2>2 DEF QueryInv, OrderInv
    <3>2. /\ t[1] \in Nat /\ t[2] \in Nat /\ t[1] <= t[2]
          /\ d = [j \in 1 .. t[2] - t[1] + 1 |-> t[1] + j - 1] /\ d \in Seq(Nat)
      BY <3>1, DenotedNumbers
    <3>3. WellFormedTo(token)
      <4>1. \A i \in 1 .. token : i = token \/ i \in 1 .. n
        BY <3>1
      <4> QED
        BY <3>1, <1>2, <4>1 DEF WellFormedTo
    <3>4. n + 1 = token /\ Denoting(n + 1)
      BY <3>1, <3>3, WellFormedDenoting
    <3>5. Flattened(token) = Flattened(n) \o d
      <4> HIDE DEF n
      <4> QED
        BY <1>1, <3>4, FlattenedNext
    <3>6. PICK m \in token .. Len(query) : WellFormedTo(m) /\ Query!Expansion = Flattened(m)
      BY <3>1, <3>3, ExpansionIsFlattened
    <3>7. m \in Nat /\ token <= m /\ m <= Len(query)
      BY <1>1, <3>1
    <3>8. Denoting(m) /\ Flattened(token) \in Seq(Nat) /\ Flattened(m) \in Seq(Nat)
      BY <3>1, <3>3, <3>6, <3>7, WellFormedDenoting
    <3>9. Query!IsPrefix(Flattened(token), Flattened(m))
      BY <3>1, <3>7, <3>8, FlattenedGrows
    <3>10. /\ CountedSoFar \in Seq(Nat) /\ Len(CountedSoFar) <= Len(d)
           /\ \A j \in 1 .. Len(CountedSoFar) : CountedSoFar[j] = d[j]
      <4>1. CountedSoFar = [i \in 1 .. frame - t[1] |-> t[1] + i - 1]
        BY DEF CountedSoFar
      <4> HIDE DEF t, d
      <4>2. frame - t[1] \in Nat /\ frame - t[1] <= t[2] - t[1] + 1 /\ t[2] - t[1] + 1 \in Nat
        BY <3>1, <3>2
      <4>3. \A i \in 1 .. frame - t[1] : t[1] + i - 1 \in Nat
        BY <3>2
      <4>4. CountedSoFar \in Seq(Nat) /\ Len(CountedSoFar) = frame - t[1]
        <5> DEFINE k == frame - t[1]
                   c(j) == t[1] + j - 1
        <5>1. k \in Nat /\ (\A j \in 1 .. k : c(j) \in Nat) /\ CountedSoFar = [j \in 1 .. k |-> c(j)]
          BY <4>1, <4>2, <4>3
        <5>2. CountedSoFar \in Seq(Nat) /\ Len(CountedSoFar) = k
          <6> HIDE DEF k, c
          <6> QED
            BY <5>1
        <5> QED
          BY <5>2
      <4>5. Len(d) = t[2] - t[1] + 1
        BY <3>2, <4>2
      <4> QED
        BY <3>2, <4>1, <4>2, <4>4, <4>5
    <3>11. frames \in Seq(Nat) /\ Query!IsPrefix(frames, Flattened(n) \o d)
      <4> DEFINE a == Flattened(n)
                 c == CountedSoFar
      <4>1. a \in Seq(Nat) /\ c \in Seq(Nat) /\ d \in Seq(Nat) /\ Len(c) <= Len(d)
            /\ \A j \in 1 .. Len(c) : c[j] = d[j]
        BY <1>3, <3>2, <3>10
      <4> HIDE DEF a, c, d
      <4>2. ASSUME NEW i \in 1 .. Len(a \o c) PROVE (a \o c)[i] = (a \o d)[i]
        <5>1. i \in 1 .. Len(a) + Len(c) /\ i \in 1 .. Len(a) + Len(d)
          BY <4>1
        <5>2. CASE i <= Len(a)
          BY <4>1, <5>1, <5>2
        <5>3. CASE i > Len(a)
          <6>1. i - Len(a) \in 1 .. Len(c)
            BY <4>1, <5>1, <5>3
          <6>2. c[i - Len(a)] = d[i - Len(a)]
            BY <4>1, <6>1
          <6>3. (a \o c)[i] = c[i - Len(a)] /\ (a \o d)[i] = d[i - Len(a)]
            BY <4>1, <5>1, <5>3
          <6> QED
            BY <6>2, <6>3
        <5> QED
          BY <4>1, <5>1, <5>2, <5>3
      <4>3. Query!IsPrefix(a \o c, a \o d) /\ a \o c \in Seq(Nat)
        BY <4>1, <4>2 DEF Query!IsPrefix
      <4> QED
        BY <4>3, <3>1 DEF a, c
    <3> QED
      BY <3>5, <3>6, <3>8, <3>9, <3>11, PrefixOfPrefix
  <2> QED
    BY <2>1, <2>2
<1>5. query_pc = "accepted" =>
         query # << >> /\ Query!FirstBad = 0 /\ frames = Query!Expansion /\ error = "none"
  <2>1. ASSUME query_pc = "accepted" PROVE n = Len(query)
    BY <2>1, <1>1 DEF QueryInv
  <2>2. ASSUME query_pc = "accepted"
        PROVE  Query!FirstBad = 0 /\ Query!Expansion = Flattened(n)
    <3> HIDE DEF n
    <3> QED
      BY <2>1, <2>2, <1>1, <1>2, ExpansionIsFlattened
  <2> QED
    BY <2>2 DEF OrderInv
<1>6. query_pc = "rejected" =>
         /\ query = << >> \/ Query!FirstBad # 0
         /\ frames = Query!Expansion /\ error # "none"
  <2>1. ASSUME query_pc = "rejected", query = << >> PROVE Query!Expansion = Flattened(n)
    <3>1. n = Len(query)
      <4>1. Len(query) = 0
        BY <2>1
      <4> HIDE DEF n
      <4>2. \A k \in Nat : k <= 0 => k = 0
        OBVIOUS
      <4> QED
        BY <4>1, <4>2, <1>1
    <3> HIDE DEF n
    <3> QED
      BY <3>1, <1>1, <1>2, ExpansionIsFlattened
  <2>2. ASSUME query_pc = "rejected", query # << >>
        PROVE  Query!FirstBad # 0 /\ Query!Expansion = Flattened(n)
    <3>1. n < Len(query) /\ ~ Query!WellFormed(query[n + 1])
      <4>1. token <= Len(query) /\ ~ Query!WellFormed(query[token]) /\ n + 1 = token
        BY <2>2, <1>1 DEF OrderInv, QueryInv
      <4> QED
        BY <4>1, <1>1
    <3> HIDE DEF n
    <3> QED
      BY <3>1, <1>1, <1>2, ExpansionIsFlattened
  <2> QED
    BY <2>1, <2>2 DEF OrderInv
<1> QED
  BY <1>4, <1>5, <1>6 DEF Query!ExpandsInOrder

LEMMA OrderStarts == ProgramInit => OrderInv
<1> SUFFICES ASSUME ProgramInit PROVE OrderInv
  OBVIOUS
<1>1. query_pc = "idle" /\ frames = << >> /\ token - 1 = 0
  BY DEF ProgramInit, Query!Init
<1>2. WellFormedTo(0)
  BY DEF WellFormedTo
<1> QED
  BY <1>1, <1>2, NothingFlattened DEF OrderInv

(* What is flattened depends on the query alone. *)
LEMMA SameQuery ==
    ASSUME UNCHANGED query
    PROVE  \A n : Flattened(n)' = Flattened(n) /\ (WellFormedTo(n)' <=> WellFormedTo(n))
  BY DEF Flattened, Parts, WellFormedTo

LEMMA CallKeepsOrder ==
    ASSUME NEW q \in Queries, Query!Call(q) PROVE OrderInv'
<1>1. /\ query' = q /\ frames' = << >> /\ token' = 1
      /\ \/ q = << >> /\ error' = "empty query" /\ query_pc' = "rejected"
         \/ q # << >> /\ error' = "none" /\ query_pc' = "tokens"
  BY DEF Query!Call
<1>2. token' - 1 = 0 /\ 1 .. token' - 1 = {}
  <2>1. token' = 1
    BY <1>1
  <2> QED
    BY <2>1
<1>3. WellFormedTo(token - 1)'
  BY <1>2 DEF WellFormedTo
<1>4. Flattened(token - 1)' = << >>
  <2>1. Parts(token - 1)' = << >>
    BY <1>2 DEF Parts
  <2> QED
    BY <2>1 DEF Flattened, Query!FlattenSeq
<1> QED
  BY <1>1, <1>3, <1>4 DEF OrderInv

(* What the code complains about is what is not well-formed. *)
LEMMA ComplaintIsRight ==
    ASSUME QueryInv, token <= Len(query)
    PROVE  Query!Complaint(query[token]) = "none" <=> Query!WellFormed(query[token])
<1> DEFINE t == query[token]
<1>1. /\ token \in 1 .. Len(query) /\ t \in Seq(Nat \cup {-1}) /\ UIntMax \in Nat
      /\ Len(t) \in Nat
  <2>1. token \in 1 .. Len(query)
    BY DEF QueryInv
  <2>2. t \in Seq(Nat \cup {-1})
    BY <2>1 DEF QueryInv
  <2> HIDE DEF t
  <2> QED
    BY <2>1, <2>2, LocatorAssumption
<1>2. ASSUME Query!Complaint(t) = "none" PROVE Query!WellFormed(t)
  <2>1. \/ Len(t) = 1 /\ t[1] \in 0 .. UIntMax
        \/ /\ Len(t) = 2 /\ t[1] \in 0 .. UIntMax /\ t[2] \in 0 .. UIntMax
           /\ t[1] <= t[2]
    BY <1>2, WellFormedToken
  <2> HIDE DEF t
  <2>2. CASE Len(t) = 1
    <3>1. \A j \in 1 .. Len(t) : j = 1
      BY <2>2
    <3> QED
      BY <2>1, <2>2, <3>1 DEF Query!WellFormed
  <2>3. CASE Len(t) = 2
    <3>1. \A j \in 1 .. Len(t) : j = 1 \/ j = 2
      BY <2>3
    <3> QED
      BY <2>1, <2>3, <3>1 DEF Query!WellFormed
  <2> QED
    BY <2>1, <2>2, <2>3
<1>3. ASSUME Query!WellFormed(t) PROVE Query!Complaint(t) = "none"
  <2>1. /\ Len(t) \in {1, 2}
        /\ \A j \in 1 .. Len(t) : t[j] \in 0 .. UIntMax
        /\ Len(t) = 2 => t[1] <= t[2]
    BY <1>3 DEF Query!WellFormed
  <2> HIDE DEF t
  <2>2. /\ t # << >>
        /\ ~ (Len(t) > 2)
        /\ t[1] \in 0 .. UIntMax
        /\ Len(t) = 2 => t[2] \in 0 .. UIntMax /\ ~ (t[1] > t[2])
    <3>1. 1 \in 1 .. Len(t) /\ ~ (Len(t) > 2) /\ (Len(t) = 2 => 2 \in 1 .. Len(t))
      BY <2>1
    <3>2. t[1] \in 0 .. UIntMax /\ (Len(t) = 2 => t[2] \in 0 .. UIntMax)
      BY <2>1, <3>1, Zenon
    <3>3. Len(t) = 2 => ~ (t[1] > t[2])
      BY <1>1, <2>1, <3>2
    <3>4. t # << >>
      <4>1. ASSUME t = << >> PROVE FALSE
        <5>1. Len(t) = 0
          BY <4>1
        <5> QED
          BY <5>1, <2>1
      <4> QED
        BY <4>1
    <3> QED
      BY <3>1, <3>2, <3>3, <3>4, Zenon
  <2> QED
    BY <2>2, Zenon DEF Query!Complaint, Query!ParsesAsUint32
<1> QED
  BY <1>2, <1>3

(* One more token is well-formed, and one more is flattened. *)
LEMMA TokenDone ==
    ASSUME QueryInv, OrderInv, token <= Len(query), Query!WellFormed(query[token])
    PROVE  /\ WellFormedTo(token)
           /\ Flattened(token) = Flattened(token - 1) \o Query!Denoted(query[token])
           /\ Flattened(token - 1) \in Seq(Nat)
           /\ Query!Denoted(query[token]) \in Seq(Nat)
<1> DEFINE n == token - 1
<1>1. n \in Nat /\ n <= Len(query) /\ n + 1 = token /\ token \in Nat /\ token \in 1 .. Len(query)
  BY DEF QueryInv
<1>2. WellFormedTo(n)
  BY DEF OrderInv
<1>3. WellFormedTo(token)
  <2>1. \A i \in 1 .. token : i = token \/ i \in 1 .. n
    BY <1>1
  <2> QED
    BY <1>2, <2>1 DEF WellFormedTo
<1> HIDE DEF n
<1>4. Denoting(n + 1) /\ Flattened(n) \in Seq(Nat)
  BY <1>1, <1>2, <1>3, WellFormedDenoting
<1>5. Flattened(n + 1) = Flattened(n) \o Query!Denoted(query[n + 1])
  BY <1>1, <1>4, FlattenedNext
<1> QED
  BY <1>1, <1>3, <1>4, <1>5, DenotedNumbers DEF n

(* Appending to the second of two sequences.                               *)
LEMMA AppendBehind ==
    ASSUME NEW a \in Seq(Nat), NEW b \in Seq(Nat), NEW k \in Nat
    PROVE  Append(a \o b, k) = a \o Append(b, k)
<1> DEFINE leftOf == Append(a \o b, k)
           rightOf == a \o Append(b, k)
           n == Len(a) + Len(b) + 1
<1>1. /\ a \o b \in Seq(Nat) /\ Len(a \o b) = Len(a) + Len(b)
      /\ Append(b, k) \in Seq(Nat) /\ Len(Append(b, k)) = Len(b) + 1
      /\ Len(a) \in Nat /\ Len(b) \in Nat
  OBVIOUS
<1>2. leftOf \in Seq(Nat) /\ rightOf \in Seq(Nat) /\ Len(leftOf) = n /\ Len(rightOf) = n
  BY <1>1
<1>3. ASSUME NEW i \in 1 .. n PROVE leftOf[i] = rightOf[i]
  <2>1. CASE i = n
    <3>1. leftOf[i] = k
      BY <1>1, <2>1
    <3>2. rightOf[i] = Append(b, k)[i - Len(a)] /\ i - Len(a) = Len(b) + 1
      BY <1>1, <2>1
    <3> QED
      BY <1>1, <3>1, <3>2
  <2>2. CASE i # n /\ i > Len(a)
    <3>1. i - Len(a) \in 1 .. Len(b) /\ i \in 1 .. Len(a) + Len(b)
      <4>1. Len(a) \in Nat /\ Len(b) \in Nat
        BY <1>1
      <4>2. i \in 1 .. Len(a) + Len(b) + 1 /\ i # Len(a) + Len(b) + 1 /\ i > Len(a)
        BY <2>2
      <4> HIDE DEF leftOf, rightOf, n
      <4> QED
        BY <4>1, <4>2
    <3>2. leftOf[i] = (a \o b)[i] /\ (a \o b)[i] = b[i - Len(a)]
      BY <1>1, <2>2, <3>1
    <3>3. rightOf[i] = Append(b, k)[i - Len(a)] /\ Append(b, k)[i - Len(a)] = b[i - Len(a)]
      BY <1>1, <2>2, <3>1
    <3> QED
      BY <3>2, <3>3
  <2>3. CASE i <= Len(a)
    <3>1. i \in 1 .. Len(a) /\ i \in 1 .. Len(a) + Len(b)
      BY <1>1, <2>3
    <3>2. leftOf[i] = (a \o b)[i] /\ (a \o b)[i] = a[i] /\ rightOf[i] = a[i]
      BY <1>1, <3>1
    <3> QED
      BY <3>2
  <2> QED
    BY <1>1, <2>1, <2>2, <2>3
<1> HIDE DEF leftOf, rightOf, n
<1>4. leftOf = rightOf
  BY <1>2, <1>3
<1> QED
  BY <1>4 DEF leftOf, rightOf

LEMMA StepKeepsOrder ==
    ASSUME QueryInv, OrderInv, Query!Step PROVE OrderInv'
<1> USE DEF Query!AtToken, Query!Token
<1> DEFINE t == query[token]
           a == Flattened(token - 1)
<1>1. UNCHANGED query
  BY DEF Query!Step, Query!RejectToken, Query!SingleFrame, Query!StartRange, Query!RangeFrame,
         Query!LastRangeFrame, Query!Accept
<1>2. \A n : Flattened(n)' = Flattened(n) /\ (WellFormedTo(n)' <=> WellFormedTo(n))
  BY <1>1, SameQuery
<1>3. token - 1 \in Nat /\ token \in Nat
  BY DEF QueryInv
<1>4. CASE Query!RejectToken
  <2>1. /\ query_pc = "tokens" /\ token <= Len(query) /\ UNCHANGED <<frames, token>>
        /\ Query!Complaint(t) # "none" /\ error' = Query!Complaint(t) /\ query_pc' = "rejected"
    BY <1>4 DEF Query!RejectToken
  <2>2. ~ Query!WellFormed(t)
    BY <2>1, ComplaintIsRight
  <2>3. (~ Query!WellFormed(t))' /\ token' <= Len(query')
    BY <1>1, <2>1, <2>2 DEF Query!WellFormed
  <2>4. frames' = Flattened(token - 1)' /\ WellFormedTo(token - 1)'
    BY <1>2, <2>1 DEF OrderInv, Flattened, WellFormedTo, Parts
  <2> QED
    BY <2>1, <2>3, <2>4 DEF OrderInv
<1>5. CASE Query!SingleFrame
  <2>1. /\ query_pc = "tokens" /\ query_pc' = "tokens" /\ token <= Len(query)
        /\ Query!Complaint(t) = "none" /\ Len(t) = 1
        /\ frames' = Append(frames, t[1]) /\ token' = token + 1 /\ error' = error
    BY <1>5 DEF Query!SingleFrame
  <2>2. Query!WellFormed(t) /\ token \in 1 .. Len(query)
    BY <2>1, <1>3, ComplaintIsRight DEF QueryInv
  <2>3. Query!Denoted(t) = <<t[1]>> /\ t[1] \in Nat
    <3>1. Query!Denoted(t) = <<t[1]>> /\ Query!Denoted(t) \in Seq(Nat)
      BY <2>1, <2>2, DenotedNumbers
    <3> QED
      BY <3>1
  <2>4. WellFormedTo(token) /\ Flattened(token) = a \o <<t[1]>> /\ a \in Seq(Nat)
    BY <2>1, <2>2, <2>3, TokenDone
  <2>5. frames = a
    BY <2>1 DEF OrderInv
  <2>6. frames' = Flattened(token)
    <3> HIDE DEF a, t
    <3> QED
      BY <2>1, <2>3, <2>4, <2>5
  <2>7. token' - 1 = token
    BY <2>1, <1>3
  <2>8. frames' = Flattened(token - 1)' /\ WellFormedTo(token - 1)'
    BY <2>4, <2>6, <2>7, <1>1 DEF Flattened, WellFormedTo, Parts
  <2>9. query' # << >> /\ error' = "none"
    BY <1>1, <2>1 DEF OrderInv
  <2> QED
    BY <2>1, <2>8, <2>9 DEF OrderInv
<1>6. CASE Query!StartRange
  <2>1. /\ query_pc = "tokens" /\ query_pc' = "range" /\ token <= Len(query)
        /\ Query!Complaint(t) = "none" /\ Len(t) = 2
        /\ frame' = t[1] /\ UNCHANGED <<frames, token, error>>
    BY <1>6 DEF Query!StartRange
  <2>2. Query!WellFormed(t) /\ token \in 1 .. Len(query)
    BY <2>1, <1>3, ComplaintIsRight DEF QueryInv
  <2>3. a \in Seq(Nat) /\ frames = a /\ t[1] \in Nat
    BY <2>1, <2>2, TokenDone, DenotedNumbers DEF OrderInv
  <2>4. CountedSoFar' = << >>
    BY <1>1, <2>1, <2>3 DEF CountedSoFar
  <2>5. a \o << >> = a
    <3> HIDE DEF a
    <3> QED
      BY <2>3
  <2>6. /\ Flattened(token - 1)' = a /\ WellFormedTo(token - 1)'
    BY <1>1, <2>1 DEF OrderInv, Flattened, WellFormedTo, Parts
  <2>7. frames' = (Flattened(token - 1) \o CountedSoFar)'
    <3> HIDE DEF a
    <3> QED
      BY <2>1, <2>3, <2>4, <2>5, <2>6
  <2>8. Query!WellFormed(query[token])' /\ query' # << >> /\ error' = "none"
    BY <1>1, <2>1, <2>2 DEF OrderInv, Query!WellFormed
  <2> QED
    BY <2>1, <2>6, <2>7, <2>8 DEF OrderInv
<1>7. CASE Query!RangeFrame \/ Query!LastRangeFrame
  <2> DEFINE first == t[1]
             last == t[2]
             So(k) == [i \in 1 .. k |-> first + i - 1]
  <2>1. /\ query_pc = "range" /\ frames' = Append(frames, frame) /\ error' = error
        /\ token <= Len(query) /\ Len(t) = 2 /\ Query!WellFormed(t)
        /\ frame \in first .. last /\ frames = a \o CountedSoFar
        /\ query # << >> /\ error = "none" /\ last \in 0 .. UIntMax
    BY <1>7 DEF Query!RangeFrame, Query!LastRangeFrame, QueryInv, OrderInv
  <2>2. token \in 1 .. Len(query) /\ UIntMax \in Nat
    BY <2>1, <1>3, LocatorAssumption DEF QueryInv
  <2>3. /\ first \in Nat /\ last \in Nat /\ Query!Denoted(t) = So(last - first + 1)
    BY <2>1, <2>2, DenotedNumbers
  <2>4. /\ WellFormedTo(token) /\ Flattened(token) = a \o So(last - first + 1) /\ a \in Seq(Nat)
    BY <2>1, <2>3, TokenDone
  <2>5. CountedSoFar = So(frame - first)
    BY DEF CountedSoFar
  <2>6. frame \in Nat /\ frame - first \in Nat /\ frame - first + 1 \in Nat
        /\ first <= frame /\ frame <= last
    BY <2>1, <2>3
  <2>7. \A k \in Nat : So(k) \in Seq(Nat) /\ Append(So(k), first + k) = So(k + 1)
    <3> SUFFICES ASSUME NEW k \in Nat
                 PROVE  So(k) \in Seq(Nat) /\ Append(So(k), first + k) = So(k + 1)
      OBVIOUS
    <3> HIDE DEF t
    <3>1. \A i \in 1 .. k + 1 : first + i - 1 \in Nat
      BY <2>3
    <3>2. So(k) \in Seq(Nat) /\ Len(So(k)) = k /\ So(k + 1) \in Seq(Nat) /\ Len(So(k + 1)) = k + 1
      <4> DEFINE c(i) == first + i - 1
      <4>1. So(k) = [i \in 1 .. k |-> c(i)] /\ So(k + 1) = [i \in 1 .. k + 1 |-> c(i)]
            /\ (\A i \in 1 .. k + 1 : c(i) \in Nat) /\ k + 1 \in Nat
            /\ \A i \in 1 .. k : i \in 1 .. k + 1
        BY <3>1
      <4> HIDE DEF c, So
      <4> QED
        BY <4>1
    <3>3. \A i \in 1 .. k + 1 : Append(So(k), first + k)[i] = So(k + 1)[i]
      <4> SUFFICES ASSUME NEW i \in 1 .. k + 1
                   PROVE  Append(So(k), first + k)[i] = first + i - 1
        OBVIOUS
      <4> DEFINE b == So(k)
      <4>1. \A j \in 1 .. k : b[j] = first + j - 1
        OBVIOUS
      <4>2. b \in Seq(Nat) /\ Len(b) = k
        BY <3>2
      <4> HIDE DEF b, So
      <4>3. CASE i = k + 1
        <5>1. Append(b, first + k)[i] = first + k
          BY <4>2, <4>3
        <5>2. first + i - 1 = first + k
          BY <4>3, <2>3
        <5> QED
          BY <5>1, <5>2, Zenon DEF b
      <4>4. CASE i # k + 1
        <5>1. i \in 1 .. k
          BY <4>4
        <5>2. Append(b, first + k)[i] = b[i]
          BY <4>2, <5>1
        <5> QED
          BY <5>1, <5>2, <4>1 DEF b
      <4> QED
        BY <4>3, <4>4
    <3>4. Append(So(k), first + k) \in Seq(Nat) /\ Len(Append(So(k), first + k)) = k + 1
      BY <3>2, <2>3
    <3> HIDE DEF So
    <3> QED
      BY <3>2, <3>3, <3>4
  <2>8. frames' = a \o So(frame - first + 1)
    <3>1. first + (frame - first) = frame
      BY <2>3, <2>6
    <3>2. Append(So(frame - first), frame) = So(frame - first + 1) /\ So(frame - first) \in Seq(Nat)
      BY <2>6, <2>7, <3>1
    <3> DEFINE b == So(frame - first)
    <3>3. b \in Seq(Nat) /\ frames = a \o b /\ frames' = Append(frames, frame)
      BY <2>1, <2>5, <3>2
    <3> HIDE DEF a, b, So
    <3>4. Append(a \o b, frame) = a \o Append(b, frame)
      BY <2>4, <2>6, <3>3, AppendBehind
    <3> QED
      BY <3>2, <3>3, <3>4 DEF b
  <2>9. CASE Query!RangeFrame
    <3>1. ~ Query!RangeEnds /\ frame' = Query!Incremented /\ UNCHANGED <<query_pc, token>>
      BY <2>9 DEF Query!RangeFrame
    <3>2. frame' = frame + 1
      BY <2>1, <2>6, <3>1, RangeCounter
    <3>3. CountedSoFar' = So(frame - first + 1)
      <4>1. frame' - first = frame - first + 1
        BY <2>3, <2>6, <3>2
      <4>2. CountedSoFar' = So(frame' - first)
        BY <1>1, <3>1 DEF CountedSoFar
      <4> QED
        BY <4>1, <4>2
    <3>4. Flattened(token - 1)' = a /\ WellFormedTo(token - 1)'
      BY <1>1, <3>1 DEF OrderInv, Flattened, WellFormedTo, Parts
    <3>5. frames' = (Flattened(token - 1) \o CountedSoFar)'
      BY <2>8, <3>3, <3>4, Zenon
    <3>6. Query!WellFormed(query[token])' /\ query' # << >> /\ error' = "none"
      BY <1>1, <2>1, <3>1 DEF Query!WellFormed
    <3> QED
      BY <2>1, <3>1, <3>4, <3>5, <3>6 DEF OrderInv
  <2>10. CASE Query!LastRangeFrame
    <3>1. Query!RangeEnds /\ token' = token + 1 /\ query_pc' = "tokens"
      BY <2>10 DEF Query!LastRangeFrame
    <3>2. frame = last
      BY <2>1, <2>6, <3>1, RangeCounter
    <3>3. frames' = Flattened(token)
      BY <2>4, <2>8, <3>2, Zenon
    <3>4. token' - 1 = token
      BY <3>1, <1>3
    <3>5. frames' = Flattened(token - 1)' /\ WellFormedTo(token - 1)'
      BY <2>4, <3>3, <3>4, <1>1 DEF Flattened, WellFormedTo, Parts
    <3> QED
      BY <1>1, <2>1, <3>1, <3>5 DEF OrderInv
  <2> QED
    BY <1>7, <2>9, <2>10
<1>8. CASE Query!Accept
  <2>1. /\ query_pc = "tokens" /\ query_pc' = "accepted" /\ UNCHANGED <<frames, token, error>>
    BY <1>8 DEF Query!Accept
  <2>2. frames' = Flattened(token - 1)' /\ WellFormedTo(token - 1)'
    BY <1>1, <2>1 DEF OrderInv, Flattened, WellFormedTo, Parts
  <2> QED
    BY <1>1, <2>1, <2>2 DEF OrderInv
<1> QED
  BY <1>4, <1>5, <1>6, <1>7, <1>8 DEF Query!Step

LEMMA OrderKept ==
    ASSUME QueryInv, OrderInv, [ProgramNext]_programVars PROVE OrderInv'
<1>1. CASE ParseQuery
  BY <1>1, CallKeepsOrder DEF ParseQuery
<1>2. CASE ParseStep
  BY <1>2, StepKeepsOrder DEF ParseStep
<1>3. CASE ~ ParseQuery /\ ~ ParseStep
  <2>1. UNCHANGED queryVars
    BY <1>3, Zenon DEF ProgramNext, programVars, WrongArguments, QueryRejected, OpenFile, OpenStep,
       OpenFailed, EnterLoop, SearchFrame, SearchStep, PrintResult, Return
  <2>2. UNCHANGED <<query, frames, error, query_pc, token, frame>>
    BY <2>1 DEF queryVars
  <2>3. /\ Flattened(token - 1)' = Flattened(token - 1)
        /\ WellFormedTo(token - 1)' <=> WellFormedTo(token - 1)
        /\ CountedSoFar' = CountedSoFar
        /\ Query!WellFormed(query[token])' <=> Query!WellFormed(query[token])
    BY <2>2 DEF Flattened, Parts, WellFormedTo, CountedSoFar, Query!WellFormed
  <2> QED
    BY <2>2, <2>3, Zenon DEF OrderInv
<1> QED
  BY <1>1, <1>2, <1>3

(* A query is expanded in full and in order, and rejected exactly if a     *)
(* token of it is not well-formed, for every query and every width of the  *)
(* numbers.                                                                *)
THEOREM QueriesExpandInOrder == ProgramSpec => []QueryExpands
<1>1. ProgramInit => QueryInv /\ OrderInv
  BY QueryStarts, OrderStarts
<1>2. QueryInv /\ OrderInv /\ [ProgramNext]_programVars => (QueryInv /\ OrderInv)'
  BY QueryInvKept, OrderKept
<1>3. QueryInv /\ OrderInv => QueryExpands
  BY OrderInvSuffices DEF QueryExpands
<1> QED
  BY <1>1, <1>2, <1>3, PTL DEF ProgramSpec

-----------------------------------------------------------------------------
(* The frames a query may ask for. *)

(* Every number stored fits, and no query without tokens gets past the     *)
(* first test, nor a token without its frames.                             *)
AskedInv ==
    /\ frames \in Seq(0 .. UIntMax)
    /\ query_pc \in {"tokens", "range", "accepted"} => query # << >>
    /\ token # 1 => frames # << >>

(* Storing one more number keeps it so. *)
LEMMA AskedGrows ==
    ASSUME AskedInv, query # << >>, NEW n \in 0 .. UIntMax,
           frames' = Append(frames, n), query' = query
    PROVE  AskedInv'
<1>1. frames' \in Seq(0 .. UIntMax) /\ Len(frames') = Len(frames) + 1 /\ Len(frames) \in Nat
  BY DEF AskedInv
<1>2. frames' # << >>
  BY <1>1
<1> QED
  BY <1>1, <1>2 DEF AskedInv

LEMMA AskedKept ==
    ASSUME QueryInv, AskedInv, [ProgramNext]_programVars PROVE AskedInv'
<1>1. CASE ParseQuery
  <2>1. PICK q \in Queries : Query!Call(q)
    BY <1>1 DEF ParseQuery
  <2>2. /\ query' = q /\ frames' = << >> /\ token' = 1
        /\ q = << >> => query_pc' = "rejected"
    BY <2>1 DEF Query!Call
  <2> QED
    BY <2>2 DEF AskedInv
<1>2. CASE ParseStep
  <2>1. Query!Step
    BY <1>2 DEF ParseStep
  <2> USE DEF Query!AtToken, Query!Token
  <2>2. CASE Query!RejectToken \/ Query!StartRange \/ Query!Accept
    BY <2>2 DEF Query!RejectToken, Query!StartRange, Query!Accept, AskedInv
  <2>3. CASE Query!SingleFrame
    <3>1. /\ query_pc = "tokens" /\ token <= Len(query) /\ query' = query
          /\ Query!Complaint(query[token]) = "none" /\ Len(query[token]) = 1
          /\ frames' = Append(frames, query[token][1])
      BY <2>3 DEF Query!SingleFrame
    <3>2. query[token][1] \in 0 .. UIntMax
      BY <3>1, WellFormedToken
    <3> QED
      BY <3>1, <3>2, AskedGrows DEF AskedInv
  <2>4. CASE Query!RangeFrame \/ Query!LastRangeFrame
    <3>1. /\ query_pc = "range" /\ frames' = Append(frames, frame) /\ query' = query
          /\ query[token][1] \in Nat /\ query[token][2] \in 0 .. UIntMax
          /\ frame \in query[token][1] .. query[token][2]
      BY <2>4 DEF Query!RangeFrame, Query!LastRangeFrame, QueryInv
    <3>2. frame \in 0 .. UIntMax
      BY <3>1, LocatorAssumption
    <3> QED
      BY <3>1, <3>2, AskedGrows DEF AskedInv
  <2> QED
    BY <2>1, <2>2, <2>3, <2>4 DEF Query!Step
<1>3. CASE ~ ParseQuery /\ ~ ParseStep
  <2>1. UNCHANGED queryVars
    BY <1>3, Zenon DEF ProgramNext, programVars, WrongArguments, QueryRejected, OpenFile, OpenStep,
       OpenFailed, EnterLoop, SearchFrame, SearchStep, PrintResult, Return
  <2> QED
    BY <2>1 DEF queryVars, AskedInv
<1> QED
  BY <1>1, <1>2, <1>3

-----------------------------------------------------------------------------
(* main. *)

(* The lines printed. *)
Lines == [frame : Nat, matches : Seq(Matches)]

(* Nothing is printed before the loop; in the loop, one line per frame     *)
(* that came before, and the exit code remembers the frames not found.     *)
MainInv ==
    /\ stage \in {"start", "parse", "open", "loop", "search", "ended"}
    /\ output \in Seq(Lines)
    /\ stage \in {"start", "parse", "open"} =>
          output = << >> /\ at = 1 /\ exit_code = EXIT_SUCCESS
    /\ stage = "start" => query_pc = "idle"
    /\ stage \in {"open", "loop", "search"} => query_pc = "accepted"
    /\ stage \in {"loop", "search"} =>
          /\ at = Len(output) + 1 /\ Len(output) <= Len(frames)
          /\ exit_code = EXIT_SUCCESS <=> \A i \in 1 .. Len(output) : output[i].matches # << >>
    /\ stage = "search" => at <= Len(frames) /\ target = frames[at] /\ pc # "idle"

LEMMA MainStarts == ProgramInit => MainInv
  BY DEF ProgramInit, Query!Init, MainInv

(* Printing one more line. *)
LEMMA LinePrinted ==
    ASSUME MainInv, NEW t \in Nat, NEW ms \in Seq(Matches),
           output' = Append(output, PrintMatches(t, ms))
    PROVE  /\ output' \in Seq(Lines) /\ Len(output') = Len(output) + 1 /\ Len(output) \in Nat
           /\ output'[Len(output) + 1] = PrintMatches(t, ms)
           /\ \A i \in 1 .. Len(output) : output'[i] = output[i]
<1>1. PrintMatches(t, ms) \in Lines
  BY DEF PrintMatches, Lines
<1> HIDE DEF Lines
<1> QED
  BY <1>1 DEF MainInv

(* The search keeps the question and does not forget that it was asked. *)
LEMMA SearchStepKeeps ==
    ASSUME Step PROVE UNCHANGED <<file, target>> /\ pc' # "idle"
  BY DEF Step, ProbeHit, ProbeRight, ProbeLeft, GiveUp, LinearHit, LinearStep, LinearMiss, Found,
         Probing, Scanning

LEMMA MainKept ==
    ASSUME QueryInv, AskedInv, MainInv, SearchInv, [ProgramNext]_programVars PROVE MainInv'
<1> USE DEF EXIT_SUCCESS, EXIT_FAILURE
<1>1. CASE WrongArguments \/ QueryRejected \/ OpenFailed
  BY <1>1 DEF WrongArguments, QueryRejected, OpenFailed, MainInv
<1>2. CASE ParseQuery
  BY <1>2 DEF ParseQuery, MainInv
<1>3. CASE ParseStep
  BY <1>3 DEF ParseStep, MainInv, mainVars
<1>4. CASE OpenFile \/ OpenStep
  BY <1>4 DEF OpenFile, OpenStep, MainInv, mainVars, queryVars
<1>5. CASE EnterLoop
  <2>1. stage' = "loop" /\ UNCHANGED <<query_pc, frames, at, output, exit_code>> /\ stage = "open"
    BY <1>5 DEF EnterLoop, queryVars
  <2>2. output = << >> /\ Len(frames) \in Nat
    BY <2>1 DEF MainInv, QueryInv
  <2> QED
    BY <2>1, <2>2 DEF MainInv
<1>6. CASE SearchFrame
  <2>1. /\ stage = "loop" /\ stage' = "search" /\ at <= Len(frames)
        /\ UNCHANGED <<query_pc, frames, at, output, exit_code>>
    BY <1>6 DEF SearchFrame, queryVars
  <2>2. target' = frames[at] /\ pc' # "idle"
    BY <1>6 DEF SearchFrame, Call, CallRejected
  <2> QED
    BY <2>1, <2>2 DEF MainInv
<1>7. CASE SearchStep
  <2>1. Step /\ UNCHANGED <<query_pc, frames, stage, at, output, exit_code>>
    BY <1>7 DEF SearchStep, queryVars, mainVars
  <2>2. target' = target /\ pc' # "idle"
    BY <2>1, SearchStepKeeps
  <2> QED
    BY <2>1, <2>2 DEF MainInv
<1>8. CASE PrintResult
  <2>1. /\ stage = "search" /\ stage' = "loop" /\ at' = at + 1
        /\ output' = Append(output, PrintMatches(target, out))
        /\ exit_code' = IF out = << >> THEN 1 ELSE exit_code
        /\ UNCHANGED <<query_pc, frames>>
    BY <1>8 DEF PrintResult, queryVars
  <2>2. target \in Nat /\ out \in Seq(Matches)
    BY LocatorAssumption DEF SearchInv, TypeOK
  <2>3. /\ output' \in Seq(Lines) /\ Len(output') = Len(output) + 1 /\ Len(output) \in Nat
        /\ output'[Len(output) + 1] = PrintMatches(target, out)
        /\ \A i \in 1 .. Len(output) : output'[i] = output[i]
    BY <2>1, <2>2, LinePrinted
  <2>4. /\ at = Len(output) + 1 /\ at <= Len(frames) /\ Len(frames) \in Nat
        /\ query_pc = "accepted"
        /\ exit_code = 0 <=> \A i \in 1 .. Len(output) : output[i].matches # << >>
    BY <2>1 DEF MainInv, QueryInv
  <2>5. output'[Len(output) + 1].matches = out
    BY <2>3 DEF PrintMatches
  <2>6. exit_code' = 0 <=> \A i \in 1 .. Len(output') : output'[i].matches # << >>
    <3>1. (\A i \in 1 .. Len(output') : output'[i].matches # << >>)
          <=> (\A i \in 1 .. Len(output) : output[i].matches # << >>) /\ out # << >>
      BY <2>3, <2>5
    <3> QED
      BY <2>1, <2>4, <3>1
  <2>7. at' = Len(output') + 1 /\ Len(output') <= Len(frames')
    BY <2>1, <2>3, <2>4
  <2> QED
    BY <2>1, <2>3, <2>4, <2>6, <2>7 DEF MainInv
<1>9. CASE Return
  BY <1>9 DEF Return, MainInv
<1>10. CASE UNCHANGED programVars
  BY <1>10 DEF programVars, vars, queryVars, mainVars, MainInv
<1> QED
  BY <1>1, <1>2, <1>3, <1>4, <1>5, <1>6, <1>7, <1>8, <1>9, <1>10 DEF ProgramNext

-----------------------------------------------------------------------------
(* The program reports what the index looks up. *)

(* The searches of main are calls and steps of LocateFrame.                *)
LEMMA ProgramSearches ==
    ASSUME QueryInv, AskedInv, MainInv, [ProgramNext]_programVars PROVE [Next]_vars
<1>1. CASE SearchFrame
  <2>1. frames[at] \in Targets
    <3>1. at \in 1 .. Len(frames)
      BY <1>1 DEF SearchFrame, MainInv
    <3>2. frames[at] \in 0 .. UIntMax
      <4>1. frames \in Seq(0 .. UIntMax)
        BY DEF AskedInv
      <4> QED
        BY <3>1, <4>1, ElementOfSeq
    <3>3. Targets = 0 .. UIntMax
      BY ProgramAssumption, Zenon
    <3> QED
      BY <3>2, <3>3
  <2>2. Call(frames[at]) \/ CallRejected(frames[at])
    BY <1>1 DEF SearchFrame
  <2> QED
    BY <2>1, <2>2, Zenon DEF Next
<1>2. CASE SearchStep
  BY <1>2 DEF SearchStep, Next
<1>3. CASE ~ SearchFrame /\ ~ SearchStep
  BY <1>3, Zenon DEF ProgramNext, programVars, WrongArguments, ParseQuery, ParseStep,
     QueryRejected, OpenFile, OpenStep, OpenFailed, EnterLoop, PrintResult, Return
<1> QED
  BY <1>1, <1>2, <1>3

(* What is printed is reported, line by line. *)
LEMMA ReportedLines ==
    ASSUME MainInv
    PROVE  /\ Len(Reported) = Len(output) /\ Len(output) \in Nat
           /\ \A i \in 1 .. Len(output) :
                 /\ Reported[i].places = << >> <=> output[i].matches = << >>
                 /\ Reported[i] = [frame  |-> output[i].frame,
                                   places |-> PlacesFound(output[i].matches)]
<1>1. Len(output) \in Nat /\ \A i \in 1 .. Len(output) : output[i].matches \in Seq(Matches)
  <2>1. Len(output) \in Nat /\ \A i \in 1 .. Len(output) : output[i] \in Lines
    <3> HIDE DEF Lines
    <3> QED
      BY DEF MainInv
  <2> QED
    BY <2>1 DEF Lines
<1>2. ASSUME NEW i \in 1 .. Len(output)
      PROVE  Reported[i] = [frame  |-> output[i].frame,
                            places |-> PlacesFound(output[i].matches)]
  BY DEF Reported, PlacesFound
<1>3. ASSUME NEW ms \in Seq(Matches) PROVE PlacesFound(ms) = << >> <=> ms = << >>
  BY DEF PlacesFound
<1>4. Len(Reported) = Len(output)
  BY <1>1 DEF Reported
<1> QED
  BY <1>1, <1>2, <1>3, <1>4

(* A sequence is the function of its elements. *)
LEMMA SequenceIsFunction ==
    ASSUME NEW S, NEW s \in Seq(S)
    PROVE  s = [i \in 1 .. Len(s) |-> s[i]]
OBVIOUS

(* One more line, one more answer. *)
LEMMA ReportGrows ==
    ASSUME MainInv, MainInv', NEW t \in Nat, NEW ms \in Seq(Matches),
           output' = Append(output, PrintMatches(t, ms))
    PROVE  Reported' = Append(Reported, [frame |-> t, places |-> PlacesFound(ms)])
<1> DEFINE n == Len(output)
           e == [frame |-> t, places |-> PlacesFound(ms)]
           Line(line) == [frame |-> line.frame, places |-> PlacesFound(line.matches)]
<1>1. /\ Len(output') = n + 1 /\ n \in Nat
      /\ output'[n + 1] = PrintMatches(t, ms)
      /\ \A i \in 1 .. n : output'[i] = output[i]
  BY LinePrinted
<1>2. Reported = [i \in 1 .. n |-> Line(output[i])]
  BY DEF Reported, PlacesFound
<1>3. Reported' = [i \in 1 .. n + 1 |-> Line(output'[i])]
  BY <1>1 DEF Reported, PlacesFound
<1>4. Line(output'[n + 1]) = e
  BY <1>1 DEF PrintMatches
<1>5. \A i \in 1 .. n : Line(output'[i]) = Line(output[i])
  BY <1>1
<1> HIDE DEF e, Line, n
<1>6. Append([i \in 1 .. n |-> Line(output[i])], e) = [i \in 1 .. n + 1 |-> Line(output'[i])]
  <2> DEFINE s == [i \in 1 .. n |-> Line(output[i])]
             S == {Line(output[i]) : i \in 1 .. n} \cup {e}
  <2>1. s \in [1 .. n -> S] /\ e \in S
    OBVIOUS
  <2>2. Append(s, e) = [i \in 1 .. n + 1 |-> IF i <= n THEN s[i] ELSE e]
    <3> HIDE DEF s, S
    <3>1. s \in Seq(S) /\ Len(s) = n
      BY <1>1, <2>1
    <3>2. /\ Append(s, e) \in Seq(S) /\ Len(Append(s, e)) = n + 1
          /\ \A i \in 1 .. n : Append(s, e)[i] = s[i]
          /\ Append(s, e)[n + 1] = e
      BY <2>1, <3>1, AppendProperties
    <3>3. Append(s, e) = [i \in 1 .. n + 1 |-> Append(s, e)[i]]
      BY <3>2, SequenceIsFunction
    <3>4. ASSUME NEW i \in 1 .. n + 1
          PROVE  Append(s, e)[i] = IF i <= n THEN s[i] ELSE e
      BY <1>1, <3>2
    <3> QED
      BY <3>3, <3>4
  <2>3. ASSUME NEW i \in 1 .. n + 1
        PROVE  (IF i <= n THEN s[i] ELSE e) = Line(output'[i])
    BY <1>1, <1>4, <1>5
  <2> HIDE DEF s
  <2> QED
    BY <2>2, <2>3 DEF s
<1> QED
  BY <1>2, <1>3, <1>6 DEF e

(* Where nothing is printed, asked or ended, the report does not change.   *)
LEMMA ReportStutters ==
    ASSUME UNCHANGED <<file, output>>,
           UNCHANGED <<frames, query_pc>> \/ (query_pc # "accepted" /\ query_pc' # "accepted"),
           stage # "ended", stage' # "ended"
    PROVE  UNCHANGED Report!reportVars
<1>1. VideoFrames(file)' = VideoFrames(file) /\ Reported' = Reported
  BY DEF Reported
<1> QED
  BY <1>1 DEF Report!reportVars

LEMMA StepIsReportStep ==
    ASSUME AllIndexed, QueryInv, AskedInv, MainInv, MainInv', SearchInv, AnswerInv,
           [ProgramNext]_programVars
    PROVE  [Report!Next]_Report!reportVars
<1> USE DEF EXIT_SUCCESS, EXIT_FAILURE
<1>1. CASE WrongArguments \/ QueryRejected \/ OpenFailed
  <2>1. /\ UNCHANGED <<file, output, frames, query_pc>>
        /\ stage \in {"start", "parse", "open"} /\ stage' = "ended" /\ exit_code' = 1
    BY <1>1 DEF WrongArguments, QueryRejected, OpenFailed, vars, queryVars
  <2>2. output = << >>
    BY <2>1 DEF MainInv
  <2>3. VideoFrames(file)' = VideoFrames(file) /\ Reported' = Reported /\ Reported = << >>
    BY <2>1, <2>2 DEF Reported
  <2>4. Report!GiveUp
    BY <2>1, <2>3 DEF Report!GiveUp
  <2> QED
    BY <2>4 DEF Report!Next
<1>2. CASE ParseQuery
  <2>1. /\ UNCHANGED <<file, output>> /\ stage = "start" /\ stage' = "parse"
        /\ query_pc' \in {"rejected", "tokens"}
    BY <1>2 DEF ParseQuery, Query!Call, vars
  <2>2. query_pc = "idle"
    BY <2>1 DEF MainInv
  <2> QED
    BY <2>1, <2>2, ReportStutters
<1>3. CASE ParseStep
  <2>1. UNCHANGED <<file, output>> /\ stage = "parse" /\ stage' = "parse" /\ Query!Step
    BY <1>3 DEF ParseStep, vars, mainVars
  <2>2. CASE Query!Accept
    <3>1. /\ query_pc = "tokens" /\ query_pc' = "accepted" /\ frames' = frames
          /\ token > Len(query)
      BY <2>2 DEF Query!Accept
    <3>2. frames \in Seq(Nat) \ {<< >>}
      <4>1. token # 1
        BY <3>1 DEF AskedInv, QueryInv
      <4> QED
        BY <4>1 DEF AskedInv, QueryInv
    <3>3. VideoFrames(file)' = VideoFrames(file) /\ Reported' = Reported
      BY <2>1 DEF Reported
    <3>4. Report!Understand
      BY <2>1, <3>1, <3>2, <3>3 DEF Report!Understand
    <3> QED
      BY <3>4 DEF Report!Next
  <2>3. CASE ~ Query!Accept
    <3>1. query_pc # "accepted" /\ query_pc' # "accepted"
      BY <2>1, <2>3 DEF Query!Step, Query!RejectToken, Query!SingleFrame, Query!StartRange,
           Query!RangeFrame, Query!LastRangeFrame, Query!AtToken
    <3> QED
      BY <2>1, <3>1, ReportStutters
  <2> QED
    BY <2>2, <2>3
<1>4. CASE OpenFile \/ OpenStep \/ EnterLoop \/ SearchFrame \/ SearchStep
  <2>1. UNCHANGED <<output, frames, query_pc>> /\ stage # "ended" /\ stage' # "ended"
    BY <1>4 DEF OpenFile, OpenStep, EnterLoop, SearchFrame, SearchStep, queryVars, mainVars
  <2>2. UNCHANGED file
    BY <1>4, SearchKeepsFile DEF OpenFile, OpenStep, EnterLoop, SearchFrame, SearchStep, vars
  <2> QED
    BY <2>1, <2>2, ReportStutters
<1>5. CASE PrintResult
  <2>1. /\ stage = "search" /\ stage' = "loop" /\ pc = "done"
        /\ output' = Append(output, PrintMatches(target, out))
        /\ UNCHANGED <<query_pc, frames, file>>
    BY <1>5 DEF PrintResult, vars, queryVars
  <2>2. target \in Nat /\ out \in Seq(Matches)
    BY LocatorAssumption DEF SearchInv, TypeOK
  <2>3. PlacesFound(out) = Index!Lookup(VideoFrames(file), target)
    BY <2>1 DEF AnswerInv
  <2>4. Reported' = Append(Reported, [frame  |-> target,
                                      places |-> Index!Lookup(VideoFrames(file), target)])
    BY <2>1, <2>2, <2>3, ReportGrows
  <2>5. /\ Len(Reported) = Len(output) /\ Len(output) < Len(frames) /\ query_pc = "accepted"
        /\ target = frames[Len(Reported) + 1]
    BY <2>1, ReportedLines DEF MainInv, QueryInv
  <2>6. VideoFrames(file)' = VideoFrames(file)
    BY <2>1
  <2>7. Report!AnswerNext
    BY <2>1, <2>4, <2>5, <2>6 DEF Report!AnswerNext
  <2> QED
    BY <2>7 DEF Report!Next
<1>6. CASE Return
  <2>1. /\ stage = "loop" /\ stage' = "ended" /\ at > Len(frames)
        /\ UNCHANGED <<file, output, exit_code, frames, query_pc>>
    BY <1>6 DEF Return, vars, queryVars
  <2>2. /\ Len(output) = Len(frames) /\ query_pc = "accepted"
        /\ exit_code = 0 <=> \A i \in 1 .. Len(output) : output[i].matches # << >>
    BY <2>1 DEF MainInv, QueryInv
  <2>3. frames # << >>
    BY <2>2 DEF QueryInv, AskedInv
  <2>4. /\ Len(Reported) = Len(frames)
        /\ exit_code = 0 <=> \A i \in 1 .. Len(Reported) : Reported[i].places # << >>
    BY <2>2, ReportedLines
  <2>5. VideoFrames(file)' = VideoFrames(file) /\ Reported' = Reported
    BY <2>1 DEF Reported
  <2>6. Report!Finish
    BY <2>1, <2>2, <2>3, <2>4, <2>5 DEF Report!Finish
  <2> QED
    BY <2>6 DEF Report!Next
<1>7. CASE UNCHANGED programVars
  <2>1. UNCHANGED <<file, output, frames, query_pc, stage, exit_code>>
    BY <1>7 DEF programVars, vars, queryVars, mainVars
  <2>2. VideoFrames(file)' = VideoFrames(file) /\ Reported' = Reported
    BY <2>1 DEF Reported
  <2> QED
    BY <2>1, <2>2 DEF Report!reportVars
<1> QED
  BY <1>1, <1>2, <1>3, <1>4, <1>5, <1>6, <1>7 DEF ProgramNext

(* The steps of main map to steps of the report, whatever the query, the   *)
(* system calls and the windows: for recordings that can be searched like  *)
(* an index, main prints for each frame of an accepted query, in order,    *)
(* the blocks the index looks up, nothing before the query is understood   *)
(* and the file mapped, and succeeds exactly if each frame was found.      *)
THEOREM ReportsAreAnswers ==
    ASSUME AllIndexed
    PROVE  ProgramSpec => ImplementsReport
<1> DEFINE Inv == QueryInv /\ AskedInv /\ MainInv /\ SearchInv /\ CursorInv /\ AnswerInv
<1>1. ProgramInit => Inv
  <2> SUFFICES ASSUME ProgramInit PROVE Inv
    OBVIOUS
  <2>1. QueryInv /\ MainInv
    BY QueryStarts, MainStarts
  <2>2. AskedInv
    BY DEF ProgramInit, Query!Init, AskedInv
  <2>3. SearchInv
    BY SearchInvInit DEF ProgramInit
  <2>4. CursorInv /\ AnswerInv
    BY DEF ProgramInit, Init, CursorInv, AnswerInv
  <2> QED
    BY <2>1, <2>2, <2>3, <2>4
<1>2. Inv /\ [ProgramNext]_programVars => Inv'
  <2> SUFFICES ASSUME Inv, [ProgramNext]_programVars PROVE Inv'
    OBVIOUS
  <2>1. QueryInv' /\ AskedInv' /\ MainInv'
    BY QueryInvKept, AskedKept, MainKept
  <2>2. [Next]_vars
    BY ProgramSearches
  <2>3. SearchInv' /\ CursorInv' /\ AnswerInv'
    BY <2>2, SearchInvNext, CursorInvNext, AnswerInvNext
  <2> QED
    BY <2>1, <2>3
<1>3. ProgramInit => Report!Init
  <2> SUFFICES ASSUME ProgramInit PROVE Report!Init
    OBVIOUS
  <2>1. file \in Files /\ options \in Options /\ output = << >> /\ stage = "start"
        /\ query_pc = "idle"
    BY DEF ProgramInit, Init, Query!Init
  <2>2. VideoFrames(file) \subseteq [frame : Nat, at : Nat]
    BY <2>1, IsRecording DEF AllIndexed
  <2>3. Reported = << >>
    BY <2>1 DEF Reported
  <2> QED
    BY <2>1, <2>2, <2>3 DEF Report!Init
<1>4. Inv /\ Inv' /\ [ProgramNext]_programVars => [Report!Next]_Report!reportVars
  BY StepIsReportStep
<1> HIDE DEF Inv
<1> QED
  BY <1>1, <1>2, <1>3, <1>4, PTL DEF ProgramSpec, ImplementsReport, Report!Spec
=============================================================================
