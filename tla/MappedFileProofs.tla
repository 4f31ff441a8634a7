-------------------------- MODULE MappedFileProofs --------------------------
(***************************************************************************)
(* What MappedFileWin32 guarantees however many handles the process has,   *)
(* whatever else it does with them, and whichever system calls fail.       *)
(***************************************************************************)
EXTENDS MappedFileWin32, TLAPS

(* What the object, or the Open at hand, has open. *)
OwnFiles ==
    CASE pc \in {"idle", "destroyed"} -> {file_handle_} \ {INVALID_HANDLE_VALUE}
      [] pc = "CreateFile" -> {}
      [] OTHER -> {file}

OwnMappings ==
    CASE pc \in {"idle", "destroyed"} -> {mapping_handle_} \ {NULL}
      [] pc = "MapViewOfFile" -> {mapping}
      [] OTHER -> {}

InOpen == {"CreateFile", "GetFileSize", "CreateFileMapping", "MapViewOfFile"}

(* The inductive invariant: at every step the system's tables hold what    *)
(* the object and the locals of Open say, and nothing else of this object. *)
Accounted ==
    /\ HandlesFor("file") = OwnFiles
    /\ HandlesFor("mapping") = OwnMappings
    /\ DOMAIN views = {data_} \ {NULL}

Shapes ==
    /\ pc \in InOpen \cup {"idle", "destroyed"}
    /\ DOMAIN openHandles \subseteq Handles
    /\ DOMAIN views \subseteq Addresses
    /\ pc \in {"CreateFileMapping", "MapViewOfFile"} => file_size \in Sizes \ {0}

MappingInv == Shapes /\ Accounted /\ AllOrNothing /\ OpenFileIsTheLastOne

-----------------------------------------------------------------------------
(* Closing handles takes them away, whatever they were for. *)
LEMMA AfterClosing ==
    ASSUME NEW S, openHandles' = ClosedHandles(S), NEW p
    PROVE  HandlesFor(p)' = HandlesFor(p) \ S
  BY DEF ClosedHandles, HandlesFor

(* Opening a handle adds it to those for its purpose. *)
LEMMA AfterOpening ==
    ASSUME NEW h, h \notin DOMAIN openHandles, NEW p, openHandles' = Opened(h, p), NEW q
    PROVE  HandlesFor(q)' = IF q = p THEN HandlesFor(q) \cup {h} ELSE HandlesFor(q)
  BY DEF Opened, HandlesFor

(* A handle is for one purpose only. *)
LEMMA PurposesAreDisjoint ==
    ASSUME NEW p, NEW q, p # q PROVE HandlesFor(p) \cap HandlesFor(q) = {}
  BY DEF HandlesFor

(* Close gives back the view and both handles, and closes nothing else.    *)
LEMMA CloseGivesAllBack ==
    ASSUME MappingInv, pc \in {"idle", "destroyed"}, CloseAll
    PROVE  /\ HandlesFor("file")' = {} /\ HandlesFor("mapping")' = {}
           /\ HandlesFor("others")' = HandlesFor("others")
           /\ DOMAIN openHandles' \subseteq DOMAIN openHandles
           /\ DOMAIN views' = {}
           /\ data_' = NULL /\ size_' = 0 /\ mapping_handle_' = NULL
           /\ file_handle_' = INVALID_HANDLE_VALUE
<1>1. /\ HandlesFor("file") = {file_handle_} \ {INVALID_HANDLE_VALUE}
      /\ HandlesFor("mapping") = {mapping_handle_} \ {NULL}
      /\ DOMAIN views = {data_} \ {NULL}
  BY Zenon DEF MappingInv, Accounted, OwnFiles, OwnMappings
<1>2. /\ openHandles' = ClosedHandles(HandlesFor("mapping") \cup HandlesFor("file"))
      /\ views' = UnmappedViews(DOMAIN views)
  BY <1>1, Zenon DEF CloseAll
<1>3. \A p : HandlesFor(p)' = HandlesFor(p) \ (HandlesFor("mapping") \cup HandlesFor("file"))
  BY <1>2, AfterClosing, Zenon
<1>4. HandlesFor("others") \cap (HandlesFor("mapping") \cup HandlesFor("file")) = {}
  BY PurposesAreDisjoint
<1>5. DOMAIN openHandles' \subseteq DOMAIN openHandles /\ DOMAIN views' = {}
  BY <1>2 DEF ClosedHandles, UnmappedViews
<1> QED
  BY <1>3, <1>4, <1>5 DEF CloseAll

(* Init establishes the invariant. *)
LEMMA MappingStarts == Init => MappingInv
  BY DEF Init, MappingInv, Shapes, Accounted, AllOrNothing, OpenFileIsTheLastOne,
         HandlesFor, OwnFiles, OwnMappings, InOpen

(* Open up to the call it makes next: the object itself is empty. *)
LEMMA NothingIsOpen ==
    ASSUME MappingInv, pc \in InOpen
    PROVE  /\ data_ = NULL /\ size_ = 0 /\ mapping_handle_ = NULL
           /\ file_handle_ = INVALID_HANDLE_VALUE
           /\ DOMAIN views = {}
  BY DEF MappingInv, Accounted, AllOrNothing, OpenFileIsTheLastOne, InOpen

(* What a step of Open that leaves the object empty has to show. *)
LEMMA StillEmpty ==
    ASSUME MappingInv, pc \in InOpen, UNCHANGED <<object, views>>,
           pc' \in InOpen \cup {"idle"},
           DOMAIN openHandles' \subseteq Handles,
           pc' \in {"CreateFileMapping", "MapViewOfFile"} => file_size' \in Sizes \ {0},
           HandlesFor("file")' = IF pc' \in {"idle", "CreateFile"} THEN {} ELSE {file'},
           HandlesFor("mapping")' = IF pc' = "MapViewOfFile" THEN {mapping'} ELSE {}
    PROVE  MappingInv'
<1>1. /\ data_' = NULL /\ size_' = 0 /\ mapping_handle_' = NULL
      /\ file_handle_' = INVALID_HANDLE_VALUE
      /\ DOMAIN views' = {}
  BY NothingIsOpen DEF object
<1>2. AllOrNothing' /\ OpenFileIsTheLastOne'
  BY <1>1 DEF AllOrNothing, OpenFileIsTheLastOne
<1>3. Shapes'
  BY <1>1, Zenon DEF Shapes
<1>4. OwnFiles' = IF pc' \in {"idle", "CreateFile"} THEN {} ELSE {file'}
  BY <1>1 DEF OwnFiles, InOpen
<1>5. OwnMappings' = IF pc' = "MapViewOfFile" THEN {mapping'} ELSE {}
  BY <1>1 DEF OwnMappings, InOpen
<1>6. Accounted'
  BY <1>1, <1>4, <1>5 DEF Accounted
<1> QED
  BY <1>2, <1>3, <1>6, Zenon DEF MappingInv

(* Open, Close and the destructor begin or end by giving all back. *)
LEMMA ClosingKeepsInv ==
    ASSUME MappingInv, OpenCloses \/ Close \/ Destroy
    PROVE  MappingInv' /\ HandlesFor("others")' = HandlesFor("others")
<1>1. CloseAll /\ pc = "idle" /\ pc' \in {"idle", "destroyed", "CreateFile"}
  BY DEF OpenCloses, Close, Destroy
<1>2. /\ HandlesFor("file")' = {} /\ HandlesFor("mapping")' = {}
      /\ HandlesFor("others")' = HandlesFor("others")
      /\ DOMAIN openHandles' \subseteq DOMAIN openHandles
      /\ DOMAIN views' = {}
      /\ data_' = NULL /\ size_' = 0 /\ mapping_handle_' = NULL
      /\ file_handle_' = INVALID_HANDLE_VALUE
  BY <1>1, CloseGivesAllBack
<1>3. AllOrNothing' /\ OpenFileIsTheLastOne'
  BY <1>2 DEF AllOrNothing, OpenFileIsTheLastOne
<1>4. OwnFiles' = {} /\ OwnMappings' = {}
  BY <1>1, <1>2 DEF OwnFiles, OwnMappings
<1>5. Accounted'
  BY <1>2, <1>4 DEF Accounted
<1>6. Shapes'
  BY <1>1, <1>2 DEF Shapes, MappingInv, InOpen
<1> QED
  BY <1>2, <1>3, <1>5, <1>6, Zenon DEF MappingInv

(* A call that fails, or finds the file empty, gives back what Open has    *)
(* acquired so far.                                                        *)
LEMMA FailingKeepsInv ==
    ASSUME MappingInv, pc \in InOpen, pc' = "idle", UNCHANGED <<object, views>>,
           NEW S, S = OwnFiles \cup OwnMappings,
           openHandles' = ClosedHandles(S)
    PROVE  MappingInv' /\ HandlesFor("others")' = HandlesFor("others")
<1>1. S = HandlesFor("file") \cup HandlesFor("mapping")
  BY Zenon DEF MappingInv, Accounted
<1>2. \A p : HandlesFor(p)' = HandlesFor(p) \ S
  BY AfterClosing, Zenon
<1>3. HandlesFor("file")' = {} /\ HandlesFor("mapping")' = {}
  BY <1>1, <1>2
<1>4. HandlesFor("others") \cap S = {}
  BY <1>1, PurposesAreDisjoint
<1>5. DOMAIN openHandles' \subseteq Handles
  BY DEF ClosedHandles, MappingInv, Shapes
<1>6. MappingInv'
  BY <1>3, <1>5, StillEmpty
<1> QED
  BY <1>2, <1>4, <1>6

LEMMA FailuresKeepInv ==
    ASSUME MappingInv, NEW code,
           \/ CreateFileFails(code) \/ GetFileSizeFails(code) \/ FileIsEmpty
           \/ CreateFileMappingFails(code) \/ MapViewOfFileFails(code)
    PROVE  MappingInv' /\ HandlesFor("others")' = HandlesFor("others")
<1>1. pc' = "idle" /\ UNCHANGED <<object, views>> /\ pc \in InOpen
  BY DEF CreateFileFails, GetFileSizeFails, FileIsEmpty, CreateFileMappingFails,
         MapViewOfFileFails, FailsWith, InOpen, system
<1>2. CASE CreateFileFails(code)
  <2>1. OwnFiles \cup OwnMappings = {} /\ UNCHANGED openHandles
    BY <1>2 DEF CreateFileFails, OwnFiles, OwnMappings, system
  <2>2. HandlesFor("file") = {} /\ HandlesFor("mapping") = {}
    BY <1>2 DEF CreateFileFails, OwnFiles, OwnMappings, MappingInv, Accounted
  <2>3. HandlesFor("file")' = {} /\ HandlesFor("mapping")' = {}
        /\ HandlesFor("others")' = HandlesFor("others")
    BY <2>1, <2>2 DEF HandlesFor
  <2>4. DOMAIN openHandles' \subseteq Handles
    BY <2>1 DEF MappingInv, Shapes
  <2> QED
    BY <1>1, <2>3, <2>4, StillEmpty
<1>3. CASE GetFileSizeFails(code) \/ FileIsEmpty \/ CreateFileMappingFails(code)
  <2>1. OwnFiles \cup OwnMappings = {file} /\ openHandles' = ClosedHandles({file})
    BY <1>3 DEF GetFileSizeFails, FileIsEmpty, CreateFileMappingFails, OwnFiles, OwnMappings
  <2> QED
    BY <1>1, <2>1, FailingKeepsInv
<1>4. CASE MapViewOfFileFails(code)
  <2>1. OwnFiles \cup OwnMappings = {mapping, file}
        /\ openHandles' = ClosedHandles({mapping, file})
    BY <1>4 DEF MapViewOfFileFails, OwnFiles, OwnMappings
  <2> QED
    BY <1>1, <2>1, FailingKeepsInv
<1> QED
  BY <1>2, <1>3, <1>4

(* Each successful call before the last adds one handle, or none. *)
LEMMA AcquiringKeepsInv ==
    ASSUME MappingInv,
           CreateFileSucceeds \/ GetFileSizeSucceeds \/ CreateFileMappingSucceeds
    PROVE  MappingInv' /\ HandlesFor("others")' = HandlesFor("others")
<1>1. CASE CreateFileSucceeds
  <2>1. PICK h \in Handles \ DOMAIN openHandles :
           file' = h /\ openHandles' = Opened(h, "file")
    BY <1>1 DEF CreateFileSucceeds
  <2>2. HandlesFor("file") = {} /\ HandlesFor("mapping") = {}
    BY <1>1 DEF CreateFileSucceeds, MappingInv, Accounted, OwnFiles, OwnMappings
  <2>3. \A q : HandlesFor(q)' = IF q = "file" THEN HandlesFor(q) \cup {h} ELSE HandlesFor(q)
    BY <2>1, AfterOpening, Zenon
  <2>4. /\ HandlesFor("file")' = {file'} /\ HandlesFor("mapping")' = {}
        /\ HandlesFor("others")' = HandlesFor("others")
    BY <2>1, <2>2, <2>3
  <2>5. DOMAIN openHandles' \subseteq Handles
    BY <2>1 DEF Opened, MappingInv, Shapes
  <2>6. pc \in InOpen /\ pc' = "GetFileSize" /\ UNCHANGED <<object, views>>
    BY <1>1 DEF CreateFileSucceeds, InOpen
  <2>7. MappingInv'
    BY <2>4, <2>5, <2>6, StillEmpty DEF InOpen
  <2> QED
    BY <2>4, <2>7
<1>2. CASE GetFileSizeSucceeds
  <2>1. /\ pc \in InOpen /\ pc' = "CreateFileMapping" /\ UNCHANGED <<object, views>>
        /\ file_size' \in Sizes \ {0} /\ UNCHANGED openHandles /\ UNCHANGED file
    BY <1>2 DEF GetFileSizeSucceeds, InOpen, system
  <2>2. HandlesFor("file") = {file} /\ HandlesFor("mapping") = {}
    BY <1>2 DEF GetFileSizeSucceeds, MappingInv, Accounted, OwnFiles, OwnMappings
  <2>3. /\ HandlesFor("file")' = {file'} /\ HandlesFor("mapping")' = {}
        /\ HandlesFor("others")' = HandlesFor("others")
    BY <2>1, <2>2 DEF HandlesFor
  <2>4. DOMAIN openHandles' \subseteq Handles
    BY <2>1 DEF MappingInv, Shapes
  <2>5. MappingInv'
    BY <2>1, <2>3, <2>4, StillEmpty DEF InOpen
  <2> QED
    BY <2>3, <2>5
<1>3. CASE CreateFileMappingSucceeds
  <2>1. PICK h \in Handles \ DOMAIN openHandles :
           mapping' = h /\ openHandles' = Opened(h, "mapping")
    BY <1>3 DEF CreateFileMappingSucceeds
  <2>2. HandlesFor("file") = {file} /\ HandlesFor("mapping") = {}
    BY <1>3 DEF CreateFileMappingSucceeds, MappingInv, Accounted, OwnFiles, OwnMappings
  <2>3. \A q : HandlesFor(q)' = IF q = "mapping" THEN HandlesFor(q) \cup {h} ELSE HandlesFor(q)
    BY <2>1, AfterOpening, Zenon
  <2>4. pc \in InOpen /\ pc' = "MapViewOfFile" /\ UNCHANGED <<object, views, file, file_size>>
    BY <1>3 DEF CreateFileMappingSucceeds, InOpen
  <2>5. /\ HandlesFor("file")' = {file'} /\ HandlesFor("mapping")' = {mapping'}
        /\ HandlesFor("others")' = HandlesFor("others")
    BY <2>1, <2>2, <2>3, <2>4
  <2>6. DOMAIN openHandles' \subseteq Handles
    BY <2>1 DEF Opened, MappingInv, Shapes
  <2>7. file_size' \in Sizes \ {0}
    BY <1>3, <2>4 DEF CreateFileMappingSucceeds, MappingInv, Shapes
  <2>8. MappingInv'
    BY <2>4, <2>5, <2>6, <2>7, StillEmpty DEF InOpen
  <2> QED
    BY <2>5, <2>8
<1> QED
  BY <1>1, <1>2, <1>3

(* The last call hands everything over to the object. *)
LEMMA HandingOverKeepsInv ==
    ASSUME MappingInv, MapViewOfFileSucceeds
    PROVE  MappingInv' /\ HandlesFor("others")' = HandlesFor("others")
<1>1. PICK a \in Addresses \ DOMAIN views :
         /\ views' = [b \in DOMAIN views \cup {a} |-> IF b = a THEN file_size ELSE views[b]]
         /\ data_' = a
  BY DEF MapViewOfFileSucceeds
<1>2. DOMAIN views = {}
  BY NothingIsOpen DEF MapViewOfFileSucceeds, InOpen
<1>3. HandlesFor("file") = {file} /\ HandlesFor("mapping") = {mapping}
  BY DEF MapViewOfFileSucceeds, MappingInv, Accounted, OwnFiles, OwnMappings
<1>4. file \in Handles /\ mapping \in Handles
  BY <1>3 DEF HandlesFor, MappingInv, Shapes
<1>5. /\ file_handle_' = file /\ file # INVALID_HANDLE_VALUE
      /\ mapping_handle_' = mapping /\ mapping # NULL
      /\ data_' = a /\ a # NULL
      /\ size_' = file_size /\ file_size # 0
  BY <1>1, <1>4, MappedFileAssumption DEF MapViewOfFileSucceeds, MappingInv, Shapes
<1>6. pc' = "idle" /\ result' = TRUE /\ UNCHANGED openHandles
  BY DEF MapViewOfFileSucceeds
<1>7. HandlesFor("file")' = {file} /\ HandlesFor("mapping")' = {mapping}
      /\ HandlesFor("others")' = HandlesFor("others")
  BY <1>3, <1>6 DEF HandlesFor
<1>8. DOMAIN views' = {a} /\ views'[a] = file_size
  BY <1>1, <1>2
<1>9. AllOrNothing' /\ OpenFileIsTheLastOne'
  BY <1>5, <1>6, <1>8 DEF AllOrNothing, OpenFileIsTheLastOne
<1>10. OwnFiles' = {file} /\ OwnMappings' = {mapping}
  BY <1>5, <1>6 DEF OwnFiles, OwnMappings
<1>11. Accounted'
  BY <1>5, <1>7, <1>8, <1>10 DEF Accounted
<1>12. Shapes'
  BY <1>1, <1>6, <1>8 DEF Shapes, MappingInv
<1> QED
  BY <1>7, <1>9, <1>11, <1>12, Zenon DEF MappingInv

(* The rest of the process works on handles of its own. *)
LEMMA OthersKeepInv ==
    ASSUME MappingInv, NEW code, OthersOpen \/ OthersClose \/ OthersFail(code)
    PROVE  /\ MappingInv'
           /\ ~ OthersClose => HandlesFor("others") \subseteq HandlesFor("others")'
<1>1. UNCHANGED <<object, pc, locals, result, views>>
  BY DEF OthersOpen, OthersClose, OthersFail, system
<1>2. /\ HandlesFor("file")' = HandlesFor("file")
      /\ HandlesFor("mapping")' = HandlesFor("mapping")
      /\ DOMAIN openHandles' \subseteq Handles
      /\ ~ OthersClose => HandlesFor("others") \subseteq HandlesFor("others")'
  <2>1. CASE OthersOpen
    <3>1. PICK h \in Handles \ DOMAIN openHandles : openHandles' = Opened(h, "others")
      BY <2>1 DEF OthersOpen
    <3>2. \A q : HandlesFor(q)' = IF q = "others" THEN HandlesFor(q) \cup {h} ELSE HandlesFor(q)
      BY <3>1, AfterOpening, Zenon
    <3>3. DOMAIN openHandles' \subseteq Handles
      BY <3>1 DEF Opened, MappingInv, Shapes
    <3> QED
      BY <3>2, <3>3
  <2>2. CASE OthersClose
    <3>1. PICK h \in HandlesFor("others") : openHandles' = ClosedHandles({h})
      BY <2>2 DEF OthersClose
    <3>2. \A q : HandlesFor(q)' = HandlesFor(q) \ {h}
      BY <3>1, AfterClosing, Zenon
    <3>3. h \notin HandlesFor("file") /\ h \notin HandlesFor("mapping")
      BY <3>1 DEF HandlesFor
    <3>4. DOMAIN openHandles' \subseteq Handles
      BY <3>1 DEF ClosedHandles, MappingInv, Shapes
    <3> QED
      BY <2>2, <3>2, <3>3, <3>4
  <2>3. CASE OthersFail(code)
    <3>1. UNCHANGED openHandles
      BY <2>3 DEF OthersFail, system
    <3> QED
      BY <3>1 DEF HandlesFor, MappingInv, Shapes
  <2> QED
    BY <2>1, <2>2, <2>3
<1>3. Shapes'
  BY <1>1, <1>2 DEF Shapes, MappingInv, locals
<1>4. Accounted'
  BY <1>1, <1>2 DEF Accounted, MappingInv, OwnFiles, OwnMappings, object, locals
<1>5. AllOrNothing' /\ OpenFileIsTheLastOne'
  BY <1>1 DEF AllOrNothing, OpenFileIsTheLastOne, MappingInv, object
<1> QED
  BY <1>2, <1>3, <1>4, <1>5, Zenon DEF MappingInv

LEMMA StutteringKeepsInv ==
    ASSUME MappingInv, UNCHANGED vars
    PROVE  MappingInv' /\ HandlesFor("others")' = HandlesFor("others")
  BY DEF vars, object, locals, system, MappingInv, Shapes, Accounted, AllOrNothing,
         OpenFileIsTheLastOne, HandlesFor, OwnFiles, OwnMappings

LEMMA MappingStep ==
    ASSUME MappingInv, [Next]_vars
    PROVE  /\ MappingInv'
           /\ OthersClose \/ HandlesFor("others") \subseteq HandlesFor("others")'
<1>1. CASE OpenCloses \/ Close \/ Destroy
  BY <1>1, ClosingKeepsInv
<1>2. CASE CreateFileSucceeds \/ GetFileSizeSucceeds \/ CreateFileMappingSucceeds
  BY <1>2, AcquiringKeepsInv
<1>3. CASE MapViewOfFileSucceeds
  BY <1>3, HandingOverKeepsInv
<1>4. CASE FileIsEmpty \/ OthersOpen \/ OthersClose
  BY <1>4, FailuresKeepInv, OthersKeepInv
<1>5. CASE \E code \in ErrorCodes :
             \/ CreateFileFails(code) \/ GetFileSizeFails(code)
             \/ CreateFileMappingFails(code) \/ MapViewOfFileFails(code)
  BY <1>5, FailuresKeepInv
<1>6. CASE \E code \in ErrorCodes : OthersFail(code)
  BY <1>6, OthersKeepInv
<1>7. CASE UNCHANGED vars
  BY <1>7, StutteringKeepsInv
<1> QED
  BY <1>1, <1>2, <1>3, <1>4, <1>5, <1>6, <1>7 DEF Next

(* The invariant holds at every step. *)
THEOREM MappingInvariant == MappedFileSpec => []MappingInv
<1>1. Init => MappingInv
  BY MappingStarts
<1>2. MappingInv /\ [Next]_vars => MappingInv'
  BY MappingStep
<1> QED
  BY <1>1, <1>2, PTL DEF MappedFileSpec

(* However many of its calls fail, the object leaks no handle and no view, *)
(* and after the destructor nothing of it is open.                         *)
THEOREM LeaksNothing == MappedFileSpec => []NothingLeaks
<1>1. MappingInv => NothingLeaks
  BY DEF MappingInv, Accounted, NothingLeaks, OwnFiles, OwnMappings
<1> QED
  BY <1>1, MappingInvariant, PTL

(* The object is open as a whole, with its bytes mapped, or not at all. *)
THEOREM OpenAsAWhole == MappedFileSpec => []AllOrNothing
<1>1. MappingInv => AllOrNothing
  BY DEF MappingInv
<1> QED
  BY <1>1, MappingInvariant, PTL

(* After a failed Open no bytes of an earlier file can be read. *)
THEOREM FailedOpenIsEmpty == MappedFileSpec => []OpenFileIsTheLastOne
<1>1. MappingInv => OpenFileIsTheLastOne
  BY DEF MappingInv
<1> QED
  BY <1>1, MappingInvariant, PTL

(* No step of the object closes a handle of the rest of the process, even  *)
(* though handle values are handed out again.                              *)
THEOREM NoForeignHandleIsClosed == MappedFileSpec => OthersAreLeftAlone
<1>1. MappingInv /\ [Next]_vars =>
        [OthersClose \/ HandlesFor("others") \subseteq HandlesFor("others")']_vars
  BY MappingStep
<1> QED
  BY <1>1, MappingInvariant, PTL DEF MappedFileSpec, OthersAreLeftAlone

=============================================================================
