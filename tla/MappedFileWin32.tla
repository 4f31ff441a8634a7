-------------------------- MODULE MappedFileWin32 --------------------------
(***************************************************************************)
(* MappedFileWin32: a file handle, a mapping handle and a view, acquired   *)
(* one after the other by Open and given back by Close and by the          *)
(* destructor.  Every system call may fail.  Handle values and addresses   *)
(* come from pools the system uses again once they are free, and the rest  *)
(* of the process opens and closes handles of its own between the calls.   *)
(***************************************************************************)
EXTENDS Integers, FiniteSets

CONSTANTS
    Handles,          \* the handle values the system hands out
    Addresses,        \* the addresses views are mapped at
    Sizes,            \* the sizes of the files that are opened
    ErrorCodes        \* the codes failing calls leave for GetLastError

NULL == "NULL"
INVALID_HANDLE_VALUE == "INVALID"
NoError == 0          \* what GetLastError returns if nothing has failed yet
None == -1            \* no message; a message is the code it is made of

ASSUME MappedFileAssumption ==
    /\ Sizes \subseteq Nat
    /\ ErrorCodes \subseteq Nat \ {NoError}
    /\ {NULL, INVALID_HANDLE_VALUE} \cap (Handles \cup Addresses) = {}

VARIABLES
    file_handle_, mapping_handle_, data_, size_, error_message_,  \* the object
    pc,               \* "idle", the call Open makes next, or "destroyed"
    file, mapping, file_size,     \* the locals of Open
    result,           \* what the last Open returned
    openHandles,      \* handles the process has open, with what each is for
    views,            \* mapped addresses, with the bytes mapped at each
    last_error,       \* GetLastError
    raised            \* the codes of the calls that failed in this Open

object == <<file_handle_, mapping_handle_, data_, size_>>
locals == <<file, mapping, file_size>>
system == <<openHandles, views>>
vars == <<object, error_message_, pc, locals, result, system, last_error, raised>>

(* The handles in use for something. *)
HandlesFor(purpose) == {h \in DOMAIN openHandles : openHandles[h] = purpose}

Init ==
    /\ file_handle_ = INVALID_HANDLE_VALUE
    /\ mapping_handle_ = NULL
    /\ data_ = NULL
    /\ size_ = 0
    /\ error_message_ = None
    /\ pc = "idle"
    /\ file = INVALID_HANDLE_VALUE /\ mapping = NULL /\ file_size = 0
    /\ result = FALSE
    /\ openHandles = << >>
    /\ views = << >>
    /\ last_error \in {NoError} \cup ErrorCodes
    /\ raised = {}

-----------------------------------------------------------------------------
(* The system calls. *)

Opened(handle, purpose) ==
    [h \in DOMAIN openHandles \cup {handle} |-> IF h = handle THEN purpose ELSE openHandles[h]]

(* What is left open after CloseHandle of some handles. *)
ClosedHandles(handles) == [h \in DOMAIN openHandles \ handles |-> openHandles[h]]
UnmappedViews(addresses) == [a \in DOMAIN views \ addresses |-> views[a]]

(* A call that succeeds need not touch the last error. *)
Succeeds ==
    /\ last_error' \in {last_error, NoError}
    /\ UNCHANGED raised

(* A call fails, and Open returns false with its code as the message.      *)
FailsWith(code) ==
    /\ last_error' = code
    /\ raised' = raised \cup {code}
    /\ error_message_' = code
    /\ result' = FALSE
    /\ pc' = "idle"

-----------------------------------------------------------------------------
(* Mutant: Close forgets to reset the size. *)
CloseKeepingSize ==
    /\ views' = UnmappedViews({data_} \ {NULL})
    /\ openHandles' = ClosedHandles(({mapping_handle_} \ {NULL}) \cup
                                    ({file_handle_} \ {INVALID_HANDLE_VALUE}))
    /\ data_' = NULL
    /\ mapping_handle_' = NULL
    /\ file_handle_' = INVALID_HANDLE_VALUE
    /\ UNCHANGED size_

(* Mutant: Close forgets to reset the file handle. *)
CloseKeepingFileHandle ==
    /\ views' = UnmappedViews({data_} \ {NULL})
    /\ openHandles' = ClosedHandles(({mapping_handle_} \ {NULL}) \cup
                                    ({file_handle_} \ {INVALID_HANDLE_VALUE}))
    /\ data_' = NULL
    /\ mapping_handle_' = NULL
    /\ size_' = 0
    /\ UNCHANGED file_handle_

(* The whole of Close: the view, the mapping, the file, in this order.     *)
CloseAll ==
    /\ views' = UnmappedViews({data_} \ {NULL})
    /\ openHandles' = ClosedHandles(({mapping_handle_} \ {NULL}) \cup
                                    ({file_handle_} \ {INVALID_HANDLE_VALUE}))
    /\ data_' = NULL
    /\ mapping_handle_' = NULL
    /\ file_handle_' = INVALID_HANDLE_VALUE
    /\ size_' = 0

(* Mutant: Open leaves the file that is open as it is. *)
OpenOverOpenFile ==
    /\ pc = "idle"
    /\ raised' = {}
    /\ pc' = "CreateFile"
    /\ UNCHANGED <<object, error_message_, locals, result, system, last_error>>

(* Open begins by closing what is open. *)
OpenCloses ==
    /\ pc = "idle"
    /\ CloseAll
    /\ raised' = {}
    /\ pc' = "CreateFile"
    /\ UNCHANGED <<error_message_, locals, result, last_error>>

CreateFileSucceeds ==
    /\ pc = "CreateFile"
    /\ \E h \in Handles \ DOMAIN openHandles :
          /\ file' = h
          /\ openHandles' = Opened(h, "file")
    /\ Succeeds
    /\ pc' = "GetFileSize"
    /\ UNCHANGED <<object, error_message_, mapping, file_size, result, views>>

CreateFileFails(code) ==
    /\ pc = "CreateFile"
    /\ FailsWith(code)
    /\ UNCHANGED <<object, locals, system>>

GetFileSizeSucceeds ==
    /\ pc = "GetFileSize"
    /\ file_size' \in Sizes \ {0}
    /\ Succeeds
    /\ pc' = "CreateFileMapping"
    /\ UNCHANGED <<object, error_message_, file, mapping, result, system>>

(* The call fails, or the file is empty: then nothing has failed, and the  *)
(* message is made of whatever GetLastError still holds.                   *)
GetFileSizeFails(code) ==
    /\ pc = "GetFileSize"
    /\ FailsWith(code)
    /\ openHandles' = ClosedHandles({file})
    /\ UNCHANGED <<object, locals, views>>

FileIsEmpty ==
    /\ pc = "GetFileSize"
    /\ 0 \in Sizes
    /\ file_size' = 0
    /\ Succeeds
    /\ error_message_' = last_error'
    /\ openHandles' = ClosedHandles({file})
    /\ result' = FALSE
    /\ pc' = "idle"
    /\ UNCHANGED <<object, file, mapping, views>>

CreateFileMappingSucceeds ==
    /\ pc = "CreateFileMapping"
    /\ \E h \in Handles \ DOMAIN openHandles :
          /\ mapping' = h
          /\ openHandles' = Opened(h, "mapping")
    /\ Succeeds
    /\ pc' = "MapViewOfFile"
    /\ UNCHANGED <<object, error_message_, file, file_size, result, views>>

CreateFileMappingFails(code) ==
    /\ pc = "CreateFileMapping"
    /\ FailsWith(code)
    /\ openHandles' = ClosedHandles({file})
    /\ UNCHANGED <<object, locals, views>>

(* The view covers the whole file; only now the object is changed. *)
MapViewOfFileSucceeds ==
    /\ pc = "MapViewOfFile"
    /\ \E a \in Addresses \ DOMAIN views :
          /\ views' = [b \in DOMAIN views \cup {a} |-> IF b = a THEN file_size ELSE views[b]]
          /\ data_' = a
    /\ Succeeds
    /\ file_handle_' = file
    /\ mapping_handle_' = mapping
    /\ size_' = file_size
    /\ error_message_' = None
    /\ result' = TRUE
    /\ pc' = "idle"
    /\ UNCHANGED <<locals, openHandles>>

(* Mutant: the last error path forgets the mapping handle. *)
MapViewOfFileFailsLeaking(code) ==
    /\ pc = "MapViewOfFile"
    /\ FailsWith(code)
    /\ openHandles' = ClosedHandles({file})
    /\ UNCHANGED <<object, locals, views>>

MapViewOfFileFails(code) ==
    /\ pc = "MapViewOfFile"
    /\ FailsWith(code)
    /\ openHandles' = ClosedHandles({mapping, file})
    /\ UNCHANGED <<object, locals, views>>

(* Close, called by the owner of the object. *)
Close ==
    /\ pc = "idle"
    /\ CloseAll
    /\ UNCHANGED <<error_message_, pc, locals, result, last_error, raised>>

(* The destructor. *)
Destroy ==
    /\ pc = "idle"
    /\ CloseAll
    /\ pc' = "destroyed"
    /\ UNCHANGED <<error_message_, locals, result, last_error, raised>>

(* The rest of the process: it opens and closes handles of its own, and    *)
(* its calls fail too.                                                     *)
OthersOpen ==
    /\ \E h \in Handles \ DOMAIN openHandles : openHandles' = Opened(h, "others")
    /\ UNCHANGED <<object, error_message_, pc, locals, result, views, last_error, raised>>

OthersClose ==
    /\ \E h \in HandlesFor("others") : openHandles' = ClosedHandles({h})
    /\ UNCHANGED <<object, error_message_, pc, locals, result, views, last_error, raised>>

OthersFail(code) ==
    /\ pc \in {"idle", "destroyed"}
    /\ last_error' = code
    /\ UNCHANGED <<object, error_message_, pc, locals, result, system, raised>>

Next ==
    \/ OpenCloses \/ Close \/ Destroy
    \/ CreateFileSucceeds \/ GetFileSizeSucceeds \/ FileIsEmpty
    \/ CreateFileMappingSucceeds \/ MapViewOfFileSucceeds
    \/ \E code \in ErrorCodes :
          \/ CreateFileFails(code) \/ GetFileSizeFails(code)
          \/ CreateFileMappingFails(code) \/ MapViewOfFileFails(code)
          \/ OthersFail(code)
    \/ OthersOpen \/ OthersClose

MappedFileSpec == Init /\ [][Next]_vars

-----------------------------------------------------------------------------
(* Between two calls the object holds exactly what the system has open for *)
(* it: no handle and no view is leaked on any of the error paths of Open,  *)
(* none is held twice, and nothing stays open after the destructor.        *)
NothingLeaks ==
    pc \in {"idle", "destroyed"} =>
        /\ HandlesFor("file") = {file_handle_} \ {INVALID_HANDLE_VALUE}
        /\ HandlesFor("mapping") = {mapping_handle_} \ {NULL}
        /\ DOMAIN views = {data_} \ {NULL}

(* The object is open as a whole or not at all, also after an Open that    *)
(* failed while another file was open: data() is NULL exactly when size()  *)
(* is 0, and size() bytes are mapped at data().                            *)
AllOrNothing ==
    /\ data_ = NULL <=> size_ = 0
    /\ data_ = NULL <=> mapping_handle_ = NULL
    /\ data_ = NULL <=> file_handle_ = INVALID_HANDLE_VALUE
    /\ data_ # NULL => data_ \in DOMAIN views /\ views[data_] = size_

(* While Open runs, and after it has failed, no bytes are mapped: a caller *)
(* that ignores the result reads nothing of the file opened before.        *)
OpenFileIsTheLastOne ==
    (pc \notin {"idle", "destroyed"} \/ ~ result) => data_ = NULL

(* No step of the object closes a handle of the rest of the process, which *)
(* happens when a handle value is used after it was closed and handed out  *)
(* again.                                                                  *)
OthersAreLeftAlone ==
    [][OthersClose \/ HandlesFor("others") \subseteq HandlesFor("others")']_vars

(* After a failed Open the message is the description of a failure of that *)
(* Open (mapped_file_win32.h: "returns the last open failure description").*)
ErrorDescribesFailure ==
    pc = "idle" /\ error_message_ # None => error_message_ \in raised
=============================================================================
