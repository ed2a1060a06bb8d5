---------------------------- MODULE LocalStorage ----------------------------
(***************************************************************************)
(* The saved half of a research session: JsonFileStorageAdapter and        *)
(* LocalStateRepository (src/src/swipe_dating/adapters/storage.py) under   *)
(* the session methods that change local_state                             *)
(* (src/src/swipe_dating/application/session.py).                          *)
(*                                                                         *)
(* A save writes a temporary file of its own, flushes it to the disk and   *)
(* renames it over the saved one.  Any call can fail, the process can die  *)
(* between any two of them, and the machine can lose power.  The adapter   *)
(* takes any path and locks nothing, so several sessions, one process      *)
(* each, may share a file.                                                 *)
(*                                                                         *)
(* External: the file system, as the code uses it.  A rename is atomic for *)
(* whoever reads the path; whether a rename or an unlink outlives a power  *)
(* loss is open, as the code never flushes the directory; the content of a *)
(* file that was not flushed comes back broken.                            *)
(*                                                                         *)
(* Abstracted: a local state is a member of Raw, and Clean is what         *)
(* sanitize_local_state makes of it; savedAt and the mode bits are left    *)
(* out.                                                                    *)
(***************************************************************************)
EXTENDS Integers, FiniteSets

CONSTANTS
    Sessions,   \* the sessions, one process each, on one path
    Raw,        \* local states as a session method can leave them in memory
    Clean,      \* sanitize_local_state: Raw -> Raw
    Default,    \* create_default_local_state()
    NoFile,     \* the path does not exist
    Torn,       \* a file that does not parse
    Undecodable,    \* a file that is not UTF-8, cut in the middle of a character, say
    NoPromise

Values == {Clean[r] : r \in Raw}

ASSUME CleanAssumption ==
    /\ Clean \in [Raw -> Raw]
    /\ \A r \in Raw : Clean[Clean[r]] = Clean[r]
ASSUME DefaultAssumption == Default \in Values
ASSUME DistinctAssumption ==
    /\ {NoFile, Torn, Undecodable, NoPromise} \cap Raw = {}
    /\ Cardinality({NoFile, Torn, Undecodable, NoPromise}) = 4

\* What may come back of a file that was not flushed
Broken == {Torn, Undecodable}

Content == Values \cup {NoFile} \cup Broken

\* Where in JsonFileStorageAdapter.set_item a session is; "down" when its process is.
Step == {"down", "idle", "create", "write", "fsync", "replace", "chmod", "cleanup"}

VARIABLES
    \* One per session
    step,
    localState,     \* self.local_state
    temp,           \* the content of its temporary file
    synced,         \* that file has been flushed
    failed,         \* its last save raised
    \* The disk
    file,           \* what a reader of the path finds
    survivors,      \* what it may find after a power loss
    orphans,        \* a temporary file that no process will remove is left behind
    \* What the callers were told
    lastWriter,     \* the session whose rename or unlink was the last to take effect
    promised        \* the content that the last successful call promised, until overwritten

storageVars == <<step, localState, temp, synced, failed, file, survivors, orphans,
                 lastWriter, promised>>

\* deserialize_local_state: what does not parse is the default.
Load(content) == IF content \in Values THEN content ELSE Default

Init ==
    /\ step = [s \in Sessions |-> "down"]
    /\ localState = [s \in Sessions |-> Default]
    /\ temp = [s \in Sessions |-> NoFile]
    /\ synced = [s \in Sessions |-> FALSE]
    /\ failed = [s \in Sessions |-> FALSE]
    /\ file \in Content
    /\ survivors = {file}
    /\ orphans = FALSE
    /\ lastWriter \in Sessions
    /\ promised = NoPromise

Goto(s, next) == step' = [step EXCEPT ![s] = next]

KeepDisk == UNCHANGED <<file, survivors, orphans, lastWriter, promised>>

KeepTemp == UNCHANGED <<temp, synced>>

\* An exception, or none, reaches the caller.
Returns(s, raised) == Goto(s, "idle") /\ failed' = [failed EXCEPT ![s] = raised]

----------------------------------------------------------------------------
(* The session                                                             *)

\* LocalStateRepository.load: get_item takes a missing file for none, but nobody catches the
\* exception that read_text raises for one that is not UTF-8.
CanLoad == file # Undecodable

\* ResearchSession.__init__
Start(s) ==
    /\ step[s] = "down"
    /\ CanLoad
    /\ Returns(s, FALSE)
    /\ localState' = [localState EXCEPT ![s] = Load(file)]
    /\ KeepTemp /\ KeepDisk

\* update_profile, set_haptics, select_tab("Swipe"), acquire_or_apply_skin: the memory is
\* changed before the save is tried, and stays changed if it fails.
ChangeAndSave(s, raw) ==
    /\ step[s] = "idle"
    /\ localState' = [localState EXCEPT ![s] = raw]
    /\ Goto(s, "create")
    /\ UNCHANGED failed /\ KeepTemp /\ KeepDisk

----------------------------------------------------------------------------
(* set_item                                                                *)

\* mkdir or NamedTemporaryFile fails: there is no temporary file to remove.
CreateFails(s) ==
    /\ step[s] = "create"
    /\ Returns(s, TRUE)
    /\ UNCHANGED localState /\ KeepTemp /\ KeepDisk

CreateTemp(s) ==
    /\ step[s] = "create"
    /\ Goto(s, "write")
    /\ temp' = [temp EXCEPT ![s] = Torn]
    /\ synced' = [synced EXCEPT ![s] = FALSE]
    /\ UNCHANGED <<localState, failed>> /\ KeepDisk

\* Fault: what the session method put in memory is written as it is.
Unsanitized(s) == localState[s]

\* serialize_local_state sanitizes what it writes.
Serialized(s) == Clean[localState[s]]

Write(s) ==
    /\ step[s] = "write"
    /\ Goto(s, "fsync")
    /\ temp' = [temp EXCEPT ![s] = Serialized(s)]
    /\ UNCHANGED <<localState, synced, failed>> /\ KeepDisk

\* Fault: what was written is left in the cache of the operating system.
FlushedToCache == FALSE

FlushedToDisk == TRUE

Fsync(s) ==
    /\ step[s] = "fsync"
    /\ Goto(s, "replace")
    /\ synced' = [synced EXCEPT ![s] = FlushedToDisk]
    /\ UNCHANGED <<localState, temp, failed>> /\ KeepDisk

\* os.replace: whoever had been promised another content of the path is overwritten.
Replace(s) ==
    /\ step[s] = "replace"
    /\ Goto(s, "chmod")
    /\ file' = temp[s]
    /\ survivors' = survivors \cup (IF synced[s] THEN {temp[s]} ELSE Broken)
    /\ lastWriter' = s
    /\ promised' = NoPromise
    /\ temp' = [temp EXCEPT ![s] = NoFile]
    /\ UNCHANGED <<localState, synced, failed, orphans>>

\* Fault: the memory keeps what the method put there.
UnsavedKept(s) == localState[s]

\* _persist: the memory becomes what a load of the saved text gives.
TakenOver(s) == Clean[localState[s]]

SaveReturns(s) ==
    /\ step[s] = "chmod"
    /\ Returns(s, FALSE)
    /\ localState' = [localState EXCEPT ![s] = TakenOver(s)]
    /\ promised' = IF lastWriter = s THEN Clean[localState[s]] ELSE promised
    /\ KeepTemp /\ UNCHANGED <<file, survivors, orphans, lastWriter>>

\* The calls of the try block that can raise, chmod of the renamed file among them.
Guarded == {"write", "fsync", "replace", "chmod"}

CallFails(s) ==
    /\ step[s] \in Guarded
    /\ Goto(s, "cleanup")
    /\ UNCHANGED <<localState, failed>> /\ KeepTemp /\ KeepDisk

TempAfterCleanup(s) == NoFile

\* Fault: the handler removes the saved file.
PathRemoved == NoFile

FileAfterCleanup == file

\* unlink(missing_ok=True) of the temporary file, then the exception goes to the caller.
Cleanup(s) ==
    /\ step[s] = "cleanup"
    /\ Returns(s, TRUE)
    /\ temp' = [temp EXCEPT ![s] = TempAfterCleanup(s)]
    /\ file' = FileAfterCleanup
    /\ UNCHANGED <<localState, synced, survivors, orphans, lastWriter, promised>>

\* The unlink fails too.
CleanupFails(s) ==
    /\ step[s] = "cleanup"
    /\ Returns(s, TRUE)
    /\ temp' = [temp EXCEPT ![s] = NoFile]
    /\ orphans' = (orphans \/ temp[s] # NoFile)
    /\ UNCHANGED <<localState, synced, file, survivors, lastWriter, promised>>

----------------------------------------------------------------------------
(* clear                                                                   *)

\* reset_saved_profile: remove_item returned, so the memory is reset as well.  If the unlink
\* raises, neither the file nor the memory changes: a stutter.
Clear(s) ==
    /\ step[s] = "idle"
    /\ Returns(s, FALSE)
    /\ localState' = [localState EXCEPT ![s] = Default]
    /\ file' = NoFile
    /\ survivors' = survivors \cup {NoFile}
    /\ lastWriter' = s
    /\ promised' = NoFile
    /\ KeepTemp /\ UNCHANGED orphans

----------------------------------------------------------------------------
(* Crashes                                                                 *)

\* A process dies: its temporary file stays.
Crash(s) ==
    /\ step[s] # "down"
    /\ Goto(s, "down")
    /\ localState' = [localState EXCEPT ![s] = Default]
    /\ temp' = [temp EXCEPT ![s] = NoFile]
    /\ orphans' = (orphans \/ temp[s] # NoFile)
    /\ UNCHANGED <<synced, failed, file, survivors, lastWriter, promised>>

\* All processes die, and the path comes back with something it has held since the last loss.
PowerLoss ==
    /\ step' = [s \in Sessions |-> "down"]
    /\ localState' = [s \in Sessions |-> Default]
    /\ temp' = [s \in Sessions |-> NoFile]
    /\ \E content \in survivors : file' = content /\ survivors' = {content}
    /\ orphans' = (orphans \/ \E s \in Sessions : temp[s] # NoFile)
    /\ promised' = NoPromise
    /\ UNCHANGED <<synced, failed, lastWriter>>

----------------------------------------------------------------------------

SetItem(s) ==
    \/ CreateFails(s)
    \/ CreateTemp(s)
    \/ Write(s)
    \/ Fsync(s)
    \/ Replace(s)
    \/ SaveReturns(s)
    \/ CallFails(s)
    \/ Cleanup(s)
    \/ CleanupFails(s)

Next ==
    \/ \E s \in Sessions : Start(s) \/ SetItem(s) \/ Clear(s) \/ Crash(s)
    \/ \E s \in Sessions, raw \in Raw : ChangeAndSave(s, raw)
    \/ PowerLoss

Spec == Init /\ [][Next]_storageVars

----------------------------------------------------------------------------
(* Properties                                                              *)

TypeOK ==
    /\ step \in [Sessions -> Step]
    /\ localState \in [Sessions -> Raw]
    /\ temp \in [Sessions -> Content]
    /\ synced \in [Sessions -> BOOLEAN]
    /\ failed \in [Sessions -> BOOLEAN]
    /\ file \in Content
    /\ survivors \subseteq Content /\ file \in survivors
    /\ orphans \in BOOLEAN
    /\ lastWriter \in Sessions
    /\ promised \in Values \cup {NoFile, NoPromise}

\* A reader may find a broken file, now or after a power loss.
MayBeTorn == file \in Broken \/ survivors \cap Broken # {}

\* "One atomic JSON file": a save that fails, dies or loses power at any point, also one that
\* races another session's, never leaves a broken file where there was none.
NeverTorn == [][MayBeTorn' => MayBeTorn]_storageVars

\* What a save or a clear returned with is what the path holds, through later saves that
\* fail and processes that die, until another call has put its own content there.
PromiseKept == promised # NoPromise => file = promised

\* The memory runs ahead of the file while a save is tried and after it has failed, and only
\* then: otherwise a restart of the session that wrote last changes nothing.
MemoryIsFile ==
    \A s \in Sessions :
        step[s] = "idle" /\ ~failed[s] /\ lastWriter = s => localState[s] = Load(file)

----------------------------------------------------------------------------
(* The abstract save                                                       *)

\* Once renamed, the temporary file is gone, also for a session whose chmod then failed.
HasRenamed(s) == step[s] = "chmod" \/ (step[s] = "cleanup" /\ temp[s] = NoFile)

Phase(s) ==
    CASE step[s] \in {"down", "idle"} -> step[s]
      [] HasRenamed(s) -> "saved"
      [] OTHER -> "saving"

Abstract == INSTANCE AtomicSaves WITH
    phase  <- [s \in Sessions |-> Phase(s)],
    memory <- localState,
    held   <- survivors

\* "One atomic JSON file": the calls of set_item, the failures of each, deaths and power loss
\* come to a save that takes effect in one step, once, if at all, and always before it returns;
\* sessions on one path never mix their contents.
ImplementsAtomicSaves == Abstract!Spec

============================================================================
