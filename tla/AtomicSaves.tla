---------------------------- MODULE AtomicSaves ----------------------------
(***************************************************************************)
(* What the file adapter promises about saves, with no temporary file and  *)
(* no calls of the file system in it: a save puts the clean form of its    *)
(* session's state on the path in one step, once, and before it returns.   *)
(* A save that raises has put it there or not; a session that dies in the  *)
(* middle of one likewise; and after a power loss the path holds something *)
(* that it has held before.                                                *)
(***************************************************************************)
CONSTANTS
    Sessions,
    Raw,        \* local states
    Clean,      \* the clean form of each
    Default,    \* what a session holds before it loads and after a reset
    NoFile,     \* the content of a path without a file
    Undecodable \* a content that no session opens

Values == {Clean[r] : r \in Raw}

VARIABLES
    phase,      \* session -> "down", "idle", or "saving" before and "saved" after the effect
    memory,     \* session -> its local state
    failed,     \* session -> its last save raised
    file,       \* what the path holds
    held        \* what it may hold after a power loss

saveVars == <<phase, memory, failed, file, held>>

\* Any content, a broken one from another program included.
Init ==
    /\ phase = [s \in Sessions |-> "down"]
    /\ memory = [s \in Sessions |-> Default]
    /\ failed = [s \in Sessions |-> FALSE]
    /\ held = {file}

Open(s) ==
    /\ phase[s] = "down"
    /\ file # Undecodable
    /\ phase' = [phase EXCEPT ![s] = "idle"]
    /\ memory' = [memory EXCEPT ![s] = IF file \in Values THEN file ELSE Default]
    /\ failed' = [failed EXCEPT ![s] = FALSE]
    /\ UNCHANGED <<file, held>>

Save(s, raw) ==
    /\ phase[s] = "idle"
    /\ phase' = [phase EXCEPT ![s] = "saving"]
    /\ memory' = [memory EXCEPT ![s] = raw]
    /\ UNCHANGED <<failed, file, held>>

TakeEffect(s) ==
    /\ phase[s] = "saving"
    /\ phase' = [phase EXCEPT ![s] = "saved"]
    /\ file' = Clean[memory[s]]
    /\ held' = held \cup {Clean[memory[s]]}
    /\ UNCHANGED <<memory, failed>>

\* Only what has been saved returns, and the session takes over what it has saved.
Return(s) ==
    /\ phase[s] = "saved"
    /\ phase' = [phase EXCEPT ![s] = "idle"]
    /\ memory' = [memory EXCEPT ![s] = Clean[memory[s]]]
    /\ failed' = [failed EXCEPT ![s] = FALSE]
    /\ UNCHANGED <<file, held>>

Raise(s) ==
    /\ phase[s] \in {"saving", "saved"}
    /\ phase' = [phase EXCEPT ![s] = "idle"]
    /\ failed' = [failed EXCEPT ![s] = TRUE]
    /\ UNCHANGED <<memory, file, held>>

Reset(s) ==
    /\ phase[s] = "idle"
    /\ memory' = [memory EXCEPT ![s] = Default]
    /\ failed' = [failed EXCEPT ![s] = FALSE]
    /\ file' = NoFile
    /\ held' = held \cup {NoFile}
    /\ UNCHANGED phase

Die(s) ==
    /\ phase[s] # "down"
    /\ phase' = [phase EXCEPT ![s] = "down"]
    /\ memory' = [memory EXCEPT ![s] = Default]
    /\ UNCHANGED <<failed, file, held>>

LosePower ==
    /\ phase' = [s \in Sessions |-> "down"]
    /\ memory' = [s \in Sessions |-> Default]
    /\ file' \in held
    /\ held' = {file'}
    /\ UNCHANGED failed

Next ==
    \/ \E s \in Sessions :
           Open(s) \/ TakeEffect(s) \/ Return(s) \/ Raise(s) \/ Reset(s) \/ Die(s)
    \/ \E s \in Sessions, raw \in Raw : Save(s, raw)
    \/ LosePower

Spec == Init /\ [][Next]_saveVars

============================================================================
