------------------------- MODULE LocalStorageProofs -------------------------
(***************************************************************************)
(* Proofs about LocalStorage, for any sessions and any local states.       *)
(***************************************************************************)
EXTENDS LocalStorage, FiniteSetTheorems, TLAPS

----------------------------------------------------------------------------
(* The invariant                                                           *)

\* What a session in the middle of a save can count on: the temporary file it is about to
\* rename is whole and flushed, and the renamed one holds its state until someone else's does.
SaveInv(s) ==
    /\ step[s] \in {"fsync", "replace"} => temp[s] = Clean[localState[s]]
    /\ step[s] = "replace" => synced[s]
    /\ step[s] = "chmod" /\ lastWriter = s => file = Clean[localState[s]]

IInv ==
    /\ TypeOK
    /\ \A s \in Sessions : SaveInv(s)
    /\ PromiseKept
    /\ MemoryIsFile

\* A sanitized state is a state, and neither a missing nor a broken file reads as one.
LEMMA CleanValues ==
    /\ Values \subseteq Raw
    /\ \A r \in Raw : Clean[r] \in Values
    /\ NoFile \notin Values /\ NoPromise \notin Values /\ Broken \cap Values = {}
    /\ Default \in Values
BY CleanAssumption, DefaultAssumption, DistinctAssumption DEF Values, Broken

LEMMA DistinctFiles == NoFile \notin Broken
<1> DEFINE others == {Torn, Undecodable, NoPromise}
<1>1. others = ({Torn} \cup {Undecodable}) \cup {NoPromise}
    OBVIOUS
<1>2. ASSUME NEW S, NEW e, IsFiniteSet(S)
      PROVE  /\ IsFiniteSet(S \cup {e})
             /\ Cardinality(S) \in Nat /\ Cardinality(S \cup {e}) <= Cardinality(S) + 1
    <2>1. Cardinality(S) \in Nat
        BY <1>2, FS_CardinalityType
    <2>2. CASE e \in S
        <3>1. S \cup {e} = S
            BY <2>2
        <3>2. QED
            BY <1>2, <2>1, <3>1
    <2>3. CASE e \notin S
        <3>1. IsFiniteSet(S \cup {e}) /\ Cardinality(S \cup {e}) = Cardinality(S) + 1
            BY <1>2, <2>3, FS_AddElement
        <3>2. QED
            BY <2>1, <3>1
    <2>4. QED
        BY <2>2, <2>3
<1>3. IsFiniteSet({Torn}) /\ Cardinality({Torn}) = 1
    BY FS_Singleton
<1>4. Cardinality(others) \in Nat /\ Cardinality(others) <= 3
    <2> DEFINE one == {Torn}
               two == one \cup {Undecodable}
    <2>1. IsFiniteSet(two) /\ Cardinality(two) <= 2
        <3>1. IsFiniteSet(one) /\ Cardinality(one) = 1
            BY <1>3
        <3> HIDE DEF one
        <3>2. IsFiniteSet(two) /\ Cardinality(two) <= Cardinality(one) + 1
            BY <1>2, <3>1
        <3>3. Cardinality(two) \in Nat
            BY <3>2, FS_CardinalityType
        <3> HIDE DEF two
        <3>4. QED
            BY <3>1, <3>2, <3>3
    <2> HIDE DEF two
    <2>2. /\ Cardinality(two) \in Nat
          /\ IsFiniteSet(two \cup {NoPromise})
          /\ Cardinality(two \cup {NoPromise}) <= Cardinality(two) + 1
        BY <1>2, <2>1
    <2>3. others = two \cup {NoPromise}
        BY <1>1 DEF two
    <2>4. Cardinality(others) \in Nat
        BY <2>2, <2>3, FS_CardinalityType
    <2> HIDE DEF others
    <2>5. QED
        BY <2>1, <2>2, <2>3, <2>4
<1>5. SUFFICES ASSUME NoFile \in Broken PROVE FALSE
    OBVIOUS
<1>6. {NoFile, Torn, Undecodable, NoPromise} = others
    BY <1>5 DEF Broken
<1>7. Cardinality(others) = 4
    BY <1>6, DistinctAssumption
<1> HIDE DEF others
<1>8. QED
    BY <1>4, <1>7

LEMMA LoadValue ==
    ASSUME NEW content
    PROVE  /\ Load(content) \in Values
           /\ content \in Values => Load(content) = content
           /\ content = NoFile => Load(content) = Default
BY CleanValues DEF Load

LEMMA InitIInv == Init => IInv
BY CleanValues DEF Init, IInv, TypeOK, SaveInv, PromiseKept, MemoryIsFile, Step, Content, Broken

----------------------------------------------------------------------------
(* Steps                                                                   *)

\* The steps before the rename and after its failure, which leave the disk as it is.
Preparation(s) ==
    \/ CreateFails(s)
    \/ CreateTemp(s)
    \/ Write(s)
    \/ Fsync(s)
    \/ CallFails(s)
    \/ Cleanup(s)
    \/ CleanupFails(s)

LEMMA StartIInv ==
    ASSUME IInv, NEW s \in Sessions, Start(s)
    PROVE  IInv'
<1> USE CleanValues DEF Start, Goto, Returns, KeepDisk, KeepTemp
<1>1. TypeOK'
    BY LoadValue DEF IInv, TypeOK, Step
<1>2. PromiseKept' /\ MemoryIsFile'
    BY DEF IInv, TypeOK, PromiseKept, MemoryIsFile
<1>3. ASSUME NEW t \in Sessions PROVE SaveInv(t)'
    BY DEF IInv, TypeOK, SaveInv
<1>4. QED
    BY <1>1, <1>2, <1>3 DEF IInv

LEMMA ChangeIInv ==
    ASSUME IInv, NEW s \in Sessions, NEW raw \in Raw, ChangeAndSave(s, raw)
    PROVE  IInv'
<1> USE DEF ChangeAndSave, Goto, KeepDisk, KeepTemp
<1>1. TypeOK'
    BY DEF IInv, TypeOK, Step
<1>2. PromiseKept' /\ MemoryIsFile'
    BY DEF IInv, TypeOK, PromiseKept, MemoryIsFile
<1>3. ASSUME NEW t \in Sessions PROVE SaveInv(t)'
    BY DEF IInv, TypeOK, SaveInv
<1>4. QED
    BY <1>1, <1>2, <1>3 DEF IInv

LEMMA PreparationIInv ==
    ASSUME IInv, NEW s \in Sessions, Preparation(s)
    PROVE  IInv'
<1> USE CleanValues
    DEF Preparation, CreateFails, CreateTemp, Write, Fsync, CallFails, Cleanup, CleanupFails,
        Goto, Returns, KeepDisk, KeepTemp, FileAfterCleanup, TempAfterCleanup, FlushedToDisk,
        Guarded, Serialized
<1>1. TypeOK'
    BY DEF IInv, TypeOK, Step, Content, Broken
<1>2. PromiseKept' /\ MemoryIsFile'
    BY DEF IInv, TypeOK, PromiseKept, MemoryIsFile
<1>3. ASSUME NEW t \in Sessions PROVE SaveInv(t)'
    BY DEF IInv, TypeOK, SaveInv
<1>4. QED
    BY <1>1, <1>2, <1>3 DEF IInv

\* The renamed file is a whole, flushed state.
LEMMA ReplacedFile ==
    ASSUME IInv, NEW s \in Sessions, Replace(s)
    PROVE  /\ file' = Clean[localState[s]] /\ file' \in Values
           /\ survivors' = survivors \cup {file'}
BY CleanValues DEF IInv, TypeOK, SaveInv, Replace

LEMMA ReplaceIInv ==
    ASSUME IInv, NEW s \in Sessions, Replace(s)
    PROVE  IInv'
<1> USE CleanValues, ReplacedFile DEF Goto
<1>1. TypeOK'
    BY DEF IInv, TypeOK, Step, Content, Broken, Replace
<1>2. PromiseKept' /\ MemoryIsFile'
    BY DEF IInv, TypeOK, PromiseKept, MemoryIsFile, Replace
<1>3. ASSUME NEW t \in Sessions PROVE SaveInv(t)'
    BY DEF IInv, TypeOK, SaveInv, Replace
<1>4. QED
    BY <1>1, <1>2, <1>3 DEF IInv

LEMMA SaveReturnsIInv ==
    ASSUME IInv, NEW s \in Sessions, SaveReturns(s)
    PROVE  IInv'
<1> USE CleanValues, CleanAssumption DEF SaveReturns, Goto, Returns, KeepTemp, TakenOver
<1>1. TypeOK'
    BY DEF IInv, TypeOK, Step
<1>2. PromiseKept' /\ MemoryIsFile'
    BY LoadValue DEF IInv, TypeOK, SaveInv, PromiseKept, MemoryIsFile
<1>3. ASSUME NEW t \in Sessions PROVE SaveInv(t)'
    BY DEF IInv, TypeOK, SaveInv
<1>4. QED
    BY <1>1, <1>2, <1>3 DEF IInv

LEMMA ClearIInv ==
    ASSUME IInv, NEW s \in Sessions, Clear(s)
    PROVE  IInv'
<1> USE CleanValues DEF Clear, Goto, Returns, KeepTemp
<1>1. TypeOK'
    BY DEF IInv, TypeOK, Step, Content, Broken
<1>2. PromiseKept' /\ MemoryIsFile'
    BY LoadValue DEF IInv, TypeOK, PromiseKept, MemoryIsFile
<1>3. ASSUME NEW t \in Sessions PROVE SaveInv(t)'
    BY DEF IInv, TypeOK, SaveInv
<1>4. QED
    BY <1>1, <1>2, <1>3 DEF IInv

LEMMA CrashIInv ==
    ASSUME IInv, NEW s \in Sessions, Crash(s)
    PROVE  IInv'
<1> USE CleanValues DEF Crash, Goto
<1>1. TypeOK'
    BY DEF IInv, TypeOK, Step, Content, Broken
<1>2. PromiseKept' /\ MemoryIsFile'
    BY DEF IInv, TypeOK, PromiseKept, MemoryIsFile
<1>3. ASSUME NEW t \in Sessions PROVE SaveInv(t)'
    BY DEF IInv, TypeOK, SaveInv
<1>4. QED
    BY <1>1, <1>2, <1>3 DEF IInv

LEMMA PowerLossIInv ==
    ASSUME IInv, PowerLoss
    PROVE  IInv'
<1> USE CleanValues DEF PowerLoss
<1>1. TypeOK'
    BY DEF IInv, TypeOK, Step, Content, Broken
<1>2. PromiseKept' /\ MemoryIsFile'
    BY DEF IInv, TypeOK, PromiseKept, MemoryIsFile
<1>3. ASSUME NEW t \in Sessions PROVE SaveInv(t)'
    BY DEF IInv, TypeOK, SaveInv
<1>4. QED
    BY <1>1, <1>2, <1>3 DEF IInv

LEMMA NextIInv ==
    ASSUME IInv, [Next]_storageVars
    PROVE  IInv'
<1>1. CASE UNCHANGED storageVars
    BY <1>1 DEF storageVars, IInv, TypeOK, SaveInv, PromiseKept, MemoryIsFile
<1>2. CASE Next
    BY <1>2, StartIInv, ChangeIInv, PreparationIInv, ReplaceIInv, SaveReturnsIInv, ClearIInv,
       CrashIInv, PowerLossIInv
    DEF Next, SetItem, Preparation
<1>3. QED
    BY <1>1, <1>2

LEMMA AlwaysIInv == Spec => []IInv
BY InitIInv, NextIInv, PTL DEF Spec

----------------------------------------------------------------------------
(* Theorems                                                                *)

\* Each session is at a step of set_item, and the path is among the contents that it may come
\* back with after a power loss.
THEOREM TypeCorrect == Spec => []TypeOK
BY AlwaysIInv, PTL DEF IInv

\* A save or a clear that returned stays on the path until another call's content replaces
\* it, for any number of sessions that share the path, fail and die.
THEOREM ReturnedSavesStay == Spec => []PromiseKept
BY AlwaysIInv, PTL DEF IInv

\* The session that wrote last, its last call having returned, would load what it holds.
THEOREM LastWriterAgrees == Spec => []MemoryIsFile
BY AlwaysIInv, PTL DEF IInv

\* No step breaks a whole file, and none makes a broken one possible after a power loss.
THEOREM Atomic == Spec => NeverTorn
<1>1. ASSUME IInv, [Next]_storageVars
      PROVE  [MayBeTorn' => MayBeTorn]_storageVars
    <2>1. ASSUME UNCHANGED <<file, survivors>> PROVE MayBeTorn' => MayBeTorn
        BY <2>1 DEF MayBeTorn
    <2>2. ASSUME NEW s \in Sessions, Replace(s) PROVE MayBeTorn' => MayBeTorn
        BY <1>1, <2>2, ReplacedFile, CleanValues DEF MayBeTorn
    <2>3. ASSUME NEW s \in Sessions, Clear(s) PROVE MayBeTorn' => MayBeTorn
        BY <2>3, DistinctFiles DEF Clear, MayBeTorn
    <2>4. ASSUME PowerLoss PROVE MayBeTorn' => MayBeTorn
        BY <2>4 DEF PowerLoss, MayBeTorn
    <2>5. QED
        BY <1>1, <2>1, <2>2, <2>3, <2>4
        DEF Next, SetItem, Start, ChangeAndSave, CreateFails, CreateTemp, Write, Fsync,
            SaveReturns, CallFails, Cleanup, CleanupFails, Crash, KeepDisk, FileAfterCleanup,
            storageVars
<1>2. QED
    BY <1>1, AlwaysIInv, PTL DEF Spec, NeverTorn

----------------------------------------------------------------------------
(* The refinement of AtomicSaves                                           *)

\* A temporary file exists from its creation to the rename, or to the cleanup.
TempInv(s) ==
    /\ step[s] \in {"down", "idle", "create", "chmod"} => temp[s] = NoFile
    /\ step[s] \in {"write", "fsync", "replace"} => temp[s] # NoFile

LEMMA InitTempInv == Init => \A s \in Sessions : TempInv(s)
BY DEF Init, TempInv

LEMMA StepTempInv ==
    ASSUME TypeOK, \A s \in Sessions : TempInv(s), [Next]_storageVars, NEW t \in Sessions
    PROVE  TempInv(t)'
<1> USE DEF TempInv, TypeOK, Goto, Returns
<1>1. ASSUME NEW s \in Sessions, Start(s) PROVE TempInv(t)'
    BY <1>1 DEF Start, KeepTemp
<1>2. ASSUME NEW s \in Sessions, NEW raw \in Raw, ChangeAndSave(s, raw) PROVE TempInv(t)'
    BY <1>2 DEF ChangeAndSave, KeepTemp
<1>3. ASSUME NEW s \in Sessions, CreateFails(s) PROVE TempInv(t)'
    BY <1>3 DEF CreateFails, KeepTemp
<1>4. ASSUME NEW s \in Sessions, CreateTemp(s) PROVE TempInv(t)'
    BY <1>4, DistinctFiles DEF CreateTemp, Broken
<1>5. ASSUME NEW s \in Sessions, Write(s) PROVE TempInv(t)'
    BY <1>5, CleanValues DEF Write, Serialized
<1>6. ASSUME NEW s \in Sessions, Fsync(s) \/ CallFails(s) PROVE TempInv(t)'
    BY <1>6 DEF Fsync, CallFails, KeepTemp
<1>7. ASSUME NEW s \in Sessions, Replace(s) PROVE TempInv(t)'
    BY <1>7 DEF Replace
<1>8. ASSUME NEW s \in Sessions, SaveReturns(s) PROVE TempInv(t)'
    BY <1>8 DEF SaveReturns, KeepTemp
<1>9. ASSUME NEW s \in Sessions, Cleanup(s) \/ CleanupFails(s) PROVE TempInv(t)'
    BY <1>9 DEF Cleanup, CleanupFails, TempAfterCleanup
<1>10. ASSUME NEW s \in Sessions, Clear(s) PROVE TempInv(t)'
    BY <1>10 DEF Clear, KeepTemp
<1>11. ASSUME NEW s \in Sessions, Crash(s) PROVE TempInv(t)'
    BY <1>11 DEF Crash
<1>12. CASE PowerLoss
    BY <1>12 DEF PowerLoss
<1>13. CASE UNCHANGED storageVars
    BY <1>13 DEF storageVars
<1>14. QED
    BY <1>1, <1>2, <1>3, <1>4, <1>5, <1>6, <1>7, <1>8, <1>9, <1>10, <1>11, <1>12, <1>13
    DEF Next, SetItem

RInv == IInv /\ \A s \in Sessions : TempInv(s)

LEMMA AlwaysRInv == Spec => []RInv
<1>1. Init => RInv
    BY InitIInv, InitTempInv DEF RInv
<1>2. RInv /\ [Next]_storageVars => RInv'
    BY NextIInv, StepTempInv DEF RInv, IInv
<1>3. QED
    BY <1>1, <1>2, PTL DEF Spec

\* The abstract phases of all sessions.
Phases == [s \in Sessions |-> Phase(s)]

LEMMA OnePhaseMoves ==
    ASSUME TypeOK, NEW s \in Sessions, NEW next, Goto(s, next),
           \A t \in Sessions \ {s} : temp'[t] = temp[t]
    PROVE  Phases' = [Phases EXCEPT ![s] = Phase(s)']
<1>1. ASSUME NEW t \in Sessions, t # s PROVE Phase(t)' = Phase(t)
    BY <1>1 DEF TypeOK, Goto, Phase, HasRenamed
<1>2. QED
    BY <1>1 DEF Phases

LEMMA PhaseStays ==
    ASSUME TypeOK, NEW s \in Sessions, NEW next, Goto(s, next),
           \A t \in Sessions \ {s} : temp'[t] = temp[t], Phase(s)' = Phase(s)
    PROVE  Phases' = Phases
<1>1. Phases' = [Phases EXCEPT ![s] = Phases[s]]
    BY OnePhaseMoves DEF Phases
<1>2. QED
    BY <1>1 DEF Phases

LEMMA OpenIsOpen ==
    ASSUME RInv, NEW s \in Sessions, Start(s)
    PROVE  Abstract!Open(s)
<1>1. TypeOK /\ Goto(s, "idle") /\ temp' = temp
    BY DEF RInv, IInv, Start, Returns, KeepTemp
<1>2. Phase(s) = "down" /\ Phase(s)' = "idle"
    BY <1>1 DEF Start, TypeOK, Goto, Phase, HasRenamed
<1>3. Phases' = [Phases EXCEPT ![s] = "idle"] /\ Phases[s] = "down"
    BY <1>1, <1>2, OnePhaseMoves DEF Phases
<1>4. QED
    BY <1>3 DEF Abstract!Open, Start, CanLoad, Returns, KeepDisk, Load, Values, Abstract!Values, Phases

LEMMA ChangeIsSave ==
    ASSUME RInv, NEW s \in Sessions, NEW raw \in Raw, ChangeAndSave(s, raw)
    PROVE  Abstract!Save(s, raw)
<1>1. TypeOK /\ Goto(s, "create") /\ temp' = temp
    BY DEF RInv, IInv, ChangeAndSave, KeepTemp
<1>2. Phase(s) = "idle" /\ Phase(s)' = "saving"
    BY <1>1 DEF ChangeAndSave, TypeOK, Goto, Phase, HasRenamed
<1>3. Phases' = [Phases EXCEPT ![s] = "saving"] /\ Phases[s] = "idle"
    BY <1>1, <1>2, OnePhaseMoves DEF Phases
<1>4. QED
    BY <1>3 DEF Abstract!Save, ChangeAndSave, KeepDisk, Phases

LEMMA ReplaceIsEffect ==
    ASSUME RInv, NEW s \in Sessions, Replace(s)
    PROVE  Abstract!TakeEffect(s)
<1>1. /\ TypeOK /\ Goto(s, "chmod") /\ IInv
      /\ \A t \in Sessions \ {s} : temp'[t] = temp[t]
    BY DEF RInv, IInv, Replace, TypeOK
<1>2. Phase(s) = "saving" /\ Phase(s)' = "saved"
    BY <1>1 DEF Replace, TypeOK, Goto, Phase, HasRenamed
<1>3. Phases' = [Phases EXCEPT ![s] = "saved"] /\ Phases[s] = "saving"
    BY <1>1, <1>2, OnePhaseMoves DEF Phases
<1>4. file' = Clean[localState[s]] /\ survivors' = survivors \cup {Clean[localState[s]]}
    BY <1>1, ReplacedFile
<1>5. QED
    BY <1>3, <1>4 DEF Abstract!TakeEffect, Replace, Phases

LEMMA ReturnIsReturn ==
    ASSUME RInv, NEW s \in Sessions, SaveReturns(s)
    PROVE  Abstract!Return(s)
<1>1. TypeOK /\ Goto(s, "idle") /\ temp' = temp
    BY DEF RInv, IInv, SaveReturns, Returns, KeepTemp
<1>2. Phase(s) = "saved" /\ Phase(s)' = "idle"
    BY <1>1 DEF SaveReturns, TypeOK, Goto, Phase, HasRenamed
<1>3. Phases' = [Phases EXCEPT ![s] = "idle"] /\ Phases[s] = "saved"
    BY <1>1, <1>2, OnePhaseMoves DEF Phases
<1>4. QED
    BY <1>3 DEF Abstract!Return, SaveReturns, Returns, TakenOver, Phases

LEMMA FailureIsRaise ==
    ASSUME RInv, NEW s \in Sessions, CreateFails(s) \/ Cleanup(s) \/ CleanupFails(s)
    PROVE  Abstract!Raise(s)
<1>1. /\ TypeOK /\ Goto(s, "idle") /\ failed' = [failed EXCEPT ![s] = TRUE]
      /\ \A t \in Sessions \ {s} : temp'[t] = temp[t]
      /\ step[s] \in {"create", "cleanup"}
      /\ UNCHANGED <<localState, file, survivors>>
    BY DEF RInv, IInv, TypeOK, CreateFails, Cleanup, CleanupFails, Returns, KeepTemp, KeepDisk,
           TempAfterCleanup, FileAfterCleanup
<1>2. Phase(s) \in {"saving", "saved"} /\ Phase(s)' = "idle"
    BY <1>1 DEF TypeOK, Goto, Phase, HasRenamed
<1>3. Phases' = [Phases EXCEPT ![s] = "idle"] /\ Phases[s] \in {"saving", "saved"}
    BY <1>1, <1>2, OnePhaseMoves DEF Phases
<1>4. QED
    BY <1>1, <1>3 DEF Abstract!Raise, Phases

\* The calls before the rename, and the step to the cleanup, are not seen.
LEMMA CallsAreUnseen ==
    ASSUME RInv, NEW s \in Sessions,
           CreateTemp(s) \/ Write(s) \/ Fsync(s) \/ CallFails(s)
    PROVE  UNCHANGED <<Phases, localState, failed, file, survivors>>
<1> USE DEF RInv, IInv
<1>1. /\ UNCHANGED <<localState, failed, file, survivors>>
      /\ \A t \in Sessions \ {s} : temp'[t] = temp[t]
    BY DEF TypeOK, CreateTemp, Write, Fsync, CallFails, KeepTemp, KeepDisk
<1>2. CASE CreateTemp(s)
    <2>1. Phase(s)' = Phase(s) /\ Goto(s, "write")
        BY <1>2 DEF CreateTemp, TypeOK, Goto, Phase, HasRenamed
    <2>2. QED
        BY <1>1, <2>1, PhaseStays
<1>3. CASE Write(s)
    <2>1. Phase(s)' = Phase(s) /\ Goto(s, "fsync")
        BY <1>3 DEF Write, TypeOK, Goto, Phase, HasRenamed
    <2>2. QED
        BY <1>1, <2>1, PhaseStays
<1>4. CASE Fsync(s)
    <2>1. Phase(s)' = Phase(s) /\ Goto(s, "replace")
        BY <1>4 DEF Fsync, TypeOK, Goto, Phase, HasRenamed
    <2>2. QED
        BY <1>1, <2>1, PhaseStays
<1>5. CASE CallFails(s)
    <2>1. Phase(s)' = Phase(s) /\ Goto(s, "cleanup")
        BY <1>5 DEF CallFails, Guarded, TypeOK, TempInv, KeepTemp, Goto, Phase, HasRenamed
    <2>2. QED
        BY <1>1, <2>1, PhaseStays
<1>6. QED
    BY <1>2, <1>3, <1>4, <1>5

LEMMA ClearIsReset ==
    ASSUME RInv, NEW s \in Sessions, Clear(s)
    PROVE  Abstract!Reset(s)
<1>1. TypeOK /\ Goto(s, "idle") /\ temp' = temp
    BY DEF RInv, IInv, Clear, Returns, KeepTemp
<1>2. Phase(s) = "idle" /\ Phase(s)' = "idle"
    BY <1>1 DEF Clear, TypeOK, Goto, Phase, HasRenamed
<1>3. Phases' = Phases /\ Phases[s] = "idle"
    BY <1>1, <1>2, PhaseStays DEF Phases
<1>4. QED
    BY <1>3 DEF Abstract!Reset, Clear, Returns, Phases

LEMMA CrashIsDeath ==
    ASSUME RInv, NEW s \in Sessions, Crash(s)
    PROVE  Abstract!Die(s)
<1>1. /\ TypeOK /\ Goto(s, "down")
      /\ \A t \in Sessions \ {s} : temp'[t] = temp[t]
    BY DEF RInv, IInv, TypeOK, Crash
<1>2. Phase(s) # "down" /\ Phase(s)' = "down"
    BY <1>1 DEF Crash, TypeOK, Goto, Phase, HasRenamed
<1>3. Phases' = [Phases EXCEPT ![s] = "down"] /\ Phases[s] # "down"
    BY <1>1, <1>2, OnePhaseMoves DEF Phases
<1>4. QED
    BY <1>3 DEF Abstract!Die, Crash, Phases

LEMMA PowerLossIsPowerLoss ==
    ASSUME RInv, PowerLoss
    PROVE  Abstract!LosePower
<1>1. ASSUME NEW s \in Sessions PROVE Phase(s)' = "down"
    BY DEF PowerLoss, Phase, HasRenamed
<1>2. Phases' = [s \in Sessions |-> "down"]
    BY <1>1 DEF Phases
<1>3. QED
    BY <1>2 DEF PowerLoss, Abstract!LosePower, Phases

\* One atomic JSON file: sessions that share a path, whose calls of the file system fail and
\* who die or lose power at any of them, save as if each save were one step.
THEOREM SavesAreAtomic == Spec => ImplementsAtomicSaves
<1>1. Init => Abstract!Init
    <2>1. ASSUME Init, NEW s \in Sessions PROVE Phase(s) = "down"
        BY <2>1 DEF Init, Phase, HasRenamed
    <2>2. QED
        BY <2>1 DEF Init, Abstract!Init
<1>2. ASSUME RInv, [Next]_storageVars
      PROVE  [Abstract!Next]_(Abstract!saveVars)
    <2> USE DEF Abstract!Next
    <2>1. ASSUME NEW s \in Sessions, Start(s) PROVE Abstract!Next
        BY <1>2, <2>1, OpenIsOpen
    <2>2. ASSUME NEW s \in Sessions, NEW raw \in Raw, ChangeAndSave(s, raw) PROVE Abstract!Next
        BY <1>2, <2>2, ChangeIsSave
    <2>3. ASSUME NEW s \in Sessions, CreateFails(s) \/ Cleanup(s) \/ CleanupFails(s)
          PROVE  Abstract!Next
        BY <1>2, <2>3, FailureIsRaise
    <2>4. ASSUME NEW s \in Sessions, CreateTemp(s) \/ Write(s) \/ Fsync(s) \/ CallFails(s)
          PROVE  UNCHANGED Abstract!saveVars
        BY <1>2, <2>4, CallsAreUnseen DEF Abstract!saveVars, Phases
    <2>5. ASSUME NEW s \in Sessions, Replace(s) PROVE Abstract!Next
        BY <1>2, <2>5, ReplaceIsEffect
    <2>6. ASSUME NEW s \in Sessions, SaveReturns(s) PROVE Abstract!Next
        BY <1>2, <2>6, ReturnIsReturn
    <2>7. ASSUME NEW s \in Sessions, Clear(s) PROVE Abstract!Next
        BY <1>2, <2>7, ClearIsReset
    <2>8. ASSUME NEW s \in Sessions, Crash(s) PROVE Abstract!Next
        BY <1>2, <2>8, CrashIsDeath
    <2>9. CASE PowerLoss
        BY <1>2, <2>9, PowerLossIsPowerLoss
    <2>10. CASE UNCHANGED storageVars
        BY <2>10 DEF storageVars, Abstract!saveVars, Phase, HasRenamed
    <2> HIDE DEF Abstract!Next
    <2>11. QED
        BY <1>2, <2>1, <2>2, <2>3, <2>4, <2>5, <2>6, <2>7, <2>8, <2>9, <2>10 DEF Next, SetItem
<1>3. QED
    BY <1>1, <1>2, AlwaysRInv, PTL DEF Spec, ImplementsAtomicSaves, Abstract!Spec

=============================================================================
