-------------------------- MODULE StorageMove_proofs --------------------------
(***************************************************************************)
(* What is proved of StorageMove, for any files, stores and versions: its  *)
(* type invariant, and that the folder the farm runs from is whole while   *)
(* nothing falls between the switch's two saves and no file is replaced    *)
(* during its own copy (without the first TLC finds a counterexample, see  *)
(* StorageMove_cut.cfg; without the second one too, see the README).       *)
(***************************************************************************)
EXTENDS StorageMove, TLAPS

USE StorageMoveAssumption

-----------------------------------------------------------------------------
(* Types. *)

\* A job that is under way has its journal.
Running ==
    /\ job.pc # "idle" => journal # None
    /\ job.hand # None => job.pc \in {"copy", "recopy"}
    /\ job.pc = "delete" => job.store # None

Typed == TypeOK /\ Running

\* The types hold of the first state.
LEMMA TypedInit == Init => Typed
BY DEF Init, Typed, TypeOK, Running, IdleJob, Jobs, Contents, Journals

\* No step of the copy breaks them.
LEMMA TypedCopy == ASSUME Typed, CopyStep PROVE Typed'
<1> USE DEF Typed, TypeOK, Running, Jobs, Journals
<1>1. ASSUME NEW f \in Files, CopyKept(f) PROVE Typed'
    BY <1>1 DEF CopyKept, At
<1>2. ASSUME NEW f \in Files, CopyAdopted(f) PROVE Typed'
    BY <1>2 DEF CopyAdopted, At
<1>3. ASSUME NEW f \in Files, CopyRead(f) PROVE Typed'
    BY <1>3 DEF CopyRead, At
<1>4. ASSUME NEW f \in Files, CopyDamaged(f) PROVE Typed'
    BY <1>4, ZenonT(60) DEF CopyDamaged, At
<1>5. ASSUME NEW f \in Files, CopyBlocked(f) PROVE Typed'
    BY <1>5 DEF CopyBlocked, GivenUp, IdleJob, At
<1>6. CASE CopyPlaced
    BY <1>6 DEF CopyPlaced
<1>7. CASE CopyRecorded
    BY <1>7 DEF CopyRecorded
<1>8. CASE CopyFails
    BY <1>8 DEF CopyFails, GivenUp, IdleJob
<1> QED
    BY <1>1, <1>2, <1>3, <1>4, <1>5, <1>6, <1>7, <1>8 DEF CopyStep

\* No step of the switch breaks them.
LEMMA TypedSwitch == ASSUME Typed, SwitchStep PROVE Typed'
<1> USE DEF Typed, TypeOK, Running, Jobs, Journals
<1>1. CASE Switch
    BY <1>1 DEF Switch, Listed
<1>2. CASE ConfigSaved
    BY <1>2 DEF ConfigSaved, CopiesChecked
<1>3. CASE SwitchGivenUp
    BY <1>3 DEF SwitchGivenUp, CopiesChecked, GivenUp, IdleJob
<1>4. CASE JournalSaved
    BY <1>4, ZenonT(60) DEF JournalSaved
<1>5. CASE JournalSaveFails
    BY <1>5 DEF JournalSaveFails, IdleJob
<1>6. CASE Restart
    <2>1. PICK down \in SUBSET Stores : job' = [job EXCEPT !.pc = "finish", !.tried = down]
        BY <1>6 DEF Restart
    <2>2. job' \in Jobs
        BY <2>1
    <2>3. serving' \in BOOLEAN
        BY <1>6 DEF Restart
    <2> QED
        BY <1>6, <2>1, <2>2, <2>3 DEF Restart
<1> QED
    BY <1>1, <1>2, <1>3, <1>4, <1>5, <1>6 DEF SwitchStep

\* No step of Finish breaks them.
LEMMA TypedFinish == ASSUME Typed, FinishStep PROVE Typed'
<1> USE DEF Typed, TypeOK, Running, Jobs, Journals
<1>1. ASSUME NEW s \in Stores, FinishStore(s) PROVE Typed'
    BY <1>1 DEF FinishStore, FilesOf, Listed
<1>2. ASSUME NEW s \in Stores, StoreKept(s) PROVE Typed'
    BY <1>2 DEF StoreKept
<1>3. ASSUME NEW f \in Files, Deleted(f) PROVE Typed'
    BY <1>3 DEF Deleted, Contents
<1>4. ASSUME NEW f \in Files, DeleteBusy(f) PROVE Typed'
    BY <1>4 DEF DeleteBusy
<1>5. ASSUME NEW f \in Files, OldKept(f) PROVE Typed'
    BY <1>5 DEF OldKept
<1>6. CASE StoreFinished
    <2>1. job.store \in Stores
        BY <1>6 DEF StoreFinished
    <2>2. journal' \in Journals
        BY <1>6, <2>1 DEF StoreFinished
    <2>3. job' \in Jobs /\ job'.hand = job.hand /\ job'.pc = "finish"
        BY <1>6, <2>1 DEF StoreFinished
    <2> QED
        BY <1>6, <2>2, <2>3 DEF StoreFinished
<1>7. CASE FinishEnds
    BY <1>7 DEF FinishEnds, IdleJob
<1>8. CASE FinishStopped
    BY <1>8 DEF FinishStopped, IdleJob
<1> QED
    BY <1>1, <1>2, <1>3, <1>4, <1>5, <1>6, <1>7, <1>8 DEF FinishStep

\* Neither do the panel and the world around.
LEMMA TypedOthers == ASSUME Typed, Panel \/ World PROVE Typed'
<1> USE DEF Typed, TypeOK, Running, Jobs, Journals, Contents
<1>1. CASE Move
    <2>1. job' = [IdleJob EXCEPT !.pc = "copy", !.todo = Listed(old)]
        BY <1>1 DEF Move
    <2>2. Listed(old) \in SUBSET Files
        BY DEF Listed
    <2>3. job' \in Jobs /\ job'.hand = None /\ job'.pc = "copy"
        BY <2>1, <2>2 DEF IdleJob
    <2>4. journal' \in Journals
        <3>1. CASE journal = None
            <4>1. journal' = [switched |-> FALSE, written |-> {}, done |-> {}]
                BY <1>1, <3>1 DEF Move
            <4>2. [switched |-> FALSE, written |-> {}, done |-> {}] \in Journals
                OBVIOUS
            <4> QED
                BY <4>1, <4>2
        <3>2. CASE journal # None
            BY <1>1, <3>2 DEF Move
        <3> QED
            BY <3>1, <3>2
    <2> QED
        BY <1>1, <2>3, <2>4 DEF Move
<1>2. CASE Finish
    BY <1>2 DEF Finish, MayFinish, IdleJob
<1>3. CASE Forget
    BY <1>3 DEF Forget, IdleJob
<1>4. ASSUME NEW f \in Files, ModelDeleted(f) PROVE Typed'
    BY <1>4 DEF ModelDeleted
<1>5. ASSUME NEW f \in Files, PersonClears(f) PROVE Typed'
    BY <1>5 DEF PersonClears
<1>6. ASSUME NEW f \in Files, NEW v \in Versions, Download(f, v) PROVE Typed'
    <2>1. CASE config = "old"
        <3>1. /\ want' = [want EXCEPT ![f] = v] /\ old' = [old EXCEPT ![f] = v]
              /\ newer' = [newer EXCEPT ![f] = TRUE]
              /\ UNCHANGED <<new, config, serving, journal, job>>
            BY <1>6, <2>1 DEF Download
        <3> QED
            BY <3>1
    <2>2. CASE config # "old"
        <3>1. /\ want' = [want EXCEPT ![f] = v] /\ new' = [new EXCEPT ![f] = v]
              /\ newer' = [newer EXCEPT ![f] = FALSE]
              /\ UNCHANGED <<old, config, serving, journal, job>>
            BY <1>6, <2>2 DEF Download
        <3> QED
            BY <3>1
    <2> QED
        BY <2>1, <2>2
<1>7. CASE Crash
    BY <1>7 DEF Crash, IdleJob
<1> QED
    BY <1>1, <1>2, <1>3, <1>4, <1>5, <1>6, <1>7 DEF Panel, World

\* Types for every behaviour, with the journal of a running job.
LEMMA TypedAlways == Spec => []Typed
<1>1. Typed /\ [Next]_vars => Typed'
    <2> SUFFICES ASSUME Typed, [Next]_vars PROVE Typed'
        OBVIOUS
    <2>1. CASE CopyStep
        BY <2>1, TypedCopy
    <2>2. CASE SwitchStep
        BY <2>2, TypedSwitch
    <2>3. CASE FinishStep
        BY <2>3, TypedFinish
    <2>4. CASE Panel \/ World
        BY <2>4, TypedOthers
    <2>5. CASE UNCHANGED vars
        BY <2>5 DEF vars, Typed, TypeOK, Running
    <2> QED
        BY <2>1, <2>2, <2>3, <2>4, <2>5 DEF Next, JobStep
<1> QED
    BY TypedInit, <1>1, PTL DEF Spec

\* The variables keep their types in every behaviour (storage.js, makeStorage).
THEOREM TypeCorrect == Spec => []TypeOK
BY TypedAlways, PTL DEF Typed

-----------------------------------------------------------------------------
(* The folder the farm runs from. *)

\* Every step of the copy keeps the invariant: recopying is where it is needed.
LEMMA WholeCopy == ASSUME CutBetweenSaves = {}, ReplacedWhileCopied = FALSE, Typed, Inv, CopyStep
                PROVE Inv'
<1> USE DEF Typed, TypeOK, Running, Inv, Jobs, Journals
<1>1. ASSUME NEW f \in Files, CopyKept(f) PROVE Inv'
    <2>1. Phases'
        BY <1>1 DEF CopyKept, At, Ours, Fresh, Phases
    <2>2. OldPossible'
        BY <1>1 DEF CopyKept, At, Ours, Fresh, OldPossible, Possible
    <2>3. FolderIsWhole'
        BY <1>1 DEF CopyKept, At, Ours, Fresh, FolderIsWhole, Phases
    <2>4. JournalRight'
        BY <1>1 DEF CopyKept, At, Ours, Fresh, JournalRight, Right, Phases, InHand
    <2>5. InHand'
        BY <1>1 DEF CopyKept, At, Ours, Fresh, InHand, Right, Phases, JournalRight
    <2>6. Recopied'
        BY <1>1 DEF CopyKept, At, Ours, Fresh, Recopied, Phases, OldPossible, Possible, InHand, JournalRight, Right
    <2> QED
        BY <2>1, <2>2, <2>3, <2>4, <2>5, <2>6, TypedCopy DEF CopyStep
<1>2. ASSUME NEW f \in Files, CopyAdopted(f) PROVE Inv'
    <2>1. Phases'
        BY <1>2 DEF CopyAdopted, At, SameBytes, Phases
    <2>2. OldPossible'
        BY <1>2 DEF CopyAdopted, At, SameBytes, OldPossible, Possible
    <2>3. FolderIsWhole'
        BY <1>2 DEF CopyAdopted, At, SameBytes, FolderIsWhole, Phases
    <2>4. JournalRight'
        BY <1>2 DEF CopyAdopted, At, SameBytes, JournalRight, Right, Phases, InHand
    <2>5. InHand'
        BY <1>2 DEF CopyAdopted, At, SameBytes, InHand, Right, Phases, JournalRight
    <2>6. Recopied'
        BY <1>2 DEF CopyAdopted, At, SameBytes, Recopied, Phases, OldPossible, Possible, InHand, JournalRight, Right
    <2> QED
        BY <2>1, <2>2, <2>3, <2>4, <2>5, <2>6, TypedCopy DEF CopyStep
<1>3. ASSUME NEW f \in Files, CopyRead(f) PROVE Inv'
    <2>1. Phases'
        BY <1>3 DEF CopyRead, At, Phases
    <2>2. OldPossible'
        BY <1>3 DEF CopyRead, At, OldPossible, Possible
    <2>3. FolderIsWhole'
        BY <1>3 DEF CopyRead, At, FolderIsWhole, Phases
    <2>4. JournalRight'
        BY <1>3 DEF CopyRead, At, JournalRight, Right, Phases, InHand
    <2>5. InHand'
        BY <1>3 DEF CopyRead, At, InHand, Right, Phases, OldPossible, Possible
    <2>6. Recopied'
        BY <1>3 DEF CopyRead, At, Recopied, Phases, OldPossible, Possible, InHand, JournalRight, Right
    <2> QED
        BY <2>1, <2>2, <2>3, <2>4, <2>5, <2>6, TypedCopy DEF CopyStep
<1>4. ASSUME NEW f \in Files, CopyDamaged(f) PROVE Inv'
    <2>1. Phases'
        BY <1>4 DEF CopyDamaged, At, Phases
    <2>2. OldPossible'
        BY <1>4 DEF CopyDamaged, At, OldPossible, Possible
    <2>3. FolderIsWhole'
        BY <1>4 DEF CopyDamaged, At, FolderIsWhole, Phases
    <2>4. JournalRight'
        BY <1>4 DEF CopyDamaged, At, JournalRight, Right, Phases, InHand
    <2>5. InHand'
        BY <1>4 DEF CopyDamaged, At, InHand, Right, Phases, JournalRight
    <2>6. Recopied'
        BY <1>4 DEF CopyDamaged, At, Recopied, Phases, OldPossible, Possible, InHand, JournalRight, Right
    <2> QED
        BY <2>1, <2>2, <2>3, <2>4, <2>5, <2>6, TypedCopy DEF CopyStep
<1>5. ASSUME NEW f \in Files, CopyBlocked(f) PROVE Inv'
    <2>1. Phases'
        BY <1>5 DEF CopyBlocked, GivenUp, IdleJob, At, Phases
    <2>2. OldPossible'
        BY <1>5 DEF CopyBlocked, GivenUp, IdleJob, At, OldPossible, Possible
    <2>3. FolderIsWhole'
        BY <1>5 DEF CopyBlocked, GivenUp, IdleJob, At, FolderIsWhole, Phases
    <2>4. JournalRight'
        BY <1>5 DEF CopyBlocked, GivenUp, IdleJob, At, JournalRight, Right, Phases, InHand
    <2>5. InHand'
        BY <1>5 DEF CopyBlocked, GivenUp, IdleJob, At, InHand, Right, Phases, JournalRight
    <2>6. Recopied'
        BY <1>5 DEF CopyBlocked, GivenUp, IdleJob, At, Recopied, Phases, OldPossible, Possible, InHand, JournalRight, Right
    <2> QED
        BY <2>1, <2>2, <2>3, <2>4, <2>5, <2>6, TypedCopy DEF CopyStep
<1>6. CASE CopyPlaced
    <2>1. Phases'
        BY <1>6 DEF CopyPlaced, Phases
    <2>2. OldPossible'
        BY <1>6 DEF CopyPlaced, OldPossible, Possible
    <2>3. FolderIsWhole'
        BY <1>6 DEF CopyPlaced, FolderIsWhole, Phases
    <2>4. JournalRight'
        BY <1>6 DEF CopyPlaced, JournalRight, Right, Phases, InHand
    <2>5. InHand'
        BY <1>6 DEF CopyPlaced, InHand, Right, Phases, JournalRight
    <2>6. Recopied'
        BY <1>6 DEF CopyPlaced, Recopied, Phases, OldPossible, Possible, InHand, JournalRight, Right
    <2> QED
        BY <2>1, <2>2, <2>3, <2>4, <2>5, <2>6, TypedCopy DEF CopyStep
<1>7. CASE CopyRecorded
    <2>1. Phases'
        BY <1>7 DEF CopyRecorded, Phases
    <2>2. OldPossible'
        BY <1>7 DEF CopyRecorded, OldPossible, Possible
    <2>3. FolderIsWhole'
        BY <1>7 DEF CopyRecorded, FolderIsWhole, Phases
    <2>4. JournalRight'
        BY <1>7 DEF CopyRecorded, JournalRight, Right, Phases, InHand
    <2>5. InHand'
        BY <1>7 DEF CopyRecorded, InHand, Right, Phases, JournalRight
    <2>6. Recopied'
        BY <1>7 DEF CopyRecorded, Recopied, Phases, OldPossible, Possible, InHand, JournalRight, Right
    <2> QED
        BY <2>1, <2>2, <2>3, <2>4, <2>5, <2>6, TypedCopy DEF CopyStep
<1>8. CASE CopyFails
    <2>1. Phases'
        BY <1>8 DEF CopyFails, GivenUp, IdleJob, Phases
    <2>2. OldPossible'
        BY <1>8 DEF CopyFails, GivenUp, IdleJob, OldPossible, Possible
    <2>3. FolderIsWhole'
        BY <1>8 DEF CopyFails, GivenUp, IdleJob, FolderIsWhole, Phases
    <2>4. JournalRight'
        BY <1>8 DEF CopyFails, GivenUp, IdleJob, JournalRight, Right, Phases, InHand
    <2>5. InHand'
        BY <1>8 DEF CopyFails, GivenUp, IdleJob, InHand, Right, Phases, JournalRight
    <2>6. Recopied'
        BY <1>8 DEF CopyFails, GivenUp, IdleJob, Recopied, Phases, OldPossible, Possible, InHand, JournalRight, Right
    <2> QED
        BY <2>1, <2>2, <2>3, <2>4, <2>5, <2>6, TypedCopy DEF CopyStep
<1> QED
    BY <1>1, <1>2, <1>3, <1>4, <1>5, <1>6, <1>7, <1>8 DEF CopyStep

\* So does the switch: it lists everything again, and saves only what was copied.
LEMMA WholeSwitch == ASSUME CutBetweenSaves = {}, ReplacedWhileCopied = FALSE, Typed, Inv, SwitchStep
                PROVE Inv'
<1> USE DEF Typed, TypeOK, Running, Inv, Jobs, Journals
<1>1. CASE Switch
    <2>1. Phases'
        BY <1>1 DEF Switch, Listed, Phases
    <2>2. OldPossible'
        BY <1>1 DEF Switch, Listed, OldPossible, Possible
    <2>3. FolderIsWhole'
        BY <1>1 DEF Switch, Listed, FolderIsWhole, Phases
    <2>4. JournalRight'
        BY <1>1 DEF Switch, Listed, JournalRight, Right, Phases, InHand
    <2>5. InHand'
        BY <1>1 DEF Switch, Listed, InHand, Right, Phases, JournalRight
    <2>6. Recopied'
        BY <1>1 DEF Switch, Listed, Recopied, Phases, OldPossible, Possible, InHand, JournalRight, Right
    <2> QED
        BY <2>1, <2>2, <2>3, <2>4, <2>5, <2>6, TypedSwitch DEF SwitchStep
<1>2. CASE ConfigSaved
    <2>1. Phases'
        BY <1>2 DEF ConfigSaved, CopiesChecked, Phases
    <2>2. OldPossible'
        BY <1>2 DEF ConfigSaved, CopiesChecked, OldPossible, Possible
    <2>3. FolderIsWhole'
        BY <1>2 DEF ConfigSaved, CopiesChecked, FolderIsWhole, Phases, Recopied
    <2>4. JournalRight'
        BY <1>2 DEF ConfigSaved, CopiesChecked, JournalRight, Right, Phases, InHand
    <2>5. InHand'
        BY <1>2 DEF ConfigSaved, CopiesChecked, InHand, Right, Phases, JournalRight
    <2>6. Recopied'
        BY <1>2 DEF ConfigSaved, CopiesChecked, Recopied, Phases, OldPossible, Possible, InHand, JournalRight, Right
    <2> QED
        BY <2>1, <2>2, <2>3, <2>4, <2>5, <2>6, TypedSwitch DEF SwitchStep
<1>3. CASE SwitchGivenUp
    <2>1. Phases'
        BY <1>3 DEF SwitchGivenUp, CopiesChecked, GivenUp, IdleJob, Phases
    <2>2. OldPossible'
        BY <1>3 DEF SwitchGivenUp, CopiesChecked, GivenUp, IdleJob, OldPossible, Possible
    <2>3. FolderIsWhole'
        BY <1>3 DEF SwitchGivenUp, CopiesChecked, GivenUp, IdleJob, FolderIsWhole, Phases
    <2>4. JournalRight'
        BY <1>3 DEF SwitchGivenUp, CopiesChecked, GivenUp, IdleJob, JournalRight, Right, Phases, InHand
    <2>5. InHand'
        BY <1>3 DEF SwitchGivenUp, CopiesChecked, GivenUp, IdleJob, InHand, Right, Phases, JournalRight
    <2>6. Recopied'
        BY <1>3 DEF SwitchGivenUp, CopiesChecked, GivenUp, IdleJob, Recopied, Phases, OldPossible, Possible, InHand, JournalRight, Right
    <2> QED
        BY <2>1, <2>2, <2>3, <2>4, <2>5, <2>6, TypedSwitch DEF SwitchStep
<1>4. CASE JournalSaved
    <2>1. Phases'
        BY <1>4, ZenonT(60) DEF JournalSaved, Phases
    <2>2. OldPossible'
        BY <1>4 DEF JournalSaved, OldPossible, Possible
    <2>3. FolderIsWhole'
        BY <1>4 DEF JournalSaved, FolderIsWhole, Phases
    <2>4. JournalRight'
        BY <1>4 DEF JournalSaved, JournalRight, Right, Phases, InHand
    <2>5. InHand'
        BY <1>4 DEF JournalSaved, InHand, Right, Phases, JournalRight
    <2>6. Recopied'
        BY <1>4 DEF JournalSaved, Recopied, Phases, OldPossible, Possible, InHand, JournalRight, Right
    <2> QED
        BY <2>1, <2>2, <2>3, <2>4, <2>5, <2>6, TypedSwitch DEF SwitchStep
<1>5. CASE JournalSaveFails
    <2>1. Phases'
        BY <1>5 DEF JournalSaveFails, IdleJob, Phases
    <2>2. OldPossible'
        BY <1>5 DEF JournalSaveFails, IdleJob, OldPossible, Possible
    <2>3. FolderIsWhole'
        BY <1>5 DEF JournalSaveFails, IdleJob, FolderIsWhole, Phases
    <2>4. JournalRight'
        BY <1>5 DEF JournalSaveFails, IdleJob, JournalRight, Right, Phases, InHand
    <2>5. InHand'
        BY <1>5 DEF JournalSaveFails, IdleJob, InHand, Right, Phases, JournalRight
    <2>6. Recopied'
        BY <1>5 DEF JournalSaveFails, IdleJob, Recopied, Phases, OldPossible, Possible, InHand, JournalRight, Right
    <2> QED
        BY <2>1, <2>2, <2>3, <2>4, <2>5, <2>6, TypedSwitch DEF SwitchStep
<1>6. CASE Restart
    <2>1. Phases'
        BY <1>6 DEF Restart, Phases
    <2>2. OldPossible'
        BY <1>6 DEF Restart, OldPossible, Possible
    <2>3. FolderIsWhole'
        BY <1>6 DEF Restart, FolderIsWhole, Phases
    <2>4. JournalRight'
        BY <1>6 DEF Restart, JournalRight, Right, Phases, InHand
    <2>5. InHand'
        BY <1>6 DEF Restart, InHand, Right, Phases, JournalRight
    <2>6. Recopied'
        BY <1>6 DEF Restart, Recopied, Phases, OldPossible, Possible, InHand, JournalRight, Right
    <2> QED
        BY <2>1, <2>2, <2>3, <2>4, <2>5, <2>6, TypedSwitch DEF SwitchStep
<1> QED
    BY <1>1, <1>2, <1>3, <1>4, <1>5, <1>6 DEF SwitchStep

\* So does Finish, which only touches the folder the farm has left.
LEMMA WholeFinish == ASSUME CutBetweenSaves = {}, ReplacedWhileCopied = FALSE, Typed, Inv, FinishStep
                PROVE Inv'
<1> USE DEF Typed, TypeOK, Running, Inv, Jobs, Journals
<1>1. ASSUME NEW s \in Stores, FinishStore(s) PROVE Inv'
    <2>1. Phases'
        BY <1>1 DEF FinishStore, Phases
    <2>2. OldPossible'
        BY <1>1 DEF FinishStore, OldPossible, Possible
    <2>3. FolderIsWhole'
        BY <1>1 DEF FinishStore, FolderIsWhole, Phases
    <2>4. JournalRight'
        BY <1>1 DEF FinishStore, JournalRight, Right, Phases, InHand
    <2>5. InHand'
        BY <1>1 DEF FinishStore, InHand, Right, Phases, JournalRight
    <2>6. Recopied'
        BY <1>1 DEF FinishStore, Recopied, Phases, OldPossible, Possible, InHand, JournalRight, Right
    <2> QED
        BY <2>1, <2>2, <2>3, <2>4, <2>5, <2>6, TypedFinish DEF FinishStep
<1>2. ASSUME NEW s \in Stores, StoreKept(s) PROVE Inv'
    <2>1. Phases'
        BY <1>2 DEF StoreKept, Phases
    <2>2. OldPossible'
        BY <1>2 DEF StoreKept, OldPossible, Possible
    <2>3. FolderIsWhole'
        BY <1>2 DEF StoreKept, FolderIsWhole, Phases
    <2>4. JournalRight'
        BY <1>2 DEF StoreKept, JournalRight, Right, Phases, InHand
    <2>5. InHand'
        BY <1>2 DEF StoreKept, InHand, Right, Phases, JournalRight
    <2>6. Recopied'
        BY <1>2 DEF StoreKept, Recopied, Phases, OldPossible, Possible, InHand, JournalRight, Right
    <2> QED
        BY <2>1, <2>2, <2>3, <2>4, <2>5, <2>6, TypedFinish DEF FinishStep
<1>3. ASSUME NEW f \in Files, Deleted(f) PROVE Inv'
    <2>1. Phases'
        BY <1>3 DEF Deleted, Phases
    <2>2. OldPossible'
        BY <1>3 DEF Deleted, OldPossible, Possible
    <2>3. FolderIsWhole'
        BY <1>3 DEF Deleted, FolderIsWhole, Phases
    <2>4. JournalRight'
        BY <1>3 DEF Deleted, JournalRight, Right, Phases, InHand
    <2>5. InHand'
        BY <1>3 DEF Deleted, InHand, Right, Phases, JournalRight
    <2>6. Recopied'
        BY <1>3 DEF Deleted, Recopied, Phases, OldPossible, Possible, InHand, JournalRight, Right
    <2> QED
        BY <2>1, <2>2, <2>3, <2>4, <2>5, <2>6, TypedFinish DEF FinishStep
<1>4. ASSUME NEW f \in Files, DeleteBusy(f) PROVE Inv'
    <2>1. Phases'
        BY <1>4 DEF DeleteBusy, Phases
    <2>2. OldPossible'
        BY <1>4 DEF DeleteBusy, OldPossible, Possible
    <2>3. FolderIsWhole'
        BY <1>4 DEF DeleteBusy, FolderIsWhole, Phases
    <2>4. JournalRight'
        BY <1>4 DEF DeleteBusy, JournalRight, Right, Phases, InHand
    <2>5. InHand'
        BY <1>4 DEF DeleteBusy, InHand, Right, Phases, JournalRight
    <2>6. Recopied'
        BY <1>4 DEF DeleteBusy, Recopied, Phases, OldPossible, Possible, InHand, JournalRight, Right
    <2> QED
        BY <2>1, <2>2, <2>3, <2>4, <2>5, <2>6, TypedFinish DEF FinishStep
<1>5. ASSUME NEW f \in Files, OldKept(f) PROVE Inv'
    <2>1. Phases'
        BY <1>5 DEF OldKept, Phases
    <2>2. OldPossible'
        BY <1>5 DEF OldKept, OldPossible, Possible
    <2>3. FolderIsWhole'
        BY <1>5 DEF OldKept, FolderIsWhole, Phases
    <2>4. JournalRight'
        BY <1>5 DEF OldKept, JournalRight, Right, Phases, InHand
    <2>5. InHand'
        BY <1>5 DEF OldKept, InHand, Right, Phases, JournalRight
    <2>6. Recopied'
        BY <1>5 DEF OldKept, Recopied, Phases, OldPossible, Possible, InHand, JournalRight, Right
    <2> QED
        BY <2>1, <2>2, <2>3, <2>4, <2>5, <2>6, TypedFinish DEF FinishStep
<1>6. CASE StoreFinished
    <2>1. Phases'
        BY <1>6 DEF StoreFinished, Phases
    <2>2. OldPossible'
        BY <1>6 DEF StoreFinished, OldPossible, Possible
    <2>3. FolderIsWhole'
        BY <1>6 DEF StoreFinished, FolderIsWhole, Phases
    <2>4. JournalRight'
        BY <1>6 DEF StoreFinished, JournalRight, Right, Phases, InHand
    <2>5. InHand'
        BY <1>6 DEF StoreFinished, InHand, Right, Phases, JournalRight
    <2>6. Recopied'
        BY <1>6 DEF StoreFinished, Recopied, Phases, OldPossible, Possible, InHand, JournalRight, Right
    <2> QED
        BY <2>1, <2>2, <2>3, <2>4, <2>5, <2>6, TypedFinish DEF FinishStep
<1>7. CASE FinishEnds
    <2>1. Phases'
        BY <1>7 DEF FinishEnds, IdleJob, Phases
    <2>2. OldPossible'
        BY <1>7 DEF FinishEnds, IdleJob, OldPossible, Possible
    <2>3. FolderIsWhole'
        BY <1>7 DEF FinishEnds, IdleJob, FolderIsWhole, Phases
    <2>4. JournalRight'
        BY <1>7 DEF FinishEnds, IdleJob, JournalRight, Right, Phases, InHand
    <2>5. InHand'
        BY <1>7 DEF FinishEnds, IdleJob, InHand, Right, Phases, JournalRight
    <2>6. Recopied'
        BY <1>7 DEF FinishEnds, IdleJob, Recopied, Phases, OldPossible, Possible, InHand, JournalRight, Right
    <2> QED
        BY <2>1, <2>2, <2>3, <2>4, <2>5, <2>6, TypedFinish DEF FinishStep
<1>8. CASE FinishStopped
    <2>1. Phases'
        BY <1>8 DEF FinishStopped, IdleJob, Phases
    <2>2. OldPossible'
        BY <1>8 DEF FinishStopped, IdleJob, OldPossible, Possible
    <2>3. FolderIsWhole'
        BY <1>8 DEF FinishStopped, IdleJob, FolderIsWhole, Phases
    <2>4. JournalRight'
        BY <1>8 DEF FinishStopped, IdleJob, JournalRight, Right, Phases, InHand
    <2>5. InHand'
        BY <1>8 DEF FinishStopped, IdleJob, InHand, Right, Phases, JournalRight
    <2>6. Recopied'
        BY <1>8 DEF FinishStopped, IdleJob, Recopied, Phases, OldPossible, Possible, InHand, JournalRight, Right
    <2> QED
        BY <2>1, <2>2, <2>3, <2>4, <2>5, <2>6, TypedFinish DEF FinishStep
<1> QED
    BY <1>1, <1>2, <1>3, <1>4, <1>5, <1>6, <1>7, <1>8 DEF FinishStep

\* So do the panel, downloads, deletions and crashes.
LEMMA WholeOthers == ASSUME CutBetweenSaves = {}, ReplacedWhileCopied = FALSE, Typed, Inv, Panel \/ World
                PROVE Inv'
<1> USE DEF Typed, TypeOK, Running, Inv, Jobs, Journals
<1>1. CASE Move
    <2>1. Phases'
        <3>1. config = "old" /\ config' = "old" /\ serving' = serving
            BY <1>1 DEF Move, Phases, IdleJob
        <3>2. job' = [IdleJob EXCEPT !.pc = "copy", !.todo = Listed(old)]
            BY <1>1 DEF Move
        <3>3. job'.pc = "copy" /\ job'.hand = None
            BY <3>2 DEF IdleJob
        <3>4. journal' \in Journals /\ ~journal'.switched
            <4>1. CASE journal = None
                <5>1. journal' = [switched |-> FALSE, written |-> {}, done |-> {}]
                    BY <1>1, <4>1 DEF Move
                <5> QED
                    BY <5>1
            <4>2. CASE journal # None
                BY <1>1, <4>2 DEF Move
            <4> QED
                BY <4>1, <4>2
        <3> QED
            BY <3>1, <3>3, <3>4 DEF Phases
    <2>2. OldPossible'
        BY <1>1 DEF Move, IdleJob, OldPossible, Possible
    <2>3. FolderIsWhole'
        BY <1>1 DEF Move, IdleJob, FolderIsWhole, Phases
    <2>4. JournalRight'
        BY <1>1 DEF Move, IdleJob, JournalRight, Right, Phases, InHand
    <2>5. InHand'
        BY <1>1 DEF Move, IdleJob, InHand, Right, Phases, JournalRight
    <2>6. Recopied'
        BY <1>1 DEF Move, IdleJob, Recopied, Phases, OldPossible, Possible, InHand, JournalRight, Right
    <2> QED
        BY <2>1, <2>2, <2>3, <2>4, <2>5, <2>6, TypedOthers DEF Panel, World
<1>2. CASE Finish
    <2>1. Phases'
        BY <1>2 DEF Finish, MayFinish, IdleJob, Phases
    <2>2. OldPossible'
        BY <1>2 DEF Finish, MayFinish, IdleJob, OldPossible, Possible
    <2>3. FolderIsWhole'
        BY <1>2 DEF Finish, MayFinish, IdleJob, FolderIsWhole, Phases
    <2>4. JournalRight'
        BY <1>2 DEF Finish, MayFinish, IdleJob, JournalRight, Right, Phases, InHand
    <2>5. InHand'
        BY <1>2 DEF Finish, MayFinish, IdleJob, InHand, Right, Phases, JournalRight
    <2>6. Recopied'
        BY <1>2 DEF Finish, MayFinish, IdleJob, Recopied, Phases, OldPossible, Possible, InHand, JournalRight, Right
    <2> QED
        BY <2>1, <2>2, <2>3, <2>4, <2>5, <2>6, TypedOthers DEF Panel, World
<1>3. CASE Forget
    <2>1. Phases'
        BY <1>3 DEF Forget, IdleJob, Phases
    <2>2. OldPossible'
        BY <1>3 DEF Forget, IdleJob, OldPossible, Possible
    <2>3. FolderIsWhole'
        BY <1>3 DEF Forget, IdleJob, FolderIsWhole, Phases
    <2>4. JournalRight'
        BY <1>3 DEF Forget, IdleJob, JournalRight, Right, Phases, InHand
    <2>5. InHand'
        BY <1>3 DEF Forget, IdleJob, InHand, Right, Phases, JournalRight
    <2>6. Recopied'
        BY <1>3 DEF Forget, IdleJob, Recopied, Phases, OldPossible, Possible, InHand, JournalRight, Right
    <2> QED
        BY <2>1, <2>2, <2>3, <2>4, <2>5, <2>6, TypedOthers DEF Panel, World
<1>4. ASSUME NEW f \in Files, ModelDeleted(f) PROVE Inv'
    <2>1. Phases'
        BY <1>4 DEF ModelDeleted, Phases
    <2>2. OldPossible'
        BY <1>4 DEF ModelDeleted, OldPossible, Possible
    <2>3. FolderIsWhole'
        BY <1>4 DEF ModelDeleted, FolderIsWhole, Phases
    <2>4. JournalRight'
        BY <1>4 DEF ModelDeleted, JournalRight, Right, Phases, InHand
    <2>5. InHand'
        BY <1>4 DEF ModelDeleted, InHand, Right, Phases, JournalRight
    <2>6. Recopied'
        BY <1>4 DEF ModelDeleted, Recopied, Phases, OldPossible, Possible, InHand, JournalRight, Right
    <2> QED
        BY <2>1, <2>2, <2>3, <2>4, <2>5, <2>6, TypedOthers DEF Panel, World
<1>5. ASSUME NEW f \in Files, PersonClears(f) PROVE Inv'
    <2>1. Phases'
        BY <1>5 DEF PersonClears, Phases
    <2>2. OldPossible'
        BY <1>5 DEF PersonClears, OldPossible, Possible
    <2>3. FolderIsWhole'
        BY <1>5 DEF PersonClears, FolderIsWhole, Phases
    <2>4. JournalRight'
        BY <1>5 DEF PersonClears, JournalRight, Right, Phases, InHand
    <2>5. InHand'
        BY <1>5 DEF PersonClears, InHand, Right, Phases, JournalRight
    <2>6. Recopied'
        BY <1>5 DEF PersonClears, Recopied, Phases, OldPossible, Possible, InHand, JournalRight, Right
    <2> QED
        BY <2>1, <2>2, <2>3, <2>4, <2>5, <2>6, TypedOthers DEF Panel, World
<1>6. ASSUME NEW f \in Files, NEW v \in Versions, Download(f, v) PROVE Inv'
    <2>1. Phases'
        BY <1>6 DEF Download, BeingRead, Phases
    <2>2. OldPossible'
        BY <1>6 DEF Download, BeingRead, OldPossible, Possible
    <2>3. FolderIsWhole'
        BY <1>6 DEF Download, BeingRead, FolderIsWhole, Phases
    <2>4. JournalRight'
        BY <1>6 DEF Download, BeingRead, JournalRight, Right, Phases, InHand
    <2>5. InHand'
        BY <1>6 DEF Download, BeingRead, InHand, Right, Phases, JournalRight
    <2>6. Recopied'
        BY <1>6 DEF Download, BeingRead, Recopied, Phases, OldPossible, Possible, InHand, JournalRight, Right
    <2> QED
        BY <2>1, <2>2, <2>3, <2>4, <2>5, <2>6, TypedOthers DEF Panel, World
<1>7. CASE Crash
    <2>1. Phases'
        BY <1>7 DEF Crash, IdleJob, Phases
    <2>2. OldPossible'
        BY <1>7 DEF Crash, IdleJob, OldPossible, Possible
    <2>3. FolderIsWhole'
        BY <1>7 DEF Crash, IdleJob, FolderIsWhole, Phases
    <2>4. JournalRight'
        BY <1>7 DEF Crash, IdleJob, JournalRight, Right, Phases, InHand
    <2>5. InHand'
        BY <1>7 DEF Crash, IdleJob, InHand, Right, Phases, JournalRight
    <2>6. Recopied'
        BY <1>7 DEF Crash, IdleJob, Recopied, Phases, OldPossible, Possible, InHand, JournalRight, Right
    <2> QED
        BY <2>1, <2>2, <2>3, <2>4, <2>5, <2>6, TypedOthers DEF Panel, World
<1> QED
    BY <1>1, <1>2, <1>3, <1>4, <1>5, <1>6, <1>7 DEF Panel, World

\* The invariant holds at first.
LEMMA WholeInit == Init => Inv
<1> SUFFICES ASSUME Init PROVE Inv
    OBVIOUS
<1>1. Phases
    BY DEF Init, IdleJob, Phases
<1>2. OldPossible /\ FolderIsWhole
    BY DEF Init, OldPossible, FolderIsWhole
<1>3. JournalRight /\ InHand /\ Recopied
    BY DEF Init, IdleJob, JournalRight, InHand, Recopied
<1> QED
    BY <1>1, <1>2, <1>3, TypedInit DEF Typed, Inv

\* Whatever is downloaded or deleted meanwhile and wherever a move is cut, the
\* folder the farm runs from holds what its users put there (copyStore,
\* switchRun, finishStore), unless something falls between the switch's two
\* saves or a file is replaced while it is copied.
THEOREM Whole ==
    ASSUME CutBetweenSaves = {}, ReplacedWhileCopied = FALSE
    PROVE  Spec => []FolderIsWhole
<1>1. Typed /\ Inv /\ [Next]_vars => Inv'
    <2> SUFFICES ASSUME Typed, Inv, [Next]_vars PROVE Inv'
        OBVIOUS
    <2>1. CASE CopyStep
        BY <2>1, WholeCopy
    <2>2. CASE SwitchStep
        BY <2>2, WholeSwitch
    <2>3. CASE FinishStep
        BY <2>3, WholeFinish
    <2>4. CASE Panel \/ World
        BY <2>4, WholeOthers
    <2>5. CASE UNCHANGED vars
        BY <2>5 DEF vars, Inv, TypeOK, Phases, OldPossible, FolderIsWhole, JournalRight, Right, InHand, Recopied
    <2> QED
        BY <2>1, <2>2, <2>3, <2>4, <2>5 DEF Next, JobStep
<1>2. Inv => FolderIsWhole
    BY DEF Inv
<1> QED
    BY TypedAlways, WholeInit, <1>1, <1>2, PTL DEF Spec

-----------------------------------------------------------------------------
(* What may be deleted and what may be written over: no assumption on cuts. *)

\* The old folder is left for good before anything is deleted in it.
Left ==
    /\ journal # None /\ journal.switched => config = "new"
    /\ job.pc \in {"saved", "restart", "finish", "delete"} => config = "new"

\* A copy about to be renamed into place meets nothing, or a file of this move.
PlaceFree ==
    config = "old" /\ job.hand # None /\ job.bytes # None
        => new[job.hand] = Absent \/ job.hand \in journal.written

Guarded == Left /\ PlaceFree

\* No step of the copy breaks this.
LEMMA GuardedCopy == ASSUME Typed, Guarded, CopyStep PROVE Guarded'
<1> USE DEF Typed, TypeOK, Running, Guarded, Jobs, Journals
<1>1. ASSUME NEW f \in Files, CopyKept(f) PROVE Guarded'
    <2>1. Left'
        BY <1>1 DEF CopyKept, At, Ours, Fresh, Left
    <2>2. PlaceFree'
        BY <1>1 DEF CopyKept, At, Ours, Fresh, PlaceFree, Left
    <2> QED
        BY <2>1, <2>2
<1>2. ASSUME NEW f \in Files, CopyAdopted(f) PROVE Guarded'
    <2>1. Left'
        BY <1>2 DEF CopyAdopted, At, SameBytes, Left
    <2>2. PlaceFree'
        BY <1>2 DEF CopyAdopted, At, SameBytes, PlaceFree, Left
    <2> QED
        BY <2>1, <2>2
<1>3. ASSUME NEW f \in Files, CopyRead(f) PROVE Guarded'
    <2>1. Left'
        BY <1>3 DEF CopyRead, At, CopyDue, Ours, Left
    <2>2. PlaceFree'
        BY <1>3 DEF CopyRead, At, CopyDue, Ours, PlaceFree, Left
    <2> QED
        BY <2>1, <2>2
<1>4. ASSUME NEW f \in Files, CopyDamaged(f) PROVE Guarded'
    <2>1. Left'
        BY <1>4 DEF CopyDamaged, At, Left
    <2>2. PlaceFree'
        BY <1>4 DEF CopyDamaged, At, PlaceFree, Left
    <2> QED
        BY <2>1, <2>2
<1>5. ASSUME NEW f \in Files, CopyBlocked(f) PROVE Guarded'
    <2>1. Left'
        BY <1>5 DEF CopyBlocked, GivenUp, IdleJob, At, Left
    <2>2. PlaceFree'
        BY <1>5 DEF CopyBlocked, GivenUp, IdleJob, At, PlaceFree, Left
    <2> QED
        BY <2>1, <2>2
<1>6. CASE CopyPlaced
    <2>1. Left'
        BY <1>6 DEF CopyPlaced, Left
    <2>2. PlaceFree'
        BY <1>6 DEF CopyPlaced, PlaceFree, Left
    <2> QED
        BY <2>1, <2>2
<1>7. CASE CopyRecorded
    <2>1. Left'
        BY <1>7 DEF CopyRecorded, Left
    <2>2. PlaceFree'
        BY <1>7 DEF CopyRecorded, PlaceFree, Left
    <2> QED
        BY <2>1, <2>2
<1>8. CASE CopyFails
    <2>1. Left'
        BY <1>8 DEF CopyFails, GivenUp, IdleJob, Left
    <2>2. PlaceFree'
        BY <1>8 DEF CopyFails, GivenUp, IdleJob, PlaceFree, Left
    <2> QED
        BY <2>1, <2>2
<1> QED
    BY <1>1, <1>2, <1>3, <1>4, <1>5, <1>6, <1>7, <1>8 DEF CopyStep

\* Nor does the switch.
LEMMA GuardedSwitch == ASSUME Typed, Guarded, SwitchStep PROVE Guarded'
<1> USE DEF Typed, TypeOK, Running, Guarded, Jobs, Journals
<1>1. CASE Switch
    <2>1. Left'
        BY <1>1 DEF Switch, Listed, Left
    <2>2. PlaceFree'
        BY <1>1 DEF Switch, Listed, PlaceFree, Left
    <2> QED
        BY <2>1, <2>2
<1>2. CASE ConfigSaved
    <2>1. Left'
        BY <1>2 DEF ConfigSaved, CopiesChecked, Left
    <2>2. PlaceFree'
        BY <1>2 DEF ConfigSaved, CopiesChecked, PlaceFree, Left
    <2> QED
        BY <2>1, <2>2
<1>3. CASE SwitchGivenUp
    <2>1. Left'
        BY <1>3 DEF SwitchGivenUp, CopiesChecked, GivenUp, IdleJob, Left
    <2>2. PlaceFree'
        BY <1>3 DEF SwitchGivenUp, CopiesChecked, GivenUp, IdleJob, PlaceFree, Left
    <2> QED
        BY <2>1, <2>2
<1>4. CASE JournalSaved
    <2>1. Left'
        BY <1>4 DEF JournalSaved, Left
    <2>2. PlaceFree'
        BY <1>4 DEF JournalSaved, PlaceFree, Left
    <2> QED
        BY <2>1, <2>2
<1>5. CASE JournalSaveFails
    <2>1. Left'
        BY <1>5 DEF JournalSaveFails, IdleJob, Left
    <2>2. PlaceFree'
        BY <1>5 DEF JournalSaveFails, IdleJob, PlaceFree, Left
    <2> QED
        BY <2>1, <2>2
<1>6. CASE Restart
    <2>1. Left'
        BY <1>6 DEF Restart, Left
    <2>2. PlaceFree'
        BY <1>6 DEF Restart, PlaceFree, Left
    <2> QED
        BY <2>1, <2>2
<1> QED
    BY <1>1, <1>2, <1>3, <1>4, <1>5, <1>6 DEF SwitchStep

\* Nor does Finish.
LEMMA GuardedFinish == ASSUME Typed, Guarded, FinishStep PROVE Guarded'
<1> USE DEF Typed, TypeOK, Running, Guarded, Jobs, Journals
<1>1. ASSUME NEW s \in Stores, FinishStore(s) PROVE Guarded'
    <2>1. Left'
        BY <1>1 DEF FinishStore, Left
    <2>2. PlaceFree'
        BY <1>1 DEF FinishStore, PlaceFree, Left
    <2> QED
        BY <2>1, <2>2
<1>2. ASSUME NEW s \in Stores, StoreKept(s) PROVE Guarded'
    <2>1. Left'
        BY <1>2 DEF StoreKept, Left
    <2>2. PlaceFree'
        BY <1>2 DEF StoreKept, PlaceFree, Left
    <2> QED
        BY <2>1, <2>2
<1>3. ASSUME NEW f \in Files, Deleted(f) PROVE Guarded'
    <2>1. Left'
        BY <1>3 DEF Deleted, Left
    <2>2. PlaceFree'
        BY <1>3 DEF Deleted, PlaceFree, Left
    <2> QED
        BY <2>1, <2>2
<1>4. ASSUME NEW f \in Files, DeleteBusy(f) PROVE Guarded'
    <2>1. Left'
        BY <1>4 DEF DeleteBusy, Left
    <2>2. PlaceFree'
        BY <1>4 DEF DeleteBusy, PlaceFree, Left
    <2> QED
        BY <2>1, <2>2
<1>5. ASSUME NEW f \in Files, OldKept(f) PROVE Guarded'
    <2>1. Left'
        BY <1>5 DEF OldKept, Left
    <2>2. PlaceFree'
        BY <1>5 DEF OldKept, PlaceFree, Left
    <2> QED
        BY <2>1, <2>2
<1>6. CASE StoreFinished
    <2>1. Left'
        BY <1>6 DEF StoreFinished, Left
    <2>2. PlaceFree'
        BY <1>6 DEF StoreFinished, PlaceFree, Left
    <2> QED
        BY <2>1, <2>2
<1>7. CASE FinishEnds
    <2>1. Left'
        BY <1>7 DEF FinishEnds, IdleJob, Left
    <2>2. PlaceFree'
        BY <1>7 DEF FinishEnds, IdleJob, PlaceFree, Left
    <2> QED
        BY <2>1, <2>2
<1>8. CASE FinishStopped
    <2>1. Left'
        BY <1>8 DEF FinishStopped, IdleJob, Left
    <2>2. PlaceFree'
        BY <1>8 DEF FinishStopped, IdleJob, PlaceFree, Left
    <2> QED
        BY <2>1, <2>2
<1> QED
    BY <1>1, <1>2, <1>3, <1>4, <1>5, <1>6, <1>7, <1>8 DEF FinishStep

\* Nor do the panel and the world around.
LEMMA GuardedOthers == ASSUME Typed, Guarded, Panel \/ World PROVE Guarded'
<1> USE DEF Typed, TypeOK, Running, Guarded, Jobs, Journals
<1>1. CASE Move
    <2>1. job' = [IdleJob EXCEPT !.pc = "copy", !.todo = Listed(old)]
        BY <1>1 DEF Move
    <2>2. job'.pc = "copy" /\ job'.hand = None
        BY <2>1 DEF IdleJob
    <2>3. ~journal'.switched
        <3>1. CASE journal = None
            <4>1. journal' = [switched |-> FALSE, written |-> {}, done |-> {}]
                BY <1>1, <3>1 DEF Move
            <4> QED
                BY <4>1
        <3>2. CASE journal # None
            BY <1>1, <3>2 DEF Move
        <3> QED
            BY <3>1, <3>2
    <2> QED
        BY <2>2, <2>3 DEF Left, PlaceFree
<1>2. CASE Finish
    <2>1. Left'
        BY <1>2 DEF Finish, MayFinish, IdleJob, Left
    <2>2. PlaceFree'
        BY <1>2 DEF Finish, MayFinish, IdleJob, PlaceFree, Left
    <2> QED
        BY <2>1, <2>2
<1>3. CASE Forget
    <2>1. Left'
        BY <1>3 DEF Forget, IdleJob, Left
    <2>2. PlaceFree'
        BY <1>3 DEF Forget, IdleJob, PlaceFree, Left
    <2> QED
        BY <2>1, <2>2
<1>4. ASSUME NEW f \in Files, ModelDeleted(f) PROVE Guarded'
    <2>1. Left'
        BY <1>4 DEF ModelDeleted, Left
    <2>2. PlaceFree'
        BY <1>4 DEF ModelDeleted, PlaceFree, Left
    <2> QED
        BY <2>1, <2>2
<1>5. ASSUME NEW f \in Files, PersonClears(f) PROVE Guarded'
    <2>1. Left'
        BY <1>5 DEF PersonClears, Left
    <2>2. PlaceFree'
        BY <1>5 DEF PersonClears, PlaceFree, Left
    <2> QED
        BY <2>1, <2>2
<1>6. ASSUME NEW f \in Files, NEW v \in Versions, Download(f, v) PROVE Guarded'
    <2>1. Left'
        BY <1>6 DEF Download, BeingRead, Left
    <2>2. PlaceFree'
        BY <1>6 DEF Download, BeingRead, PlaceFree, Left
    <2> QED
        BY <2>1, <2>2
<1>7. CASE Crash
    <2>1. Left'
        BY <1>7 DEF Crash, IdleJob, Left
    <2>2. PlaceFree'
        BY <1>7 DEF Crash, IdleJob, PlaceFree, Left
    <2> QED
        BY <2>1, <2>2
<1> QED
    BY <1>1, <1>2, <1>3, <1>4, <1>5, <1>6, <1>7 DEF Panel, World

\* What may be deleted and written over, in every behaviour.
LEMMA GuardedAlways == Spec => [](Typed /\ Guarded)
<1>1. Init => Guarded
    BY DEF Init, IdleJob, Guarded, Left, PlaceFree
<1>2. Typed /\ Guarded /\ [Next]_vars => Guarded'
    <2> SUFFICES ASSUME Typed, Guarded, [Next]_vars PROVE Guarded'
        OBVIOUS
    <2>1. CASE CopyStep
        BY <2>1, GuardedCopy
    <2>2. CASE SwitchStep
        BY <2>2, GuardedSwitch
    <2>3. CASE FinishStep
        BY <2>3, GuardedFinish
    <2>4. CASE Panel \/ World
        BY <2>4, GuardedOthers
    <2>5. CASE UNCHANGED vars
        BY <2>5 DEF vars, Guarded, Left, PlaceFree
    <2> QED
        BY <2>1, <2>2, <2>3, <2>4, <2>5 DEF Next, JobStep
<1> QED
    BY TypedAlways, <1>1, <1>2, PTL DEF Spec

\* What changes the new folder.
LEMMA NewChanges ==
    ASSUME Next, new' # new
    PROVE  CopyPlaced \/ \E f \in Files : \/ ModelDeleted(f) \/ PersonClears(f)
                                          \/ \E v \in Versions : Download(f, v)
BY DEF CopyStep, SwitchStep, FinishStep, JobStep, Panel, World, Next, ConfigSaved,
       CopyAdopted, CopyBlocked, CopyDamaged, CopyFails, CopyKept, CopyRead, CopyRecorded,
       Crash, DeleteBusy, Deleted, Finish, FinishEnds, FinishStopped, FinishStore, Forget,
       JournalSaveFails, JournalSaved, Move, OldKept, Restart, StoreFinished, StoreKept,
       Switch, SwitchGivenUp

\* What changes the old folder.
LEMMA OldChanges ==
    ASSUME Next, old' # old
    PROVE  \E f \in Files : Deleted(f) \/ ModelDeleted(f) \/ \E v \in Versions : Download(f, v)
BY DEF CopyStep, SwitchStep, FinishStep, JobStep, Panel, World, Next, ConfigSaved,
       CopyAdopted, CopyBlocked, CopyDamaged, CopyFails, CopyKept, CopyPlaced, CopyRead,
       CopyRecorded, Crash, DeleteBusy, Finish, FinishEnds, FinishStopped, FinishStore,
       Forget, JournalSaveFails, JournalSaved, Move, OldKept, PersonClears, Restart,
       StoreFinished, StoreKept, Switch, SwitchGivenUp

\* Somebody else's file in the new folder is never written over (copyStore),
\* whatever falls between the switch's saves.
THEOREM Clobbers == Spec => NeverClobbers
<1> DEFINE A == \A f \in Files :
                   config = "old" /\ new[f] # Absent /\ new'[f] \notin {Absent, new[f]}
                      => journal # None /\ f \in journal.written
<1>1. Typed /\ Guarded /\ [Next]_vars => [A]_vars
    <2> SUFFICES ASSUME Typed, Guarded, Next, NEW f \in Files,
                        config = "old", new[f] # Absent, new'[f] \notin {Absent, new[f]}
                 PROVE  journal # None /\ f \in journal.written
        OBVIOUS
    <2> USE DEF Typed, TypeOK, Running, Guarded
    <2>1. CASE CopyPlaced
        BY <2>1 DEF CopyPlaced, PlaceFree, Jobs
    <2>2. ASSUME NEW g \in Files, ModelDeleted(g) PROVE FALSE
        BY <2>2 DEF ModelDeleted
    <2>3. ASSUME NEW g \in Files, PersonClears(g) PROVE FALSE
        BY <2>3 DEF PersonClears
    <2>4. ASSUME NEW g \in Files, NEW v \in Versions, Download(g, v) PROVE FALSE
        BY <2>4 DEF Download
    <2> QED
        BY <2>1, <2>2, <2>3, <2>4, NewChanges
<1> QED
    BY GuardedAlways, <1>1, PTL DEF Spec, NeverClobbers

\* Until the farm runs from the new folder the old one loses nothing to the
\* move (storageFinish, finishStore), whatever falls between its saves.
THEOREM Keeps == Spec => OldFolderKept
<1> DEFINE A == \A f \in Files :
                   config = "old" /\ old[f] # Absent /\ old'[f] = Absent => want'[f] = Absent
<1>1. Typed /\ Guarded /\ [Next]_vars => [A]_vars
    <2> SUFFICES ASSUME Typed, Guarded, Next, NEW f \in Files,
                        config = "old", old[f] # Absent, old'[f] = Absent
                 PROVE  want'[f] = Absent
        OBVIOUS
    <2> USE DEF Typed, TypeOK, Guarded
    <2>1. ASSUME NEW g \in Files, Deleted(g) PROVE FALSE
        BY <2>1 DEF Deleted, Left
    <2>2. ASSUME NEW g \in Files, ModelDeleted(g) PROVE want'[f] = Absent
        BY <2>2 DEF ModelDeleted
    <2>3. ASSUME NEW g \in Files, NEW v \in Versions, Download(g, v) PROVE FALSE
        BY <2>3 DEF Download
    <2> QED
        BY <2>1, <2>2, <2>3, OldChanges
<1> QED
    BY GuardedAlways, <1>1, PTL DEF Spec, OldFolderKept

\* An old copy goes only when the new folder has its file, or when the farm's
\* users delete it (deleteMoved): also after a crash, a Finish taken up again
\* or a new copy that went meanwhile.
THEOREM CopiesFirst == Spec => NoCopyNoDelete
<1> DEFINE A == \A f \in Files :
                   old[f] # Absent /\ old'[f] = Absent => new[f] # Absent \/ want'[f] = Absent
<1>1. Typed /\ [Next]_vars => [A]_vars
    <2> SUFFICES ASSUME Typed, Next, NEW f \in Files, old[f] # Absent, old'[f] = Absent
                 PROVE  new[f] # Absent \/ want'[f] = Absent
        OBVIOUS
    <2> USE DEF Typed, TypeOK
    <2>1. ASSUME NEW g \in Files, Deleted(g) PROVE new[f] # Absent
        BY <2>1 DEF Deleted, HasCopy, SameSize
    <2>2. ASSUME NEW g \in Files, ModelDeleted(g) PROVE want'[f] = Absent
        BY <2>2 DEF ModelDeleted
    <2>3. ASSUME NEW g \in Files, NEW v \in Versions, Download(g, v) PROVE FALSE
        BY <2>3 DEF Download
    <2> QED
        BY <2>1, <2>2, <2>3, OldChanges
<1> QED
    BY TypedAlways, <1>1, PTL DEF Spec, NoCopyNoDelete

=============================================================================
