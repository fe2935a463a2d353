----------------------------- MODULE StorageMove -----------------------------
(***************************************************************************)
(* Move here: the farm's model files move to another folder while it      *)
(* serves (farm/src/storage.js, makeStorage in farm/src/commands/up.js).   *)
(* Copy everything; stop what uses the files; copy what changed; check     *)
(* every copy; save the new folder in the farm's config; start again; and  *)
(* only then delete the old copies, store by store. A journal beside the   *)
(* config lets a move that was cut short go on.                            *)
(*                                                                         *)
(* The disk and the journal survive a crash, the job does not. A step is   *)
(* what the code does between two points a crash can tell apart: one file  *)
(* renamed into place, one journal written, one file deleted.              *)
(*                                                                         *)
(* Abstractions: a file's bytes are a version, some versions are of one    *)
(* size; modification times only matter as "the original is newer than     *)
(* its copy". The two folders are apart and have room. Ollama's folder     *)
(* with its manifests, vLLM's link and the links of Hugging Face's caches  *)
(* are not here.                                                           *)
(***************************************************************************)
EXTENDS Naturals, FiniteSets

CONSTANTS
    Files,               \* the names of the model files
    Stores,              \* gguf, stt, classify, kokoro
    StoreOf,             \* the store of a file
    Versions,            \* what a file can hold
    Size,                \* the size of a version
    Small,               \* files under SMALL: compared byte for byte
    Pinned,              \* files whose sha256 the farm knows
    Good,                \* the version that sha256 is of
    Bad,                 \* a damaged version of a pinned file
    Absent,              \* no such file
    None,                \* nothing
    CutBetweenSaves,     \* what may fall between the switch's two saves
    ReplacedWhileCopied  \* whether a file may be replaced while it is copied, by
                         \* one last written before the copy was

\* The move's journal: the config was switched, the files this move wrote, the
\* stores whose old copy is gone.
Journals == [switched : BOOLEAN, written : SUBSET Files, done : SUBSET Stores]

ASSUME StorageMoveAssumption ==
    /\ IsFiniteSet(Files) /\ IsFiniteSet(Stores)
    /\ StoreOf \in [Files -> Stores]
    /\ Size \in [Versions \cup {Bad} -> Nat]
    /\ Small \subseteq Files /\ Pinned \subseteq Files
    /\ Good \in Versions /\ Bad \notin Versions
    /\ Absent \notin Versions \cup {Bad}
    /\ None \notin Files \cup Stores \cup Versions \cup {Bad, Absent} \cup Journals
    /\ CutBetweenSaves \subseteq {"crash", "fails"}
    /\ ReplacedWhileCopied \in BOOLEAN

Contents == Versions \cup {Bad, Absent}

\* What may be in a file: a pinned one is whole, damaged or absent.
Possible(f) == IF f \in Pinned THEN {Good, Bad, Absent} ELSE Versions \cup {Absent}

VARIABLES
    old,      \* old[f]: the file in the folder the farm ran from at first
    new,      \* new[f]: the file in the folder it moves to
    newer,    \* newer[f]: the original's mtime is after the copy's
    config,   \* storage.dir of the farm's config: "old" or "new"
    serving,  \* whether what uses the files runs
    journal,  \* .lol-storage-move.json, or None
    job,      \* the move or the Finish under way
    want      \* history: what the farm's users last put in a file

vars == <<old, new, newer, config, serving, journal, job, want>>

\* hand is the file copyFile() is at and bytes what it read of it; bytes is None
\* once the copy is in place and not yet in the journal. stopped says that the
\* switch stopped what uses the files.
IdleJob == [pc |-> "idle", todo |-> {}, hand |-> None, bytes |-> None, damaged |-> {},
            store |-> None, tried |-> {}, busy |-> FALSE, stopped |-> FALSE]

Jobs == [pc : {"idle", "copy", "recopy", "saved", "restart", "finish", "delete"},
         todo : SUBSET Files, hand : Files \cup {None}, bytes : Contents \cup {None},
         damaged : SUBSET Files, store : Stores \cup {None}, tried : SUBSET Stores,
         busy : BOOLEAN, stopped : BOOLEAN]

TypeOK ==
    /\ old \in [Files -> Contents]
    /\ new \in [Files -> Contents]
    /\ newer \in [Files -> BOOLEAN]
    /\ config \in {"old", "new"}
    /\ serving \in BOOLEAN
    /\ journal \in Journals \cup {None}
    /\ job \in Jobs
    /\ want \in [Files -> Contents]

Init ==
    /\ old \in [Files -> Contents] /\ new \in [Files -> Contents]
    /\ \A f \in Files : old[f] \in Possible(f) /\ new[f] \in Possible(f)
    /\ newer \in [Files -> BOOLEAN]
    /\ config = "old"
    /\ serving = TRUE
    /\ journal = None
    /\ job = IdleJob
    /\ want = old

-----------------------------------------------------------------------------
(* What storage.js reads off the disk. *)

\* listFiles()
Listed(dir) == {f \in Files : dir[f] # Absent}

SameSize(a, b) == a # Absent /\ b # Absent /\ Size[a] = Size[b]

\* The copy of f checks out as verifyStore() sees it.
Verified(f) ==
    /\ SameSize(old[f], new[f])
    /\ f \in Small => old[f] = new[f]
    /\ f \in Pinned => new[f] = Good

\* Mutant: the modification times are not compared.
Fresh_NoTimes(f) == SameSize(old[f], new[f]) /\ (f \in Small => old[f] = new[f])

\* A copy this move wrote that need not be written again.
Fresh(f) ==
    /\ SameSize(old[f], new[f])
    /\ ~newer[f]
    /\ f \in Small => old[f] = new[f]

\* A file this move did not write counts as the copy when its bytes are the
\* original's: the known sum, or the sha256 of both.
SameBytes(f) ==
    /\ SameSize(old[f], new[f])
    /\ new[f] = IF f \in Pinned THEN Good ELSE old[f]

-----------------------------------------------------------------------------
(* Move here: the copy. *)

\* A new move, or one cut short before its switch: the journal goes to the disk
\* and the files are listed.
Move ==
    /\ job = IdleJob
    /\ IF journal = None
       THEN /\ config = "old"
            /\ journal' = [switched |-> FALSE, written |-> {}, done |-> {}]
       ELSE ~journal.switched /\ UNCHANGED journal
    /\ job' = [IdleJob EXCEPT !.pc = "copy", !.todo = Listed(old)]
    /\ UNCHANGED <<old, new, newer, config, serving, want>>

\* copyStore() is at file f.
At(f) == job.pc \in {"copy", "recopy"} /\ job.hand = None /\ f \in job.todo

Ours(f) == f \in journal.written

\* Its copy is good already.
CopyKept(f) ==
    /\ At(f)
    /\ new[f] # Absent /\ Ours(f) /\ Fresh(f)
    /\ job' = [job EXCEPT !.todo = @ \ {f}]
    /\ UNCHANGED <<old, new, newer, config, serving, journal, want>>

\* A file somebody else left there is the copy: it goes in the journal.
CopyAdopted(f) ==
    /\ At(f)
    /\ new[f] # Absent /\ ~Ours(f) /\ SameBytes(f)
    /\ job' = [job EXCEPT !.todo = @ \ {f}]
    /\ journal' = [journal EXCEPT !.written = @ \cup {f}]
    /\ UNCHANGED <<old, new, newer, config, serving, want>>

\* Mutant: whatever is there is written over.
CopyDue_Always(f) == new[f] = Absent \/ ~Ours(f) \/ ~Fresh(f)

\* There is no copy, or it is ours and no good any more.
CopyDue(f) == new[f] = Absent \/ (Ours(f) /\ ~Fresh(f))

\* It is copied: read ...
CopyRead(f) ==
    /\ At(f) /\ CopyDue(f)
    /\ old[f] # Absent /\ ~(f \in Pinned /\ old[f] = Bad)
    /\ job' = [job EXCEPT !.todo = @ \ {f}, !.hand = f, !.bytes = old[f]]
    /\ UNCHANGED <<old, new, newer, config, serving, journal, want>>

\* ... renamed into place ...
CopyPlaced ==
    /\ job.hand # None /\ job.bytes # None
    /\ new' = [new EXCEPT ![job.hand] = job.bytes]
    /\ newer' = [newer EXCEPT ![job.hand] = FALSE]
    /\ job' = [job EXCEPT !.bytes = None]
    /\ UNCHANGED <<old, config, serving, journal, want>>

\* ... and written in the journal.
CopyRecorded ==
    /\ job.hand # None /\ job.bytes = None
    /\ journal' = [journal EXCEPT !.written = @ \cup {job.hand}]
    /\ job' = [job EXCEPT !.hand = None]
    /\ UNCHANGED <<old, new, newer, config, serving, want>>

\* Its checksum differs already: left where it is.
CopyDamaged(f) ==
    /\ At(f) /\ CopyDue(f)
    /\ f \in Pinned /\ old[f] = Bad
    /\ job' = [job EXCEPT !.todo = @ \ {f}, !.damaged = @ \cup {f}]
    /\ UNCHANGED <<old, new, newer, config, serving, journal, want>>

\* Mutant: what the switch stopped is not started again.
GivenUp_StaysDown == job' = IdleJob /\ UNCHANGED serving

\* The job ends without a switch; what it stopped starts again.
GivenUp == job' = IdleJob /\ serving' = (serving \/ job.stopped)

\* Somebody else's file is in the way, or the original is gone meanwhile.
CopyBlocked(f) ==
    /\ At(f)
    /\ \/ new[f] # Absent /\ ~Ours(f) /\ ~SameBytes(f)
       \/ CopyDue(f) /\ old[f] = Absent
    /\ GivenUp
    /\ UNCHANGED <<old, new, newer, config, journal, want>>

\* A read or a write that fails; while the farm serves, the panel's Stop too.
CopyFails ==
    /\ job.pc \in {"copy", "recopy"}
    /\ GivenUp
    /\ UNCHANGED <<old, new, newer, config, journal, want>>

-----------------------------------------------------------------------------
(* Move here: the switch. *)

\* What uses the files stops, and the folder is listed again.
Switch ==
    /\ job.pc = "copy" /\ job.todo = {} /\ job.hand = None
    /\ serving' = FALSE
    /\ job' = [job EXCEPT !.pc = "recopy", !.todo = Listed(old), !.stopped = serving]
    /\ UNCHANGED <<old, new, newer, config, journal, want>>

CopiesChecked == job.pc = "recopy" /\ job.todo = {} /\ job.hand = None

\* Every file but the damaged ones checks out.
CopiesGood == \A f \in Listed(old) \ job.damaged : Verified(f)

\* Every copy is good: the new folder goes in the farm's config.
ConfigSaved ==
    /\ CopiesChecked /\ CopiesGood
    /\ config' = "new"
    /\ job' = [job EXCEPT !.pc = "saved"]
    /\ UNCHANGED <<old, new, newer, serving, journal, want>>

\* A copy is not all right, or the config cannot be written.
SwitchGivenUp ==
    /\ CopiesChecked
    /\ GivenUp
    /\ UNCHANGED <<old, new, newer, config, journal, want>>

\* The journal says so, right after.
JournalSaved ==
    /\ job.pc = "saved"
    /\ journal' = [journal EXCEPT !.switched = TRUE]
    /\ job' = [job EXCEPT !.pc = "restart"]
    /\ UNCHANGED <<old, new, newer, config, serving, want>>

\* That write throws: the job is over, and startAgain() was not reached.
JournalSaveFails ==
    /\ "fails" \in CutBetweenSaves
    /\ job.pc = "saved"
    /\ job' = IdleJob
    /\ UNCHANGED <<old, new, newer, config, serving, journal, want>>

\* startAgain(): some users may not come back, their stores are kept.
Restart ==
    /\ job.pc = "restart"
    /\ serving' = (serving \/ job.stopped)
    /\ \E down \in SUBSET Stores : job' = [job EXCEPT !.pc = "finish", !.tried = down]
    /\ UNCHANGED <<old, new, newer, config, journal, want>>

-----------------------------------------------------------------------------
(* Finish: the old copies go, store by store. *)

\* Mutant: Finish does not ask the journal whether the farm switched.
MayFinish_Unswitched == job = IdleJob /\ journal # None

MayFinish == job = IdleJob /\ journal # None /\ journal.switched

\* The panel's Finish, after a move that was cut or kept something.
Finish ==
    /\ MayFinish
    /\ job' = [IdleJob EXCEPT !.pc = "finish"]
    /\ UNCHANGED <<old, new, newer, config, serving, journal, want>>

FilesOf(s) == {f \in Listed(old) : StoreOf[f] = s}

\* finishStore(): a store whose copies check out is deleted file by file.
FinishStore(s) ==
    /\ job.pc = "finish" /\ s \notin journal.done \cup job.tried
    /\ \A f \in FilesOf(s) \ job.damaged : new[f] # Absent => Verified(f)
    /\ job' = [job EXCEPT !.pc = "delete", !.store = s, !.todo = FilesOf(s), !.busy = FALSE]
    /\ UNCHANGED <<old, new, newer, config, serving, journal, want>>

\* One whose copies do not is kept whole.
StoreKept(s) ==
    /\ job.pc = "finish" /\ s \notin journal.done \cup job.tried
    /\ \E f \in FilesOf(s) \ job.damaged : new[f] # Absent /\ ~Verified(f)
    /\ job' = [job EXCEPT !.tried = @ \cup {s}]
    /\ UNCHANGED <<old, new, newer, config, serving, journal, want>>

\* Mutant: an old copy goes without a look at its copy.
HasCopy_Blind(f) == TRUE

\* deleteMoved() looks at the copy once more.
HasCopy(f) == SameSize(old[f], new[f])

\* The old copy of f goes ...
Deleted(f) ==
    /\ job.pc = "delete" /\ f \in job.todo
    /\ HasCopy(f)
    /\ old' = [old EXCEPT ![f] = Absent]
    /\ job' = [job EXCEPT !.todo = @ \ {f}]
    /\ UNCHANGED <<new, newer, config, serving, journal, want>>

\* ... or is in use (Windows) ...
DeleteBusy(f) ==
    /\ job.pc = "delete" /\ f \in job.todo
    /\ HasCopy(f)
    /\ job' = [job EXCEPT !.todo = @ \ {f}, !.busy = TRUE]
    /\ UNCHANGED <<old, new, newer, config, serving, journal, want>>

\* ... or is kept: there is no copy, or it differs.
OldKept(f) ==
    /\ job.pc = "delete" /\ f \in job.todo
    /\ ~HasCopy(f)
    /\ job' = [job EXCEPT !.todo = @ \ {f}]
    /\ UNCHANGED <<old, new, newer, config, serving, journal, want>>

\* Mutant: a store with something busy is taken up again at once.
StoreFinished_Retry ==
    /\ job.pc = "delete" /\ job.todo = {}
    /\ journal' = IF job.busy THEN journal
                  ELSE [journal EXCEPT !.done = @ \cup {job.store}]
    /\ job' = [job EXCEPT !.pc = "finish", !.store = None, !.busy = FALSE]
    /\ UNCHANGED <<old, new, newer, config, serving, want>>

\* The store is done unless something was busy; the journal is saved.
StoreFinished ==
    /\ job.pc = "delete" /\ job.todo = {}
    /\ journal' = IF job.busy THEN journal
                  ELSE [journal EXCEPT !.done = @ \cup {job.store}]
    /\ job' = [job EXCEPT !.pc = "finish", !.store = None, !.busy = FALSE,
                          !.tried = @ \cup {job.store}]
    /\ UNCHANGED <<old, new, newer, config, serving, want>>

\* Every store was seen: the journal goes once all are done.
FinishEnds ==
    /\ job.pc = "finish" /\ Stores \subseteq journal.done \cup job.tried
    /\ journal' = IF Stores \subseteq journal.done THEN None ELSE journal
    /\ job' = IdleJob
    /\ UNCHANGED <<old, new, newer, config, serving, want>>

\* The panel's Stop between two stores.
FinishStopped ==
    /\ job.pc = "finish"
    /\ job' = IdleJob
    /\ UNCHANGED <<old, new, newer, config, serving, journal, want>>

\* Forget it: the journal goes, nothing is deleted.
Forget ==
    /\ job = IdleJob /\ journal # None
    /\ journal' = None
    /\ UNCHANGED <<old, new, newer, config, serving, job, want>>

-----------------------------------------------------------------------------
(* The people and programs around, and the crash. *)

\* Whether f is at this moment read by the copy.
BeingRead(f) == job.hand = f /\ job.bytes # None

\* A download or a pull puts version v in the folder the farm runs from.
Download(f, v) ==
    /\ serving
    /\ v \in Possible(f) \ {Absent, Bad}
    /\ BeingRead(f) => ReplacedWhileCopied
    /\ want' = [want EXCEPT ![f] = v]
    /\ IF config = "old"
       THEN /\ old' = [old EXCEPT ![f] = v]
            /\ newer' = [newer EXCEPT ![f] = TRUE]
            /\ UNCHANGED new
       ELSE /\ new' = [new EXCEPT ![f] = v]
            /\ newer' = [newer EXCEPT ![f] = FALSE]
            /\ UNCHANGED old
    /\ UNCHANGED <<config, serving, journal, job>>

\* A model is deleted from the folder the farm runs from.
ModelDeleted(f) ==
    /\ serving
    /\ want' = [want EXCEPT ![f] = Absent]
    /\ IF config = "old"
       THEN old' = [old EXCEPT ![f] = Absent] /\ UNCHANGED new
       ELSE new' = [new EXCEPT ![f] = Absent] /\ UNCHANGED old
    /\ UNCHANGED <<newer, config, serving, journal, job>>

\* Somebody takes a file out of the new folder before the switch, as the move
\* asks them to when it is in the way.
PersonClears(f) ==
    /\ config = "old" /\ job.pc \in {"idle", "copy"}
    /\ new' = [new EXCEPT ![f] = Absent]
    /\ UNCHANGED <<old, newer, config, serving, journal, job, want>>

\* The farm dies and is started again: the disk and the journal are what is left.
Crash ==
    /\ job # IdleJob
    /\ job.pc = "saved" => "crash" \in CutBetweenSaves
    /\ job' = IdleJob
    /\ serving' = TRUE
    /\ UNCHANGED <<old, new, newer, config, journal, want>>

-----------------------------------------------------------------------------
CopyStep ==
    \/ \E f \in Files : \/ CopyKept(f) \/ CopyAdopted(f) \/ CopyRead(f)
                        \/ CopyDamaged(f) \/ CopyBlocked(f)
    \/ CopyPlaced \/ CopyRecorded \/ CopyFails

SwitchStep == Switch \/ ConfigSaved \/ SwitchGivenUp \/ JournalSaved \/ JournalSaveFails \/ Restart

FinishStep ==
    \/ \E s \in Stores : FinishStore(s) \/ StoreKept(s)
    \/ \E f \in Files : Deleted(f) \/ DeleteBusy(f) \/ OldKept(f)
    \/ StoreFinished \/ FinishEnds \/ FinishStopped

JobStep == CopyStep \/ SwitchStep \/ FinishStep

Panel == Move \/ Finish \/ Forget

World ==
    \/ \E f \in Files : ModelDeleted(f) \/ PersonClears(f)
    \/ \E f \in Files, v \in Versions : Download(f, v)
    \/ Crash

Next == JobStep \/ Panel \/ World

Spec == Init /\ [][Next]_vars

\* A job that runs goes on; nobody has to press a button and nothing has to crash.
FairSpec == Spec /\ WF_vars(JobStep)

-----------------------------------------------------------------------------
(* Properties. *)

\* The folder the farm runs from holds what its users put there: nothing is lost
\* and nothing goes back to an older version, whatever was downloaded during the
\* copy and wherever the move was cut (copyStore, switchRun, deleteMoved).
FolderIsWhole ==
    \A f \in Files :
        IF config = "old" THEN old[f] = want[f]
        ELSE want[f] \notin {Absent, Bad} => new[f] = want[f]

\* Somebody else's file in the new folder is never written over: before the
\* switch only a file of this move's journal changes to something else
\* (copyStore's "differs").
NeverClobbers ==
    [][\A f \in Files :
         config = "old" /\ new[f] # Absent /\ new'[f] \notin {Absent, new[f]}
            => journal # None /\ f \in journal.written]_vars

\* Only a folder the farm has left loses files to the move: until the config
\* names the new folder, and after a move that was given up, the old one loses
\* nothing but what its users delete (finishStore, storageFinish).
OldFolderKept ==
    [][\A f \in Files :
         config = "old" /\ old[f] # Absent /\ old'[f] = Absent => want'[f] = Absent]_vars

\* A file without a copy outlives Finish: an old copy goes only when the new
\* folder has that file, or its users deleted it (deleteMoved).
NoCopyNoDelete ==
    [][\A f \in Files :
         old[f] # Absent /\ old'[f] = Absent => new[f] # Absent \/ want'[f] = Absent]_vars

\* Every move and every Finish comes to an end.
JobEnds == (job # IdleJob) ~> (job = IdleJob)

\* What the switch stopped runs again.
ServesAgain == ~serving ~> serving

-----------------------------------------------------------------------------
(* Why the folder is whole: the invariant behind FolderIsWhole, for a move *)
(* with no cut between its saves and no file replaced under its own copy.  *)

\* Where the job is says which folder is in use and whether the journal knows.
Phases ==
    /\ job.pc # "idle" => journal # None
    /\ job.hand # None => job.pc \in {"copy", "recopy"}
    /\ job.pc \in {"copy", "recopy"} => config = "old"
    /\ job.pc \in {"saved", "restart", "finish", "delete"} => config = "new"
    /\ job.pc = "recopy" => ~serving
    /\ journal # None /\ config = "old" => ~journal.switched
    /\ journal # None /\ config = "new" /\ job.pc # "saved" => journal.switched

\* The copy of f is right unless its original changed since.
Right(f) ==
    /\ f \in Pinned => new[f] = Good
    /\ f \notin Pinned /\ old[f] # Absent /\ ~newer[f] => new[f] = old[f]

\* Until the switch a copy of the journal is right.
JournalRight ==
    \A f \in Files :
        journal # None /\ config = "old" /\ f \in journal.written /\ new[f] # Absent => Right(f)

\* What the copy has in hand is its original, and a copy not yet recorded is right.
InHand ==
    \A f \in Files :
        job.hand = f =>
            /\ job.bytes = None /\ new[f] # Absent => Right(f)
            /\ job.bytes # None => /\ job.bytes \notin {Absent, Bad}
                                   /\ f \in Pinned => job.bytes = Good
                                   /\ old[f] \in {Absent, job.bytes}

\* During the switch every file is still to be copied or is the same in both folders.
Recopied ==
    \A f \in Files :
        job.pc = "recopy" /\ old[f] \notin {Absent, Bad}
            => f \in job.todo \/ (job.hand = f /\ job.bytes # None) \/ new[f] = old[f]

OldPossible == \A f \in Files : old[f] \in Possible(f)

Inv == TypeOK /\ Phases /\ OldPossible /\ FolderIsWhole /\ JournalRight /\ InHand /\ Recopied

=============================================================================
