---------------------------- MODULE SidecarSwap ----------------------------
(* The client's chat engine on disk (shell/src/main/sidecarManager.ts): the      *)
(* first download, an update that is staged while the app is in use, and the     *)
(* swap at the next launch. One step is one file operation, or the time before   *)
(* it; the app may be closed or cut before each, and a removal may be left half  *)
(* done.                                                                         *)
EXTENDS Naturals

CONSTANTS
    MaxVersion,   \* bound: releases of the engine
    Held,         \* the trees another process may hold a file of, so that renaming one may fail
    HalfDone      \* the trees whose removal can stop in the middle

Places == {"live", "old", "pending", "live.stage", "pending.stage"}
Versions == 1..MaxVersion
Nothing == 0
Part == MaxVersion + 1

ASSUME SwapAssumption ==
    /\ MaxVersion \in Nat \ {0}
    /\ Held \subseteq Places /\ HalfDone \subseteq Places

VARIABLES
    disk,     \* what is at each place: Nothing, Part of a tree, or a whole version
    pc,       \* where the app stands: "off", a step of applyPendingSidecar(), "use"
    moved,    \* movedLive
    job,      \* installFrom(): where to, which version, how far
    latest,   \* the newest release
    ever,     \* has the app ever had an engine?
    clean     \* did nothing from outside fail an operation of this launch, and nothing follow it?

vars == <<disk, pc, moved, job, latest, ever, clean>>

NoJob == [to |-> "live", v |-> 1, step |-> "off"]
StageOf(p) == IF p = "live" THEN "live.stage" ELSE "pending.stage"
Whole(p) == disk[p] \in Versions

Init ==
    /\ disk = [p \in Places |-> Nothing] /\ pc = "off" /\ moved = FALSE /\ job = NoJob
    /\ latest \in Versions /\ ever = FALSE /\ clean = FALSE

-----------------------------------------------------------------------------
(* File operations: what the disk may be when one succeeds, or does not.         *)

Moved(p, q) == [disk EXCEPT ![q] = disk[p], ![p] = Nothing]
Removed(p) == [disk EXCEPT ![p] = Nothing]
\* How a rename ends: done, or not at all.
Renames(p, q) == {Moved(p, q)} \cup (IF p \in Held THEN {disk} ELSE {})
\* A removal that stops before its end.
Stopped(p) == {disk} \cup (IF p \in HalfDone /\ disk[p] # Nothing THEN {[disk EXCEPT ![p] = Part]} ELSE {})

-----------------------------------------------------------------------------
(* applyPendingSidecar(), at each launch. *)

Launch ==
    /\ pc = "off" /\ pc' = "restore" /\ clean' = TRUE
    /\ UNCHANGED <<disk, moved, job, latest, ever>>

\* A swap that died between its renames left the engine in live.old.
Restore ==
    /\ pc = "restore"
    /\ IF disk["live"] = Nothing /\ disk["old"] # Nothing
       THEN disk' \in Renames("old", "live") /\ clean' = (clean /\ disk'["old"] = Nothing)
       ELSE UNCHANGED <<disk, clean>>
    /\ pc' = IF disk["pending"] = Nothing THEN "use" ELSE "clear"
    /\ UNCHANGED <<moved, job, latest, ever>>

Clear_Leaves ==
    /\ pc = "clear" /\ pc' = "aside"
    /\ UNCHANGED <<disk, clean, moved, job, latest, ever>>
Clear ==
    /\ pc = "clear" /\ pc' = "aside"
    /\ \/ disk' = Removed("old") /\ UNCHANGED clean
       \/ disk' \in Stopped("old") /\ clean' = FALSE
    /\ UNCHANGED <<moved, job, latest, ever>>

Aside_Removes ==
    /\ pc = "aside" /\ pc' = "swap" /\ moved' = FALSE /\ disk' = Removed("live")
    /\ UNCHANGED <<clean, job, latest, ever>>
Aside ==
    /\ pc = "aside"
    /\ disk' \in IF disk["live"] # Nothing /\ disk["old"] = Nothing
                THEN Renames("live", "old") ELSE {disk}
    /\ moved' = (disk["live"] # Nothing /\ disk'["live"] = Nothing)
    /\ pc' = IF disk'["live"] = Nothing THEN "swap" ELSE "use"
    \* A leftover in the way is the app's own doing.
    /\ clean' = (clean /\ (disk'["live"] = Nothing \/ disk["old"] # Nothing))
    /\ UNCHANGED <<job, latest, ever>>

Swap ==
    /\ pc = "swap"
    /\ \/ disk' = Moved("pending", "live") /\ pc' = "tidy" /\ UNCHANGED clean
       \/ /\ "pending" \in Held /\ pc' = (IF moved THEN "undo" ELSE "use")
          /\ clean' = FALSE /\ UNCHANGED disk
    /\ ever' = (ever \/ disk'["live"] \in Versions)
    /\ UNCHANGED <<moved, job, latest>>

Undo ==
    /\ pc = "undo" /\ pc' = "use"
    /\ disk' \in Renames("old", "live")
    /\ UNCHANGED <<moved, job, latest, ever, clean>>

Tidy ==
    /\ pc = "tidy" /\ pc' = "use"
    /\ disk' \in {Removed("old")} \cup Stopped("old")
    /\ UNCHANGED <<moved, job, latest, ever, clean>>

-----------------------------------------------------------------------------
(* installFrom(), for a first download or an update, one at a time.              *)

\* ensureSidecar(): this app's release, or the latest.
Install ==
    /\ pc = "use" /\ job.step = "off" /\ ~Whole("live")
    /\ \E v \in {1, latest} : job' = [to |-> "live", v |-> v, step |-> "stage"]
    /\ clean' = FALSE /\ UNCHANGED <<disk, pc, moved, latest, ever>>

\* downloadOwuiUpdate(), when the check finds another version than the one in use.
Update ==
    /\ pc = "use" /\ job.step = "off" /\ disk["live"] # Nothing /\ disk["live"] # latest
    /\ job' = [to |-> "pending", v |-> latest, step |-> "stage"]
    /\ clean' = FALSE /\ UNCHANGED <<disk, pc, moved, latest, ever>>

Fails == job' = NoJob
\* The archive comes down, and the staging folder is made new.
Stage ==
    /\ job.step = "stage"
    /\ LET s == StageOf(job.to)
       IN  \/ disk' = [disk EXCEPT ![s] = Part] /\ job' = [job EXCEPT !.step = "unpack"]
           \/ disk' \in Stopped(s) /\ Fails
    /\ UNCHANGED <<pc, moved, latest, ever, clean>>
Unpack_InPlace ==
    /\ job.step = "unpack"
    /\ \/ /\ disk' = [disk EXCEPT ![job.to] = Part, ![StageOf(job.to)] = job.v]
          /\ job' = [job EXCEPT !.step = "clear"]
       \/ UNCHANGED disk /\ Fails
    /\ UNCHANGED <<pc, moved, latest, ever, clean>>
Unpack ==
    /\ job.step = "unpack"
    /\ \/ disk' = [disk EXCEPT ![StageOf(job.to)] = job.v] /\ job' = [job EXCEPT !.step = "clear"]
       \/ UNCHANGED disk /\ Fails
    /\ UNCHANGED <<pc, moved, latest, ever, clean>>
ClearTarget ==
    /\ job.step = "clear"
    /\ \/ disk' = Removed(job.to) /\ job' = [job EXCEPT !.step = "rename"]
       \/ disk' \in Stopped(job.to) /\ Fails
    /\ UNCHANGED <<pc, moved, latest, ever, clean>>
Rename ==
    /\ job.step = "rename" /\ Fails
    /\ disk' \in Renames(StageOf(job.to), job.to)
    /\ ever' = (ever \/ disk'["live"] \in Versions)
    /\ UNCHANGED <<pc, moved, latest, clean>>

-----------------------------------------------------------------------------
\* The app is closed, restarted to apply, or dies; a removal under way stays half done.
Cut ==
    /\ pc # "off" /\ pc' = "off" /\ job' = NoJob /\ clean' = FALSE
    /\ disk' \in CASE pc \in {"clear", "tidy"} -> Stopped("old")
                   [] job.step = "stage" -> Stopped(StageOf(job.to))
                   [] job.step = "clear" -> Stopped(job.to)
                   [] OTHER -> {disk}
    /\ UNCHANGED <<moved, latest, ever>>

Release ==
    /\ latest < MaxVersion /\ latest' = latest + 1
    /\ UNCHANGED <<disk, pc, moved, job, ever, clean>>

Next == \/ Launch \/ Restore \/ Clear \/ Aside \/ Swap \/ Undo \/ Tidy
        \/ Install \/ Update \/ Stage \/ Unpack \/ ClearTarget \/ Rename \/ Cut \/ Release
Spec == Init /\ [][Next]_vars

-----------------------------------------------------------------------------
TypeOK ==
    /\ disk \in [Places -> Nothing..Part]
    /\ pc \in {"off", "restore", "clear", "aside", "swap", "undo", "tidy", "use"}
    /\ moved \in BOOLEAN /\ latest \in Versions /\ ever \in BOOLEAN /\ clean \in BOOLEAN
    /\ job \in [to : {"live", "pending"}, v : Versions,
                step : {"off", "stage", "unpack", "clear", "rename"}]

\* "The swap never leaves the app without an engine": once it had one, every launch
\* reaches its use with a whole engine in place, and between the steps a whole one
\* is where the next launch looks for it. And what the app would run is never a part
\* of one, wherever a download, a swap or the tidying after it was cut (the python it
\* looks for may be there).
EngineAlways ==
    /\ disk["live"] # Part
    /\ ever => /\ \E p \in {"live", "old", "pending"} : Whole(p)
               /\ pc = "use" => Whole("live")

\* An update waits for one good launch at most: where nothing from outside fails an
\* operation, what was left by launches cut before cannot keep it from being applied.
CleanLaunchApplies == pc = "use" /\ clean => disk["pending"] = Nothing
=============================================================================
