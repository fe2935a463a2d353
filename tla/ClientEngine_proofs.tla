------------------------ MODULE ClientEngine_proofs ------------------------
(* The chat engine's swap, for every number of releases: where the tree put       *)
(* aside an instant ago can be renamed, and the removal of a staged engine is     *)
(* not stopped in the middle, the app never runs a part of an engine, never       *)
(* reaches its use without one, and a launch nobody disturbs applies the update.  *)
(* Then the client's engine, for every number of processes, contexts and          *)
(* restarts: the shell implements the swap of the engine's files, no process runs *)
(* but the supervisor's child, and at rest it runs with what the shell says.      *)
EXTENDS ClientEngine, TLAPS

-----------------------------------------------------------------------------
(* The swap (SidecarSwap). *)

\* What the three properties rest on, by where the app stands.
EngineKept ==
    /\ disk["live"] # Part /\ disk["pending"] # Part
    /\ ever => Whole("live") \/ Whole("old")
    /\ ~ever => \A p \in {"live", "old", "pending"} : disk[p] = Nothing
StepFacts ==
    /\ pc \in {"clear", "aside", "tidy", "use"} => (ever => Whole("live"))
    /\ pc \in {"clear", "aside", "swap", "undo"} => Whole("pending")
    /\ pc \in {"swap", "undo"} => moved /\ disk["live"] = Nothing
    /\ pc = "aside" /\ clean => disk["old"] = Nothing
    /\ pc = "undo" => ~clean
    /\ pc \in {"tidy", "use"} /\ clean => disk["pending"] = Nothing
JobFacts ==
    /\ job.step # "off" => pc = "use" /\ ~clean /\ (job.to = "live" <=> ~ever)
    /\ job.step \in {"clear", "rename"} => disk[StageOf(job.to)] = job.v
    /\ job.step = "rename" => disk[job.to] = Nothing
IInv == TypeOK /\ EngineKept /\ StepFacts /\ JobFacts

\* live.old is between its two renames only for the instant of applyPendingSidecar(),
\* before anything runs from it. The second half is what installFrom() takes for
\* granted of the rmSync() before its rename.
ASSUME Undisturbed == "old" \notin Held /\ "pending" \notin HalfDone

-----------------------------------------------------------------------------
\* A rename of a tree nobody holds is done.
LEMMA FreeMoves == ASSUME NEW p \in Places, NEW q \in Places, p \notin Held
                   PROVE  Renames(p, q) = {Moved(p, q)}
BY DEF Renames

\* A removal touches its own tree, and the staged engine not half.
LEMMA RemovalStops ==
    ASSUME TypeOK, NEW p \in Places, NEW d \in Stopped(p)
    PROVE  /\ d \in [Places -> Nothing..Part]
           /\ \A q \in Places \ {p} : d[q] = disk[q]
           /\ d[p] = disk[p] \/ (d[p] = Part /\ p # "pending" /\ disk[p] # Nothing)
BY Undisturbed, SwapAssumption DEF Stopped, TypeOK, Part, Nothing, Versions

LEMMA InitInv == Init => IInv
<1> SUFFICES ASSUME Init PROVE IInv
  OBVIOUS
<1>1. 1 \in Versions /\ Nothing \in Nothing..Part
  BY SwapAssumption DEF Versions, Nothing, Part
<1>2. TypeOK
  BY <1>1 DEF Init, TypeOK, NoJob
<1>3. EngineKept /\ StepFacts /\ JobFacts
  BY SwapAssumption DEF Init, EngineKept, StepFacts, JobFacts, NoJob, Places, Part, Nothing
<1>4. QED
  BY <1>2, <1>3 DEF IInv

LEMMA LaunchStep == IInv /\ Launch => IInv'
BY DEF Launch, IInv, TypeOK, EngineKept, StepFacts, JobFacts, Whole, StageOf

LEMMA RestoreStep == IInv /\ Restore => IInv'
BY FreeMoves, Undisturbed, SwapAssumption DEF Restore, IInv, TypeOK, EngineKept, StepFacts,
   JobFacts, Whole, Moved, Places, Versions, Part, Nothing, StageOf

LEMMA ClearStep == IInv /\ Clear => IInv'
<1> SUFFICES ASSUME IInv, Clear PROVE IInv'
  OBVIOUS
<1> USE RemovalStops, SwapAssumption DEF Clear, Removed
<1>1. TypeOK'
  <2>1. disk' \in [Places -> Nothing..Part]
    BY DEF IInv, TypeOK, Whole, Places, Versions, Part, Nothing
  <2>2. QED
    BY <2>1 DEF IInv, TypeOK, Versions
<1>2. EngineKept'
  BY DEF IInv, TypeOK, EngineKept, StepFacts, JobFacts, Whole, Places, Versions, Part, Nothing, StageOf
<1>3. StepFacts'
  BY DEF IInv, TypeOK, EngineKept, StepFacts, JobFacts, Whole, Places, Versions, Part, Nothing, StageOf
<1>4. JobFacts'
  BY DEF IInv, TypeOK, EngineKept, StepFacts, JobFacts, Whole, Places, Versions, Part, Nothing, StageOf
<1>5. QED
  BY <1>1, <1>2, <1>3, <1>4 DEF IInv

LEMMA AsideStep == IInv /\ Aside => IInv'
<1> SUFFICES ASSUME IInv, Aside PROVE IInv'
  OBVIOUS
<1> USE SwapAssumption DEF Aside, Renames, Moved
<1>1. TypeOK'
  BY DEF IInv, TypeOK, EngineKept, StepFacts, JobFacts, Whole, Places, Versions, Part, Nothing, StageOf
<1>2. EngineKept'
  BY DEF IInv, TypeOK, EngineKept, StepFacts, JobFacts, Whole, Places, Versions, Part, Nothing, StageOf
<1>3. StepFacts'
  <2>1. CASE disk' = disk
    <3>1. Whole("live") /\ disk["live"] # Nothing
      BY DEF IInv, EngineKept, StepFacts, Whole, Versions, Part, Nothing
    <3>2. pc' = "use" /\ ~clean' /\ ever' = ever
      BY <2>1, <3>1 DEF IInv, StepFacts
    <3>3. QED
      BY <2>1, <3>1, <3>2 DEF IInv, StepFacts, Whole
  <2>2. CASE disk["live"] # Nothing /\ disk["old"] = Nothing /\ disk' = Moved("live", "old")
    BY <2>2 DEF IInv, TypeOK, EngineKept, StepFacts, JobFacts, Whole, Places, Versions, Part, Nothing, StageOf
  <2>3. QED
    BY <2>1, <2>2
<1>4. JobFacts'
  BY DEF IInv, TypeOK, EngineKept, StepFacts, JobFacts, Whole, Places, Versions, Part, Nothing, StageOf
<1>5. QED
  BY <1>1, <1>2, <1>3, <1>4 DEF IInv

LEMMA SwapStep == IInv /\ Swap => IInv'
<1> SUFFICES ASSUME IInv, Swap PROVE IInv'
  OBVIOUS
<1> USE SwapAssumption DEF Swap, Renames, Moved
<1>1. TypeOK'
  <2>1. disk' \in [Places -> Nothing..Part]
    BY DEF IInv, TypeOK, Whole, Places, Versions, Part, Nothing
  <2>2. QED
    BY <2>1 DEF IInv, TypeOK, Versions
<1>2. EngineKept'
  BY DEF IInv, TypeOK, EngineKept, StepFacts, JobFacts, Whole, Places, Versions, Part, Nothing, StageOf
<1>3. StepFacts'
  BY DEF IInv, TypeOK, EngineKept, StepFacts, JobFacts, Whole, Places, Versions, Part, Nothing, StageOf
<1>4. JobFacts'
  BY DEF IInv, TypeOK, EngineKept, StepFacts, JobFacts, Whole, Places, Versions, Part, Nothing, StageOf
<1>5. QED
  BY <1>1, <1>2, <1>3, <1>4 DEF IInv

LEMMA UndoStep == IInv /\ Undo => IInv'
BY FreeMoves, Undisturbed, SwapAssumption DEF Undo, Moved, IInv, TypeOK, EngineKept, StepFacts,
   JobFacts, Whole, Places, Versions, Part, Nothing, StageOf

LEMMA TidyStep == IInv /\ Tidy => IInv'
BY RemovalStops, SwapAssumption DEF Tidy, Removed, IInv, TypeOK, EngineKept, StepFacts,
   JobFacts, Whole, Places, Versions, Part, Nothing, StageOf

LEMMA InstallStep == IInv /\ Install => IInv'
<1> SUFFICES ASSUME IInv, Install PROVE IInv'
  OBVIOUS
<1> USE SwapAssumption DEF Install
<1>1. TypeOK'
  <2>1. PICK v \in {1, latest} : job' = [to |-> "live", v |-> v, step |-> "stage"]
    OBVIOUS
  <2>2. v \in Versions
    BY DEF IInv, TypeOK, Versions
  <2>3. QED
    BY <2>1, <2>2 DEF IInv, TypeOK
<1>2. EngineKept'
  BY DEF IInv, TypeOK, EngineKept, StepFacts, JobFacts, Whole, Places, Versions, Part, Nothing, StageOf
<1>3. StepFacts'
  BY DEF IInv, TypeOK, EngineKept, StepFacts, JobFacts, Whole, Places, Versions, Part, Nothing, StageOf
<1>4. JobFacts'
  BY DEF IInv, TypeOK, EngineKept, StepFacts, JobFacts, Whole, Places, Versions, Part, Nothing, StageOf
<1>5. QED
  BY <1>1, <1>2, <1>3, <1>4 DEF IInv

LEMMA UpdateStep == IInv /\ Update => IInv'
<1> SUFFICES ASSUME IInv, Update PROVE IInv'
  OBVIOUS
<1> USE SwapAssumption DEF Update
<1>1. TypeOK'
  BY DEF IInv, TypeOK, EngineKept, StepFacts, JobFacts, Whole, Places, Versions, Part, Nothing, StageOf
<1>2. EngineKept'
  BY DEF IInv, TypeOK, EngineKept, StepFacts, JobFacts, Whole, Places, Versions, Part, Nothing, StageOf
<1>3. StepFacts'
  BY DEF IInv, TypeOK, EngineKept, StepFacts, JobFacts, Whole, Places, Versions, Part, Nothing, StageOf
<1>4. JobFacts'
  BY DEF IInv, TypeOK, EngineKept, StepFacts, JobFacts, Whole, Places, Versions, Part, Nothing, StageOf
<1>5. QED
  BY <1>1, <1>2, <1>3, <1>4 DEF IInv

LEMMA ReleaseStep == IInv /\ Release => IInv'
<1> SUFFICES ASSUME IInv, Release PROVE IInv'
  OBVIOUS
<1> USE SwapAssumption DEF Release
<1>1. TypeOK'
  BY DEF IInv, TypeOK, EngineKept, StepFacts, JobFacts, Whole, Places, Versions, Part, Nothing, StageOf
<1>2. EngineKept'
  BY DEF IInv, TypeOK, EngineKept, StepFacts, JobFacts, Whole, Places, Versions, Part, Nothing, StageOf
<1>3. StepFacts'
  BY DEF IInv, TypeOK, EngineKept, StepFacts, JobFacts, Whole, Places, Versions, Part, Nothing, StageOf
<1>4. JobFacts'
  BY DEF IInv, TypeOK, EngineKept, StepFacts, JobFacts, Whole, Places, Versions, Part, Nothing, StageOf
<1>5. QED
  BY <1>1, <1>2, <1>3, <1>4 DEF IInv

LEMMA StageStep == IInv /\ Stage => IInv'
BY RemovalStops, SwapAssumption DEF Stage, Fails, NoJob, IInv, TypeOK, EngineKept, StepFacts,
   JobFacts, Whole, Places, Versions, Part, Nothing, StageOf

LEMMA UnpackStep == IInv /\ Unpack => IInv'
BY SwapAssumption DEF Unpack, Fails, NoJob, IInv, TypeOK, EngineKept, StepFacts,
   JobFacts, Whole, Places, Versions, Part, Nothing, StageOf

LEMMA ClearTargetStep == IInv /\ ClearTarget => IInv'
BY RemovalStops, SwapAssumption DEF ClearTarget, Removed, Fails, NoJob, IInv, TypeOK, EngineKept,
   StepFacts, JobFacts, Whole, Places, Versions, Part, Nothing, StageOf

LEMMA RenameStep == IInv /\ Rename => IInv'
<1> SUFFICES ASSUME IInv, Rename PROVE IInv'
  OBVIOUS
<1> USE SwapAssumption DEF Rename, Renames, Moved, Fails, NoJob
<1>1. TypeOK'
  BY DEF IInv, TypeOK, EngineKept, StepFacts, JobFacts, Whole, Places, Versions, Part, Nothing, StageOf
<1>2. EngineKept'
  <2>1. disk[StageOf(job.to)] = job.v /\ job.v \in Versions /\ disk[job.to] = Nothing
    BY DEF IInv, TypeOK, JobFacts
  <2>2. CASE disk' = disk
    BY <2>2 DEF IInv, TypeOK, EngineKept, Whole
  <2>3. CASE disk' = Moved(StageOf(job.to), job.to)
    <3>1. /\ disk'[job.to] = job.v
          /\ \A q \in {"live", "old", "pending"} \ {job.to} : disk'[q] = disk[q]
      BY <2>1, <2>3 DEF IInv, TypeOK, Places, StageOf
    <3>2. ever' = (ever \/ disk'["live"] \in Versions)
      OBVIOUS
    <3>3. job.to \in {"live", "pending"} /\ (job.to = "live" <=> ~ever)
      BY DEF IInv, TypeOK, JobFacts
    <3>4. job.v # Part /\ job.v # Nothing
      BY <2>1 DEF Versions, Part, Nothing
    <3>5. CASE job.to = "live"
      BY <2>1, <3>1, <3>2, <3>3, <3>4, <3>5 DEF IInv, EngineKept, Whole
    <3>6. CASE job.to = "pending"
      BY <2>1, <3>1, <3>2, <3>3, <3>4, <3>6 DEF IInv, EngineKept, Whole
    <3>7. QED
      BY <3>3, <3>5, <3>6
  <2>4. QED
    BY <2>2, <2>3
<1>3. StepFacts'
  BY DEF IInv, TypeOK, EngineKept, StepFacts, JobFacts, Whole, Places, Versions, Part, Nothing, StageOf
<1>4. JobFacts'
  BY DEF IInv, TypeOK, EngineKept, StepFacts, JobFacts, Whole, Places, Versions, Part, Nothing, StageOf
<1>5. QED
  BY <1>1, <1>2, <1>3, <1>4 DEF IInv

LEMMA CutStep == IInv /\ Cut => IInv'
<1> SUFFICES ASSUME IInv, Cut PROVE IInv'
  OBVIOUS
<1> USE RemovalStops, SwapAssumption DEF Cut, NoJob
<1>1. TypeOK'
  <2>1. job.to \in Places /\ StageOf(job.to) \in Places
    BY DEF IInv, TypeOK, StageOf, Places
  <2>2. \E p \in Places : disk' \in Stopped(p) \cup {disk}
    BY <2>1 DEF Places
  <2>3. TypeOK /\ disk' \in [Places -> Nothing..Part]
    BY <2>2 DEF IInv, TypeOK
  <2>4. 1 \in Versions
    BY DEF Versions
  <2>5. QED
    BY <2>3, <2>4 DEF TypeOK
<1>2. EngineKept'
  BY DEF IInv, TypeOK, EngineKept, StepFacts, JobFacts, Whole, Places, Versions, Part, Nothing, StageOf
<1>3. StepFacts'
  BY DEF IInv, TypeOK, EngineKept, StepFacts, JobFacts, Whole, Places, Versions, Part, Nothing, StageOf
<1>4. JobFacts'
  BY DEF IInv, TypeOK, EngineKept, StepFacts, JobFacts, Whole, Places, Versions, Part, Nothing, StageOf
<1>5. QED
  BY <1>1, <1>2, <1>3, <1>4 DEF IInv

LEMMA InvStep == IInv /\ [Next]_vars => IInv'
<1> SUFFICES ASSUME IInv, [Next]_vars PROVE IInv'
  OBVIOUS
<1>1. CASE Next
  BY <1>1, LaunchStep, RestoreStep, ClearStep, AsideStep, SwapStep, UndoStep, TidyStep,
     InstallStep, UpdateStep, ReleaseStep, StageStep, UnpackStep, ClearTargetStep, RenameStep,
     CutStep DEF Next
<1>2. CASE UNCHANGED vars
  BY <1>2 DEF vars, IInv, TypeOK, EngineKept, StepFacts, JobFacts, Whole, StageOf
<1>3. QED
  BY <1>1, <1>2

LEMMA Invariant == Spec => []IInv
BY InitInv, InvStep, PTL DEF Spec

-----------------------------------------------------------------------------
\* The variables keep their types: the steps of a swap and of an install leave no
\* place of the disk in a state the code does not know.
THEOREM TypeCorrect == Spec => []TypeOK
<1>1. IInv => TypeOK
  BY DEF IInv
<1>2. QED
  BY <1>1, Invariant, PTL

\* "The swap never leaves the app without an engine", nor with a part of one where it
\* runs it from, wherever applyPendingSidecar() and installFrom() are cut.
THEOREM NeverWithoutEngine == Spec => []EngineAlways
<1>1. IInv => EngineAlways
  BY DEF IInv, EngineKept, StepFacts, EngineAlways
<1>2. QED
  BY <1>1, Invariant, PTL

\* A staged update is applied by the first launch nothing from outside disturbs.
THEOREM UpdateLands == Spec => []CleanLaunchApplies
<1>1. IInv => CleanLaunchApplies
  BY DEF IInv, StepFacts, CleanLaunchApplies
<1>2. QED
  BY <1>1, Invariant, PTL

-----------------------------------------------------------------------------
(* The shell around it. *)

\* The child is the one process that runs, and it runs what it was launched with.
Only ==
    /\ \A p \in Procs : Alive(p) => p = child \/ pc = "off"
    /\ child # None => proc[child] \in {"boot", "up", "dead"} /\ env[child] = Env[conf]
    /\ start.pc \in {"reap", "port", "probe"} => child = None
    /\ start.pc = "wait" => start.target \in Procs /\ child \in {None, start.target}
\* Between a launch's start and its use, and before there is an engine, nothing runs.
Idle ==
    /\ pc # "use" => shown = NoFarm /\ conf = NoFarm /\ quit = "no" /\ status = "idle"
    /\ pc # "use" \/ ~ever => child = None /\ start = Off /\ stops = {}
    /\ pc \notin {"use", "off"} \/ ~ever => \A p \in Procs : ~Alive(p)
\* Where nothing overtook a stop: one is under way at most, and nothing runs meanwhile.
Quiet ==
    /\ stops # {} \/ quit \in {"on", "rest"} => child = None /\ start = Off
    /\ \A s \in stops : stops = {s} /\ quit # "rest" /\ (s.then = "quit" <=> quit = "on")
    /\ pc = "off" => \A p \in Procs : ~Alive(p)
    /\ \A s \in stops : s.then = "repoint" => s.ctx = shown
    /\ conf = shown \/ \E s \in stops : s.then = "repoint"
    /\ Rests /\ status = "ready" => child # None
EInv == EngineTypeOK /\ Only /\ Idle /\ (overtook = 0 => Quiet)

-----------------------------------------------------------------------------
(* The swap inside the shell. *)

\* Every step of the shell is a step of the swap, or leaves the engine's files alone.
THEOREM SwapImplemented == ClientSpec => Spec
<1>1. ClientInit => Init
  BY DEF ClientInit
<1>2. [ClientNext]_clientVars => [Next]_vars
  BY DEF ClientNext, clientVars, Launches, CutAtLaunch, Exit, FileStep, Next
<1>3. QED
  BY <1>1, <1>2, PTL DEF ClientSpec, Spec

\* Where the app is in use, an engine is there as soon as there was one.
LEMMA InPlace == IInv /\ pc = "use" => (ever <=> disk["live"] # Nothing)
BY DEF IInv, EngineKept, StepFacts, Whole, Versions, Nothing

-----------------------------------------------------------------------------
(* What start(), stop() and what follows a stop() leave. *)

Statuses == {"idle", "starting", "restarting", "ready", "error", "stopped"}
\* A start took over, with context c and status s; or found no engine.
Begun(c, s) ==
    /\ conf' = c /\ child' = None
    /\ proc' \in [Procs -> {"free", "boot", "up", "dying", "dead"}] /\ \A p \in Procs : ~Alive(p)'
    /\ \/ ~ever /\ start' = Off /\ status' = "error" /\ proc' = proc
       \/ /\ ever /\ status' = s
          /\ start' \in [pc : {"reap", "port"}, target : Procs \cup {None}]

LEMMA StartWithBegins ==
    ASSUME IInv, EInv, pc = "use", NEW c \in Contexts, NEW s \in Statuses, StartWith(c, child, s)
    PROVE  Begun(c, s)
<1>1. CASE disk["live"] = Nothing
  BY <1>1, InPlace DEF StartWith, Begun, EInv, Idle, Alive, Off, EngineTypeOK
<1>2. CASE disk["live"] # Nothing
  <2>1. ever /\ conf' = c /\ child' = None /\ proc' = Killed(proc, child) /\ status' = s
    BY <1>2, InPlace DEF StartWith
  <2>2. start' \in [pc : {"reap", "port"}, target : Procs \cup {None}]
    BY <1>2 DEF StartWith, EInv, EngineTypeOK
  <2>3. /\ proc' \in [Procs -> {"free", "boot", "up", "dying", "dead"}]
        /\ \A p \in Procs : ~Alive(p)'
    BY <2>1, EngineAssumption DEF Killed, EInv, EngineTypeOK, Only, Alive
  <2>4. QED
    BY <2>1, <2>2, <2>3 DEF Begun
<1>3. QED
  BY <1>1, <1>2

LEMMA AfterStop ==
    ASSUME IInv, EInv, pc = "use", NEW c \in Contexts, NEW s \in Statuses, NEW st,
           NEW then \in {"repoint", "retry", "move", "quit"}, After(then, c, s, st)
    PROVE  \/ then = "repoint" /\ Begun(c, s) /\ quit' = quit
           \/ then \in {"retry", "move"} /\ Begun(shown, s) /\ quit' = quit
           \/ /\ then = "move" /\ quit' = (IF quit = "no" THEN "soon" ELSE quit)
              /\ start' = st /\ status' = s /\ UNCHANGED <<conf, child, proc>>
           \/ /\ then = "quit" /\ quit' = "rest" /\ status' = "stopped" /\ start' = st
              /\ UNCHANGED <<conf, child, proc>>
<1>1. shown \in Contexts
  BY DEF EInv, EngineTypeOK
<1>2. CASE then = "repoint"
  BY <1>2, StartWithBegins DEF After
<1>3. CASE then = "retry"
  BY <1>1, <1>3, StartWithBegins DEF After
<1>4. CASE then = "move"
  BY <1>1, <1>4, StartWithBegins DEF After
<1>5. CASE then = "quit"
  BY <1>5 DEF After
<1>6. QED
  BY <1>2, <1>3, <1>4, <1>5

\* A start that took over where no stop is under way leaves the invariant.
LEMMA BegunInv ==
    ASSUME IInv, EInv, pc = "use", NEW c \in Contexts, NEW s \in Statuses, Begun(c, s),
           UNCHANGED <<pc, ever, quit, crashes, env>>, stops' \subseteq stops,
           shown' \in Contexts, booted' \in BOOLEAN, overtook' \in 0..MaxOvertakes,
           overtook' = 0 => stops' = {} /\ quit \notin {"on", "rest"} /\ shown' = c
    PROVE  EInv'
<1>1. EngineTypeOK'
  <2>1. status' \in Statuses /\ start' \in [pc : {"off", "reap", "port", "probe", "wait"}, target : Procs \cup {None}]
    BY DEF Begun, Off, Statuses
  <2>2. stops' \subseteq [then : {"repoint", "retry", "move", "quit"}, ctx : Contexts, target : Procs]
    BY DEF EInv, EngineTypeOK
  <2>3. QED
    BY <2>1, <2>2 DEF Begun, EInv, EngineTypeOK, Statuses
<1>2. Only'
  BY DEF Begun, Only, Off
<1>3. Idle'
  BY DEF Begun, EInv, Idle
<1>4. ASSUME overtook' = 0 PROVE Quiet'
  BY <1>4 DEF Begun, Quiet, Rests, Off
<1>5. QED
  BY <1>1, <1>2, <1>3, <1>4 DEF EInv

LEMMA BootStep == ASSUME IInv, EInv, Boot, UNCHANGED vars PROVE EInv'
<1>1. PICK c \in Contexts : shown' = c /\ StartWith(c, child, status)
  BY DEF Boot
<1>2. Begun(c, status) /\ status \in Statuses
  BY <1>1, StartWithBegins DEF Boot, EInv, EngineTypeOK, Statuses
<1>3. overtook' \in 0..MaxOvertakes /\ (overtook' = 0 => stops' = {} /\ quit \notin {"on", "rest"})
  BY EngineAssumption DEF Boot, Overtakes, EInv, EngineTypeOK
<1>4. QED
  BY <1>1, <1>2, <1>3, BegunInv DEF Boot, vars

\* What Stopping() leaves: what follows the stop at once, or a kill that is awaited.
Kills(then, c, s) ==
    /\ child # None /\ child' = None /\ start' = Off /\ status' = s /\ conf' = conf
    /\ stops' = stops \cup {[then |-> then, ctx |-> c, target |-> child]}
    /\ proc' = [proc EXCEPT ![child] = "dying"]
    /\ quit' = (IF then = "quit" THEN "on" ELSE quit)

LEMMA KillsInv ==
    ASSUME IInv, EInv, pc = "use", NEW c \in Contexts, NEW s \in Statuses,
           NEW then \in {"repoint", "retry", "move", "quit"}, Kills(then, c, s), Overtakes,
           UNCHANGED <<pc, ever, crashes, env, booted>>, shown' \in Contexts,
           IF then = "repoint" THEN shown' = c ELSE shown' = shown
    PROVE  EInv'
<1>1. EngineTypeOK'
  <2>1. [then |-> then, ctx |-> c, target |-> child] \in [then : {"repoint", "retry", "move", "quit"}, ctx : Contexts, target : Procs]
    BY DEF Kills, EInv, EngineTypeOK
  <2>2. overtook' \in 0..MaxOvertakes
    BY EngineAssumption DEF Overtakes, EInv, EngineTypeOK
  <2>3. QED
    BY <2>1, <2>2 DEF Kills, EInv, EngineTypeOK, Off, Statuses
<1>2. Only' /\ \A p \in Procs : ~Alive(p)'
  BY DEF Kills, EInv, Only, Off, Alive, EngineTypeOK
<1>3. Idle'
  BY DEF Kills, EInv, Idle
<1>4. ASSUME overtook' = 0 PROVE Quiet'
  <2>1. stops = {} /\ quit \notin {"on", "rest"} /\ Quiet
    BY <1>4, EngineAssumption DEF Overtakes, EInv, EngineTypeOK
  <2>2. stops' = {[then |-> then, ctx |-> c, target |-> child]}
    BY <2>1 DEF Kills
  <2>3. conf' = shown' \/ (then = "repoint" /\ shown' = c)
    BY <2>1 DEF Kills, Quiet
  <2> DEFINE k == [then |-> then, ctx |-> c, target |-> child]
  <2>4. k.then = then /\ k.ctx = c /\ quit' # "rest" /\ (then = "quit" <=> quit' = "on")
    BY <2>1 DEF Kills
  <2>5. \A r \in stops' : stops' = {r} /\ quit' # "rest" /\ (r.then = "quit" <=> quit' = "on")
    BY <2>2, <2>4
  <2>6. /\ \A r \in stops' : r.then = "repoint" => r.ctx = shown'
        /\ conf' = shown' \/ \E r \in stops' : r.then = "repoint"
    BY <2>2, <2>3, <2>4
  <2>7. child' = None /\ start' = Off /\ stops' # {}
    BY <2>2 DEF Kills
  <2>8. QED
    BY <1>2, <2>5, <2>6, <2>7 DEF Quiet, Rests
<1>5. QED
  BY <1>1, <1>2, <1>3, <1>4 DEF EInv

\* What is left where no start follows: a relaunch is due, or the app is leaving.
LEMMA LeavingInv ==
    ASSUME IInv, EInv, pc = "use", UNCHANGED <<pc, ever, conf, child, proc, env, crashes, shown, booted>>,
           start' \in {start, Off}, status' \in Statuses, stops' \subseteq stops,
           quit' \in {"soon", "on", "rest"}, overtook' \in 0..MaxOvertakes,
           overtook' = 0 => stops' = {} /\ child = None /\ start' = Off /\ conf = shown
    PROVE  EInv'
<1>1. EngineTypeOK'
  BY DEF EInv, EngineTypeOK, Off, Statuses
<1>2. Only'
  BY DEF EInv, Only, Alive, Off
<1>3. Idle'
  BY DEF EInv, Idle, Alive
<1>4. ASSUME overtook' = 0 PROVE Quiet'
  BY <1>4 DEF Quiet, Rests
<1>5. QED
  BY <1>1, <1>2, <1>3, <1>4 DEF EInv

LEMMA StoppingInv ==
    ASSUME IInv, EInv, pc = "use", NEW c \in Contexts, NEW s \in Statuses,
           NEW then \in {"repoint", "retry", "move", "quit"}, Stopping(then, c, s), Overtakes,
           UNCHANGED <<pc, ever, crashes, env, booted>>, shown' \in Contexts,
           IF then = "repoint" THEN shown' = c ELSE shown' = shown
    PROVE  EInv'
<1>1. CASE child # None
  <2>1. Kills(then, c, s)
    BY <1>1 DEF Stopping, Kills, Killed
  <2>2. QED
    BY <2>1, KillsInv
<1>2. CASE child = None
  <2>1. After(then, c, s, Off) /\ stops' = stops
    BY <1>2 DEF Stopping
  <2>2. /\ overtook' \in 0..MaxOvertakes
        /\ overtook' = 0 => overtook = 0 /\ stops = {} /\ quit \notin {"on", "rest"} /\ conf = shown
    <3>1. /\ overtook' \in 0..MaxOvertakes
          /\ overtook' = 0 => overtook = 0 /\ stops = {} /\ quit \notin {"on", "rest"}
      BY EngineAssumption DEF Overtakes, EInv, EngineTypeOK
    <3>2. overtook = 0 /\ stops = {} => conf = shown
      BY DEF EInv, Quiet
    <3>3. QED
      BY <3>1, <3>2
  <2>3. CASE then = "repoint" /\ Begun(c, s) /\ quit' = quit
    <3>1. shown' = c /\ booted' \in BOOLEAN
      BY <2>3 DEF EInv, EngineTypeOK
    <3>2. QED
      BY <2>1, <2>2, <2>3, <3>1, BegunInv
  <2>4. CASE then \in {"retry", "move"} /\ Begun(shown, s) /\ quit' = quit
    <3>1. shown' = shown /\ shown \in Contexts /\ booted' \in BOOLEAN
      BY <2>4 DEF EInv, EngineTypeOK
    <3>2. QED
      BY <2>1, <2>2, <2>4, <3>1, BegunInv
  <2>5. CASE /\ then = "move" /\ quit' = (IF quit = "no" THEN "soon" ELSE quit)
             /\ start' = Off /\ status' = s /\ UNCHANGED <<conf, child, proc>>
    <3>1. shown' = shown /\ quit' \in {"soon", "on", "rest"}
      BY <2>5 DEF EInv, EngineTypeOK
    <3>2. QED
      BY <1>2, <2>1, <2>2, <2>5, <3>1, LeavingInv
  <2>6. CASE /\ then = "quit" /\ quit' = "rest" /\ status' = "stopped" /\ start' = Off
             /\ UNCHANGED <<conf, child, proc>>
    BY <1>2, <2>1, <2>2, <2>6, LeavingInv DEF Statuses
  <2>7. QED
    BY <2>1, <2>3, <2>4, <2>5, <2>6, AfterStop
<1>3. QED
  BY <1>1, <1>2

LEMMA ConnectStep == ASSUME IInv, EInv, NEW c \in Contexts, Connect(c), UNCHANGED vars PROVE EInv'
<1> USE DEF Connect, vars
<1>1. CASE c = conf
  <2>1. UNCHANGED <<quit, super, os>>
    BY <1>1 DEF os
  <2>2. QED
    BY <1>1, <2>1, EngineAssumption DEF super, os, Overtakes, EInv, EngineTypeOK, Only, Idle, Quiet, Rests, Alive
<1>2. CASE c # conf /\ child # None /\ Env[c] = Env[conf]
  BY <1>2, EngineAssumption DEF Overtakes, EInv, EngineTypeOK, Only, Idle, Quiet, Rests, Alive
<1>3. CASE c # conf /\ ~(child # None /\ Env[c] = Env[conf])
  BY <1>3, StoppingInv DEF Statuses
<1>4. QED
  BY <1>1, <1>2, <1>3

LEMMA PersonStep == ASSUME IInv, EInv, Retry \/ MoveData \/ Quit, UNCHANGED vars PROVE EInv'
<1>1. status \in Statuses /\ NoFarm \in Contexts /\ shown \in Contexts
  BY EngineAssumption DEF EInv, EngineTypeOK, Statuses
<1>2. CASE Retry
  BY <1>1, <1>2, StoppingInv DEF Retry, vars
<1>3. CASE MoveData
  BY <1>1, <1>3, StoppingInv DEF MoveData, vars
<1>4. CASE Quit
  BY <1>1, <1>4, StoppingInv DEF Quit, vars
<1>5. QED
  BY <1>2, <1>3, <1>4

LEMMA StopDoneStep == ASSUME IInv, EInv, StopDone, UNCHANGED vars PROVE EInv'
<1>1. PICK s \in stops : /\ proc[s.target] # "dying" /\ stops' = stops \ {s}
                         /\ After(s.then, s.ctx, status, start)
  BY DEF StopDone
<1>2. /\ s.then \in {"repoint", "retry", "move", "quit"} /\ s.ctx \in Contexts /\ pc = "use"
      /\ status \in Statuses /\ shown \in Contexts
  BY <1>1 DEF EInv, EngineTypeOK, Idle, Statuses
<1>3. UNCHANGED <<pc, ever, shown, booted, crashes, env, overtook>>
  BY DEF StopDone, vars
<1>4. stops' \subseteq stops /\ booted' \in BOOLEAN /\ overtook' \in 0..MaxOvertakes
  BY <1>1, <1>3 DEF EInv, EngineTypeOK
<1>5. ASSUME overtook = 0
      PROVE  /\ stops' = {} /\ child = None /\ start = Off /\ quit # "rest"
             /\ s.then = "quit" <=> quit = "on"
             /\ IF s.then = "repoint" THEN s.ctx = shown ELSE conf = shown
  BY <1>1, <1>5 DEF EInv, Quiet
<1>6. CASE s.then = "repoint" /\ Begun(s.ctx, status) /\ quit' = quit
  BY <1>1, <1>2, <1>3, <1>4, <1>5, <1>6, BegunInv
<1>7. CASE s.then \in {"retry", "move"} /\ Begun(shown, status) /\ quit' = quit
  BY <1>2, <1>3, <1>4, <1>5, <1>7, BegunInv
<1>8. CASE /\ s.then = "move" /\ quit' = (IF quit = "no" THEN "soon" ELSE quit)
           /\ start' = start /\ status' = status /\ UNCHANGED <<conf, child, proc>>
  <2>1. quit' \in {"soon", "on", "rest"}
    BY <1>8 DEF EInv, EngineTypeOK
  <2>2. QED
    BY <1>2, <1>3, <1>4, <1>5, <1>8, <2>1, LeavingInv
<1>9. CASE /\ s.then = "quit" /\ quit' = "rest" /\ status' = "stopped" /\ start' = start
           /\ UNCHANGED <<conf, child, proc>>
  BY <1>2, <1>3, <1>4, <1>5, <1>9, LeavingInv DEF Statuses
<1>10. QED
  BY <1>1, <1>2, <1>6, <1>7, <1>8, <1>9, AfterStop

LEMMA AwaitStep ==
    ASSUME IInv, EInv, Reaped \/ PortFound \/ Healthy \/ Unhealthy, UNCHANGED vars
    PROVE  EInv'
<1> USE DEF vars, shell, os, EInv, EngineTypeOK, Off
<1>1. CASE Reaped
  BY <1>1 DEF Reaped, Only, Idle, Quiet, Rests, Alive
<1>2. CASE PortFound
  BY <1>2 DEF PortFound, Only, Idle, Quiet, Rests, Alive
<1>3. CASE Healthy
  <2>1. child = start.target /\ child # None /\ pc = "use" /\ ever
    BY <1>3, EngineAssumption DEF Healthy, Only, Idle, Alive
  <2>2. EngineTypeOK'
    BY <1>3, EngineAssumption DEF Healthy
  <2>3. Only' /\ Idle'
    BY <1>3, <2>1 DEF Healthy, Only, Idle, Alive
  <2>4. ASSUME overtook' = 0 PROVE Quiet'
    BY <1>3, <2>1, <2>4 DEF Healthy, Quiet, Rests
  <2>5. QED
    BY <2>2, <2>3, <2>4
<1>4. CASE Unhealthy
  BY <1>4 DEF Unhealthy, Only, Idle, Quiet, Rests, Alive
<1>5. QED
  BY <1>1, <1>2, <1>3, <1>4

LEMMA SpawnedStep == ASSUME IInv, EInv, Spawned, UNCHANGED vars PROVE EInv'
<1>1. PICK p \in Procs : /\ proc[p] = "free" /\ proc' = [proc EXCEPT ![p] = "boot"]
                         /\ env' = [env EXCEPT ![p] = Env[conf]]
                         /\ child' = p /\ start' = [pc |-> "wait", target |-> p]
  BY DEF Spawned
<1>2. UNCHANGED <<shell, conf, stops, status, crashes, overtook, pc, ever>> /\ start.pc = "probe"
  BY DEF Spawned, vars
<1>3. pc = "use" /\ ever /\ child = None /\ (overtook = 0 => stops = {} /\ quit \notin {"on", "rest"} /\ Quiet)
  BY <1>2 DEF EInv, Only, Idle, Quiet, Off
<1>4. EngineTypeOK'
  <2>1. Env[conf] \in {Env[c] : c \in Contexts}
    BY DEF EInv, EngineTypeOK
  <2>2. QED
    BY <1>1, <1>2, <2>1 DEF shell, EInv, EngineTypeOK
<1>5. Only'
  <2>1. \A q \in Procs : ~Alive(q)
    BY <1>3, EngineAssumption DEF EInv, Only
  <2>2. proc \in [Procs -> {"free", "boot", "up", "dying", "dead"}] /\ DOMAIN env = Procs
    BY DEF EInv, EngineTypeOK
  <2>3. QED
    BY <1>1, <1>2, <2>1, <2>2 DEF Only, Alive
<1>6. Idle'
  BY <1>2, <1>3 DEF shell, Idle
<1>7. ASSUME overtook' = 0 PROVE Quiet'
  BY <1>1, <1>2, <1>3, <1>7, EngineAssumption DEF shell, Quiet, Rests
<1>8. QED
  BY <1>4, <1>5, <1>6, <1>7 DEF EInv

LEMMA ChildExitStep == ASSUME IInv, EInv, NEW p \in Procs, ChildExit(p), UNCHANGED vars PROVE EInv'
<1> USE DEF ChildExit, Gone, vars, shell, super
<1>1. proc[p] = "dead" /\ Env[NoFarm] \in {Env[c] : c \in Contexts}
  BY EngineAssumption
<1>2. CASE p # child
  BY <1>1, <1>2 DEF EInv, EngineTypeOK, Only, Idle, Quiet, Rests, Alive
<1>3. CASE p = child
  <2>1. pc = "use" /\ ever /\ child # None /\ (overtook = 0 => stops = {} /\ quit \notin {"on", "rest"} /\ conf = shown)
    BY <1>3, EngineAssumption DEF EInv, EngineTypeOK, Idle, Quiet
  <2>2. /\ child' = None /\ status' \in {"restarting", "error"}
        /\ start' \in {start, [pc |-> "port", target |-> None]}
        /\ crashes' \in 0..MaxRestarts
    BY <1>3, EngineAssumption DEF EInv, EngineTypeOK
  <2>3. EngineTypeOK'
    BY <1>1, <1>3, <2>2 DEF EInv, EngineTypeOK
  <2>4. \A q \in Procs : ~Alive(q)'
    BY <1>1, <1>3, <2>1 DEF EInv, EngineTypeOK, Only, Alive
  <2>5. Only' /\ Idle'
    BY <1>3, <2>1, <2>2, <2>4 DEF EInv, Only, Idle
  <2>6. ASSUME overtook' = 0 PROVE Quiet'
    BY <1>3, <2>1, <2>2, <2>6 DEF Quiet, Rests
  <2>7. QED
    BY <2>3, <2>5, <2>6 DEF EInv
<1>4. QED
  BY <1>2, <1>3

LEMMA ProcessStep ==
    ASSUME IInv, EInv, NEW p \in Procs, ProcUp(p) \/ ProcDies(p) \/ KillEnds(p), UNCHANGED vars
    PROVE  EInv'
<1> USE DEF vars, shell, super, EInv, EngineTypeOK, Only, Idle, Quiet, Rests, Alive
<1>1. CASE ProcUp(p)
  BY <1>1 DEF ProcUp
<1>2. CASE ProcDies(p)
  BY <1>2 DEF ProcDies
<1>3. CASE KillEnds(p)
  <2>1. Env[NoFarm] \in {Env[c] : c \in Contexts}
    BY EngineAssumption
  <2>2. QED
    BY <1>3, <2>1 DEF KillEnds, Gone
<1>4. QED
  BY <1>1, <1>2, <1>3

LEMMA FilesOnly ==
    ASSUME IInv, FileStep
    PROVE  (pc' = "off" <=> pc = "off") /\ (pc = "use" => pc' = "use") /\ (ever => ever')
<1>1. ever \in BOOLEAN /\ (job.step # "off" => pc = "use")
  BY DEF IInv, TypeOK, JobFacts
<1>2. CASE Restore
  BY <1>2 DEF Restore
<1>3. CASE Clear \/ Aside
  BY <1>3 DEF Clear, Aside
<1>4. CASE Swap \/ Undo \/ Tidy
  BY <1>1, <1>4 DEF Swap, Undo, Tidy
<1>5. CASE Install \/ Update
  BY <1>5 DEF Install, Update
<1>6. CASE Stage \/ Unpack \/ ClearTarget
  BY <1>6 DEF Stage, Unpack, ClearTarget
<1>7. CASE Rename \/ Release
  BY <1>1, <1>7 DEF Rename, Release
<1>8. QED
  BY <1>2, <1>3, <1>4, <1>5, <1>6, <1>7 DEF FileStep

\* The launch, the swap before the engine runs, and the exit.
LEMMA LifeStep ==
    ASSUME IInv, EInv, Launches \/ CutAtLaunch \/ Exit \/ FileStep
    PROVE  EInv'
<1> USE DEF EInv, EngineTypeOK, Only, Idle, Quiet, Rests, Alive, Off
<1>1. CASE Launches
  BY <1>1, EngineAssumption DEF Launches, Launch, shell, super
<1>2. CASE CutAtLaunch
  BY <1>2 DEF CutAtLaunch, Cut, engine, shell, super, os
<1>3. CASE Exit
  <2>1. pc = "use" /\ pc' = "off" /\ ever' = ever /\ UNCHANGED <<proc, env, overtook>>
    BY <1>3 DEF Exit, Cut, os
  <2>2. overtook = 0 => child = None
    BY <1>3 DEF Exit
  <2>3. (overtook = 0 \/ ~ever) => \A p \in Procs : ~Alive(p)
    BY <2>1, <2>2, EngineAssumption
  <2>4. 0 \in 0..MaxRestarts /\ NoFarm \in Contexts
    BY EngineAssumption
  <2>5. EngineTypeOK'
    BY <1>3, <2>1, <2>4 DEF Exit
  <2>6. Only' /\ Idle'
    BY <1>3, <2>1, <2>3 DEF Exit
  <2>7. ASSUME overtook' = 0 PROVE Quiet'
    BY <1>3, <2>1, <2>3, <2>7 DEF Exit
  <2>8. QED
    BY <2>5, <2>6, <2>7
<1>4. CASE FileStep
  <2>1. UNCHANGED <<shell, super, os, overtook>>
    BY <1>4 DEF FileStep, engine
  <2>2. (pc' = "off" <=> pc = "off") /\ (pc = "use" => pc' = "use") /\ (ever => ever')
    BY <1>4, FilesOnly
  <2>3. pc # "use" => overtook # 0 \/ \A p \in Procs : ~Alive(p)
    OBVIOUS
  <2>4. QED
    BY <2>1, <2>2 DEF shell, super, os
<1>5. QED
  BY <1>1, <1>2, <1>3, <1>4

LEMMA EngineInvStep == IInv /\ EInv /\ [ClientNext]_clientVars => EInv'
<1> SUFFICES ASSUME IInv, EInv, [ClientNext]_clientVars PROVE EInv'
  OBVIOUS
<1>1. CASE EngineStep /\ UNCHANGED vars
  BY <1>1, BootStep, ConnectStep, PersonStep, StopDoneStep, AwaitStep, SpawnedStep, ChildExitStep,
     ProcessStep DEF EngineStep
<1>2. CASE Launches \/ CutAtLaunch \/ Exit \/ FileStep
  BY <1>2, LifeStep
<1>3. CASE UNCHANGED clientVars
  BY <1>3 DEF clientVars, vars, engine, shell, super, os, EInv, EngineTypeOK, Only, Idle, Quiet, Rests, Alive
<1>4. QED
  BY <1>1, <1>2, <1>3 DEF ClientNext

LEMMA EngineInitInv == ClientInit => EInv
<1> SUFFICES ASSUME ClientInit PROVE EInv
  OBVIOUS
<1>1. EngineTypeOK
  <2>1. env \in [Procs -> {Env[c] : c \in Contexts}] /\ {MaxOvertakes, MaxRestarts} \subseteq Nat
    BY EngineAssumption DEF ClientInit, EngineInit
  <2>2. 0 \in 0..MaxOvertakes /\ 0 \in 0..MaxRestarts /\ NoFarm \in Contexts
    BY <2>1, EngineAssumption
  <2>3. proc \in [Procs -> {"free", "boot", "up", "dying", "dead"}]
    BY DEF ClientInit, EngineInit
  <2>4. QED
    BY <2>1, <2>2, <2>3 DEF ClientInit, EngineInit, EngineTypeOK, Off
<1>2. Only /\ Idle /\ Quiet
  BY DEF ClientInit, EngineInit, Init, Only, Idle, Quiet, Rests, Alive, Off
<1>3. QED
  BY <1>1, <1>2 DEF EInv

LEMMA ClientInvariant == ClientSpec => [](IInv /\ EInv)
BY SwapImplemented, Invariant, EngineInitInv, EngineInvStep, PTL DEF ClientSpec

-----------------------------------------------------------------------------
\* The supervisor's and the shell's variables keep their types.
THEOREM EngineTypeCorrect == ClientSpec => []EngineTypeOK
<1>1. EInv => EngineTypeOK
  BY DEF EInv
<1>2. QED
  BY <1>1, ClientInvariant, PTL

\* However starts, stops, crashes and restarts cross, no engine process runs but the
\* child; unless something overtook a stop, none runs while a data folder is copied,
\* while its files are replaced or after the app has exited.
THEOREM NeverTwoEngines == ClientSpec => []OneEngine
<1>1. IInv /\ EInv => OneEngine
  <2> SUFFICES ASSUME IInv, EInv PROVE OneEngine
    OBVIOUS
  <2>1. \A p \in Procs : Alive(p) => p = child \/ pc = "off"
    BY DEF EInv, Only
  <2>2. overtook = 0 /\ (pc # "use" \/ \E s \in stops : s.then = "move") => \A p \in Procs : ~Alive(p)
    <3>1. CASE pc # "use"
      BY <3>1 DEF EInv, Idle, Quiet
    <3>2. CASE pc = "use" /\ overtook = 0 /\ \E s \in stops : s.then = "move"
      BY <3>2, EngineAssumption DEF EInv, Only, Quiet
    <3>3. QED
      BY <3>1, <3>2
  <2>3. job.to = "live" /\ job.step \in {"clear", "rename"} => ~ever
    BY DEF IInv, JobFacts
  <2>4. QED
    BY <2>1, <2>2, <2>3 DEF EInv, Idle, OneEngine
<1>2. QED
  BY <1>1, ClientInvariant, PTL

\* At rest, the engine runs with what the shell says it runs with.
THEOREM RunsWhatItSays == ClientSpec => []RunsAsShown
<1>1. EInv => RunsAsShown
  <2> SUFFICES ASSUME EInv, Rests, status = "ready" PROVE child # None /\ env[child] = Env[shown]
    BY DEF RunsAsShown
  <2>1. child # None /\ conf = shown
    BY DEF EInv, Quiet, Rests
  <2>2. QED
    BY <2>1 DEF EInv, Only
<1>2. QED
  BY <1>1, ClientInvariant, PTL

\* Inside the shell, too, the app is never without an engine, nor with a part of one.
THEOREM EngineStays == ClientSpec => []EngineAlways
BY SwapImplemented, NeverWithoutEngine, PTL
=============================================================================
