----------------------------- MODULE FarmRun_proofs -----------------------------
(* Proofs about a running farm, for any number of processes, any sets of models,  *)
(* presses and deaths.                                                            *)
EXTENDS FarmRun, TLAPS

Backends == {"ollama", "llamacpp"}
Values == ModelSets \cup Backends \cup {None}
ProcStates == {"free", "boot", "ok", "dying", "dead"}
Bouncing == {"kill", "boot", "killnew"}

OpRecords ==
    [kind : {"none", "model", "switch", "recover"}, to : Values, from : Values,
     recent : BOOLEAN, undo : BOOLEAN, keep : Values, ok : BOOLEAN,
     pc : {"off", "begin", "bounce", "back", "unload", "prep", "load", "unloadfailed"} \cup Bouncing]

\* What a task holds fits what it is for.
Fits(o) ==
    /\ o \in OpRecords
    /\ o.kind = "none" => o = Idle
    /\ o.kind = "switch" => o.to \in Backends /\ o.from \in Backends /\ (o.pc # "begin" => o.keep \in Backends)
    /\ o.kind = "model" => o.to \in ModelSets /\ (o.pc # "begin" => o.keep \in ModelSets)
    /\ o.pc = "unload" => o.kind = "switch"
    /\ o.pc \in {"prep", "load", "unloadfailed"} => o.kind \in {"switch", "recover"}

Waits(o) == Fits(o) /\ o.pc = "begin" /\ o.kind # "none"

Shape ==
    /\ Fits(op)
    /\ queue \in Seq({o \in OpRecords : Waits(o)})
    /\ down \in [pc : {"off", "proxy", "engine", "over"}, proxy : Proxies \cup {None},
                 engine : Engines \cup {None}]

(***************************************************************************)
(* A farm that is on its way out has no LiteLLM that could still serve: it  *)
(* kills the current one as it raises the flag, and no bounce spawns after. *)
(***************************************************************************)
OneLite ==
    /\ OneProxy
    /\ farm # "up" => \A p \in Proxies : proxy[p] \notin {"boot", "ok"}

Inv == TypeOK /\ Shape /\ OneLite

-----------------------------------------------------------------------------
(* What the steps are made of. *)

LEMMA KilledFacts ==
  ASSUME NEW S, None \notin S, NEW procs \in [S -> ProcStates], NEW p \in S \cup {None}
  PROVE  /\ Killed(procs, p) \in [S -> ProcStates]
         /\ \A q \in S : Killed(procs, p)[q] \in {"boot", "ok"} => procs[q] \in {"boot", "ok"} /\ q # p
  BY DEF Killed, ProcStates

LEMMA FitsFacts ==
  /\ Fits(Idle)
  /\ \A m \in ModelSets, soon \in BOOLEAN : Waits(Task("model", m, None, soon))
  /\ \A e, f \in Backends, soon \in BOOLEAN : Waits(Task("switch", e, f, soon))
  /\ \A soon \in BOOLEAN : Waits(Task("recover", None, None, soon))
<1> USE DEF Fits, Waits, OpRecords, Idle, Task, Values, Bouncing, Backends
<1>1. Fits(Idle)
  OBVIOUS
<1>2. ASSUME NEW m \in ModelSets, NEW soon \in BOOLEAN PROVE Waits(Task("model", m, None, soon))
  OBVIOUS
<1>3. ASSUME NEW e \in Backends, NEW f \in Backends, NEW soon \in BOOLEAN
      PROVE  Waits(Task("switch", e, f, soon))
  OBVIOUS
<1>4. ASSUME NEW soon \in BOOLEAN PROVE Waits(Task("recover", None, None, soon))
  OBVIOUS
<1> QED BY <1>1, <1>2, <1>3, <1>4

\* Moving a task on keeps it fit.
Kept(o) == /\ o.kind = "switch" => o.keep \in Backends
           /\ o.kind = "model" => o.keep \in ModelSets
Later == {"bounce", "back", "unload", "prep", "load", "unloadfailed"} \cup Bouncing

LEMMA Moved ==
  ASSUME NEW o, Fits(o), o.kind # "none"
  PROVE  /\ \A pc \in Later : /\ Kept(o)
                              /\ pc = "unload" => o.kind = "switch"
                              /\ pc \in {"prep", "load", "unloadfailed"} => o.kind \in {"switch", "recover"}
              => /\ Fits(AtPc(o, pc)) /\ AtPc(o, pc).pc = pc /\ AtPc(o, pc).kind = o.kind
                 /\ \A b \in BOOLEAN : /\ Fits([AtPc(o, pc) EXCEPT !.undo = b])
                                       /\ [AtPc(o, pc) EXCEPT !.undo = b].pc = pc
         /\ \A b \in BOOLEAN : LET n == [o EXCEPT !.undo = b]
                               IN  Fits(n) /\ n.kind = o.kind /\ n.pc = o.pc /\ n.to = o.to /\ n.from = o.from
                                   /\ n.keep = o.keep
         /\ o.pc # "begin" => Kept(o)
<1> USE DEF Fits, OpRecords, Values, Bouncing, Kept, AtPc, Later
<1>1. ASSUME NEW pc \in Later, Kept(o), pc = "unload" => o.kind = "switch",
             pc \in {"prep", "load", "unloadfailed"} => o.kind \in {"switch", "recover"}
      PROVE  /\ Fits(AtPc(o, pc)) /\ AtPc(o, pc).pc = pc /\ AtPc(o, pc).kind = o.kind
             /\ \A b \in BOOLEAN : /\ Fits([AtPc(o, pc) EXCEPT !.undo = b])
                                   /\ [AtPc(o, pc) EXCEPT !.undo = b].pc = pc
  <2>1. AtPc(o, pc) \in OpRecords /\ AtPc(o, pc).pc = pc /\ AtPc(o, pc).kind = o.kind
    OBVIOUS
  <2>2. Fits(AtPc(o, pc))
    BY <1>1, <2>1
  <2>3. ASSUME NEW b \in BOOLEAN
        PROVE  [AtPc(o, pc) EXCEPT !.undo = b] \in OpRecords /\ [AtPc(o, pc) EXCEPT !.undo = b].pc = pc
    <3> HIDE DEF Fits, Values, Bouncing, Kept, AtPc, Later
    <3> QED BY <2>1, ZenonT(60) DEF OpRecords
  <2>4. ASSUME NEW b \in BOOLEAN PROVE Fits([AtPc(o, pc) EXCEPT !.undo = b])
    BY <1>1, <2>3, ZenonT(60)
  <2> HIDE DEF Fits, OpRecords, Values, Bouncing, Kept, AtPc, Later
  <2> QED BY <2>1, <2>2, <2>3, <2>4, Zenon
<1>2. ASSUME NEW b \in BOOLEAN
      PROVE  LET n == [o EXCEPT !.undo = b]
             IN  Fits(n) /\ n.kind = o.kind /\ n.pc = o.pc /\ n.to = o.to /\ n.from = o.from /\ n.keep = o.keep
  OBVIOUS
<1>3. o.pc # "begin" => Kept(o)
  OBVIOUS
<1> HIDE DEF Fits, OpRecords, Values, Bouncing, Kept, AtPc, Later
<1> QED BY <1>1, <1>2, <1>3, Zenon

LEMMA MovedTo ==
  ASSUME NEW o, Fits(o), o.kind # "none", Kept(o), NEW pc \in Later, pc = "unload" => o.kind = "switch",
         pc \in {"prep", "load", "unloadfailed"} => o.kind \in {"switch", "recover"}
  PROVE  Fits(AtPc(o, pc)) /\ AtPc(o, pc).pc = pc
BY Moved, Zenon

LEMMA MovedBack ==
  ASSUME NEW o, Fits(o), o.kind # "none", Kept(o), NEW b \in BOOLEAN
  PROVE  Fits([o EXCEPT !.pc = "back", !.ok = b]) /\ [o EXCEPT !.pc = "back", !.ok = b].pc = "back"
BY ZenonT(60) DEF Fits, OpRecords, Values, Bouncing, Kept

LEMMA Starts == Init => Inv
<1> SUFFICES ASSUME Init PROVE Inv
  OBVIOUS
<1> USE FarmAssumption
<1>1. TypeOK
  <2>0. /\ exit.pc = "off" /\ exit.pid = None /\ farm = "up" /\ down.pc = "off"
        /\ presses \in 0..MaxPresses /\ deaths \in 0..MaxDeaths
    BY DEF Init
  <2>1. restarting = FALSE /\ died = FALSE /\ op = Idle /\ Idle.kind = "none" /\ Idle.pc = "off"
    BY DEF Init, Idle
  <2>2. /\ llama \in Engines \cup {None}
        /\ proxy \in [Proxies -> {"free", "boot", "ok", "dying", "dead"}]
        /\ engineProc \in [Engines -> {"free", "boot", "ok", "dying", "dead"}]
    BY DEF Init
  <2>3. file \in [proxy : Proxies, engine : Engines \cup {None}]
    BY <2>2 DEF Init
  <2>4. (restarting <=> op.pc \in {"kill", "boot", "killnew"}) /\ died \in BOOLEAN
    BY <2>1
  <2>5. child \in Proxies /\ engine \in {"ollama", "llamacpp"} /\ models \in ModelSets
    BY DEF Init
  <2> QED BY <2>0, <2>1, <2>2, <2>3, <2>4, <2>5 DEF TypeOK
<1>2. Shape
  BY FitsFacts DEF Init, Shape
<1>3. OneLite
  BY DEF Init, OneLite, OneProxy
<1> QED BY <1>1, <1>2, <1>3 DEF Inv

-----------------------------------------------------------------------------
(* A step of a task leaves a fitting task, and an engine, a set of models and a  *)
(* llama-server of the right kind.                                               *)

FileOk(f) == f = None \/ f \in [proxy : Proxies, engine : Engines \cup {None}]
Steps == Fits(op') /\ op'.pc \notin Bouncing
Serves == /\ engine' \in Backends /\ models' \in ModelSets /\ FileOk(file')
          /\ llama' \in Engines \cup {None} /\ engineProc' \in [Engines -> ProcStates]

LEMMA Typing ==
  ASSUME TypeOK, Shape
  PROVE  /\ engine \in Backends /\ models \in ModelSets /\ FileOk(file) /\ child \in Proxies
         /\ llama \in Engines \cup {None} /\ engineProc \in [Engines -> ProcStates]
         /\ proxy \in [Proxies -> ProcStates]
         /\ Fits(op) /\ op \in OpRecords /\ (op.pc # "off" => op.kind # "none")
         /\ Killed(engineProc, llama) \in [Engines -> ProcStates]
<1>1. engineProc \in [Engines -> ProcStates] /\ llama \in Engines \cup {None}
  BY DEF TypeOK, ProcStates
<1>2. Killed(engineProc, llama) \in [Engines -> ProcStates]
  BY <1>1, KilledFacts, FarmAssumption
<1>3. op.pc # "off" => op.kind # "none"
  BY DEF TypeOK, Idle
<1> QED BY <1>1, <1>2, <1>3 DEF TypeOK, Shape, Fits, Backends, FileOk, ProcStates

LEMMA StartingSteps ==
  ASSUME NEW o, Fits(o), o.kind = "switch", Kept(o), NEW e, Starting(o, e)
  PROVE  Steps
<1>1. PICK pc \in {"prep", "bounce"} : op' = AtPc(o, pc)
  BY DEF Starting
<1>2. Fits(AtPc(o, pc)) /\ AtPc(o, pc).pc = pc
  BY Moved DEF Later
<1> QED BY <1>1, <1>2 DEF Steps, Bouncing

LEMMA RestoreKeeps ==
  ASSUME TypeOK, Shape, NEW o, Fits(o), o.kind = "switch", o.pc # "begin", Restore(o)
  PROVE  Steps /\ Serves
<1> DEFINE n == [o EXCEPT !.undo = TRUE]
<1>1. Fits(n) /\ n.kind = "switch" /\ n.keep = o.keep /\ Kept(o)
  BY Moved, Zenon
<1>2. Kept(n) /\ o.keep \in Backends
  BY <1>1 DEF Kept
<1>3. Starting(n, o.from) /\ engine' = o.keep /\ UNCHANGED <<models, file, serving>>
  BY DEF Restore
<1>4. Steps
  BY <1>1, <1>2, <1>3, StartingSteps
<1> QED BY <1>2, <1>3, <1>4, Typing DEF Serves, serving

LEMMA TurnToKeeps ==
  ASSUME TypeOK, Shape, NEW o, Fits(o), o.kind = "switch", Kept(o), TurnTo(o)
  PROVE  Steps /\ Serves
<1>1. o.to \in Backends
  BY DEF Fits
<1>2. Starting(o, o.to) /\ engine' = o.to /\ UNCHANGED <<models, file, serving>>
  BY DEF TurnTo
<1>3. Steps
  BY <1>2, StartingSteps
<1> QED BY <1>1, <1>2, <1>3, Typing DEF Serves, serving

LEMMA UnloadKeeps ==
  ASSUME TypeOK, Shape, NEW o, Fits(o), o.kind = "switch", Kept(o), Unload(o)
  PROVE  Steps /\ Serves
<1>1. Fits(AtPc(o, "unload")) /\ AtPc(o, "unload").pc = "unload"
  <2>1. "unload" \in Later
    BY DEF Later
  <2> QED BY <2>1, MovedTo
<1>2. Steps
  BY <1>1 DEF Unload, Steps, Bouncing
<1>3. Serves
  BY Typing DEF Serves, Unload
<1> QED BY <1>2, <1>3

LEMMA FallBackKeeps ==
  ASSUME TypeOK, Shape, op.kind = "recover", FallBack
  PROVE  Steps /\ Serves
<1>1. Kept(op)
  BY DEF Kept
<1>2. op' = [AtPc(op, "bounce") EXCEPT !.undo = TRUE] /\ engine' = "ollama" /\ UNCHANGED <<models, file, serving>>
  BY DEF FallBack
<1>3. Fits(op') /\ op'.pc = "bounce"
  BY <1>1, <1>2, Typing, Moved DEF Later
<1> QED BY <1>2, <1>3, Typing DEF Serves, serving, Steps, Bouncing, Backends

LEMMA LoadedKeeps ==
  ASSUME TypeOK, Shape, op.pc \in {"prep", "load", "unloadfailed"}, NEW ok \in BOOLEAN, Loaded(ok)
  PROVE  Steps /\ Serves
<1>1. op.kind \in {"switch", "recover"} /\ Fits(op) /\ op.pc # "begin" /\ Kept(op)
  BY Typing, Moved DEF Fits
<1>2. CASE op.kind = "switch" /\ (ok \/ op.undo)
  <2>1. op' = AtPc(op, "bounce") /\ UNCHANGED <<engine, models, file, serving>>
    BY <1>2 DEF Loaded
  <2>2. "bounce" \in Later
    BY DEF Later
  <2>3. Fits(op') /\ op'.pc = "bounce"
    BY <1>1, <1>2, <2>1, <2>2, MovedTo
  <2> QED BY <2>1, <2>3, Typing DEF Serves, serving, Steps, Bouncing
<1>3. CASE op.kind = "switch" /\ ~ok /\ ~op.undo
  BY <1>1, <1>3, RestoreKeeps DEF Loaded
<1>4. CASE op.kind = "recover" /\ ok
  <2>1. op' = Idle /\ UNCHANGED <<engine, models, file, serving>>
    BY <1>4 DEF Loaded, Done
  <2> QED BY <2>1, Typing, FitsFacts DEF Serves, serving, Steps, Bouncing, Idle
<1>5. CASE op.kind = "recover" /\ ~ok
  BY <1>5, FallBackKeeps DEF Loaded
<1> QED BY <1>1, <1>2, <1>3, <1>4, <1>5

LEMMA TaskKeeps ==
  ASSUME TypeOK, Shape, TaskStep
  PROVE  Steps /\ Serves
<1> USE Typing
<1>d. Done => Steps
  BY FitsFacts DEF Done, Steps, Bouncing, Idle
<1>l. "bounce" \in Later /\ "prep" \in Later
  BY DEF Later
<1>1. CASE BeginModel
  <2>1. op.kind = "model" /\ op.pc = "begin" /\ op.to \in ModelSets /\ models' = op.to /\ UNCHANGED <<engine, file, serving>>
    BY <1>1 DEF BeginModel, Fits
  <2>2. Serves
    BY <2>1 DEF Serves, serving
  <2>3. CASE op' = [AtPc(op, "bounce") EXCEPT !.keep = models]
    <3>1. op' \in OpRecords /\ op'.kind = "model" /\ op'.pc = "bounce" /\ op'.keep = models /\ op'.to = op.to
      BY <2>1, <2>3 DEF OpRecords, AtPc, Values
    <3> QED BY <2>1, <2>2, <3>1 DEF Steps, Fits, Bouncing
  <2> QED BY <1>1, <1>d, <2>2, <2>3 DEF BeginModel
<1>2. CASE ModelBack
  <2>1. op.kind = "model" /\ op.pc = "back" /\ UNCHANGED <<engine, file, serving>>
    BY <1>2 DEF ModelBack
  <2>2. Kept(op) /\ op.keep \in ModelSets
    BY <2>1, Moved DEF Kept
  <2>3. CASE models' = op.keep /\ op' = [AtPc(op, "bounce") EXCEPT !.undo = TRUE]
    <3>1. Fits(op') /\ op'.pc = "bounce"
      BY <2>1, <2>2, <2>3, <1>l, Moved
    <3> QED BY <2>1, <2>2, <2>3, <3>1 DEF Steps, Serves, serving, Bouncing
  <2>4. CASE Done /\ UNCHANGED models
    BY <1>d, <2>1, <2>4 DEF Serves, serving
  <2> QED BY <1>2, <2>3, <2>4 DEF ModelBack
<1>3. CASE BeginSwitch
  <2> DEFINE o == [op EXCEPT !.keep = engine]
  <2>1. op.kind = "switch" /\ op.pc = "begin"
    BY <1>3 DEF BeginSwitch
  <2>2. o \in OpRecords /\ o.kind = "switch" /\ o.pc = "begin" /\ o.keep = engine /\ o.to = op.to /\ o.from = op.from
    BY <2>1 DEF OpRecords, Values
  <2>3. Fits(o) /\ Kept(o)
    BY <2>1, <2>2 DEF Fits, Kept
  <2>4. Unload(o) \/ TurnTo(o)
    BY <1>3 DEF BeginSwitch
  <2> HIDE DEF o
  <2> QED BY <2>2, <2>3, <2>4, UnloadKeeps, TurnToKeeps
<1>4. CASE SwitchBack
  <2>1. op.kind = "switch" /\ op.pc = "back" /\ Kept(op)
    BY <1>4, Moved DEF SwitchBack
  <2>2. CASE Done /\ file' = Recorded(child, llama) /\ UNCHANGED <<engine, models, serving>>
    <3>1. FileOk(file')
      BY <2>2 DEF Recorded, FileOk
    <3> QED BY <1>d, <2>2, <3>1 DEF Serves, serving
  <2>3. CASE UndoSwitch
    <3> DEFINE o == [op EXCEPT !.undo = TRUE]
    <3>1. Fits(o) /\ o.kind = "switch" /\ Kept(o)
      BY <2>1, Moved DEF Kept
    <3>2. Unload(o) \/ Restore(op)
      BY <2>3 DEF UndoSwitch
    <3> HIDE DEF o
    <3>3. Restore(op) => Steps /\ Serves
      BY <2>1, RestoreKeeps
    <3> QED BY <3>1, <3>2, <3>3, UnloadKeeps
  <2> QED BY <1>4, <2>2, <2>3 DEF SwitchBack
<1>5. CASE Unloaded
  <2>1. op.kind = "switch" /\ op.pc = "unload" /\ Kept(op)
    BY <1>5, Moved DEF Unloaded, Fits
  <2>2. Restore(op) \/ TurnTo(op)
    BY <1>5 DEF Unloaded
  <2> QED BY <2>1, <2>2, RestoreKeeps, TurnToKeeps
<1>6. CASE BeginRecover
  <2>1. op.kind = "recover" /\ op.pc = "begin" /\ Kept(op)
    BY <1>6 DEF BeginRecover, Kept
  <2>2. CASE Done /\ UNCHANGED <<engine, models, file, serving>>
    BY <1>d, <2>2 DEF Serves, serving
  <2>3. CASE op' = AtPc(op, "prep") /\ UNCHANGED <<engine, models, file, serving>>
    <3>1. Fits(op') /\ op'.pc = "prep"
      BY <1>l, <2>1, <2>3, MovedTo
    <3> QED BY <2>3, <3>1 DEF Steps, Bouncing, Serves, serving
  <2> QED BY <1>6, <2>1, <2>2, <2>3, FallBackKeeps DEF BeginRecover
<1>7. CASE RecoverBack
  BY <1>7, <1>d DEF RecoverBack, Serves, serving
<1>8. CASE PrepFails
  BY <1>8, LoadedKeeps DEF PrepFails
<1>9. CASE EngineSpawned
  <2>1. op.pc = "prep" /\ op.kind \in {"switch", "recover"} /\ Kept(op) /\ "load" \in Later
    BY <1>9, Moved DEF EngineSpawned, Fits, Later
  <2>2. op' = AtPc(op, "load") /\ UNCHANGED <<engine, models, file>>
    BY <1>9 DEF EngineSpawned
  <2>3. Fits(op') /\ op'.pc = "load"
    BY <2>1, <2>2, MovedTo
  <2>4. llama' \in Engines /\ engineProc' \in [Engines -> ProcStates]
    BY <1>9 DEF EngineSpawned, ProcStates
  <2> QED BY <2>2, <2>3, <2>4 DEF Steps, Bouncing, Serves
<1>10. CASE LoadOk
  BY <1>10, LoadedKeeps DEF LoadOk
<1>11. CASE LoadFails
  <2>1. op.pc = "load" /\ op.kind \in {"switch", "recover"} /\ Kept(op) /\ "unloadfailed" \in Later
    BY <1>11, Moved DEF LoadFails, Fits, Later
  <2>2. CASE Loaded(FALSE)
    BY <2>1, <2>2, LoadedKeeps
  <2>3. CASE /\ llama' = None /\ engineProc' = Killed(engineProc, llama)
             /\ op' = AtPc(op, "unloadfailed") /\ UNCHANGED <<engine, models, file>>
    <3>1. Fits(op') /\ op'.pc = "unloadfailed"
      BY <2>1, <2>3, MovedTo
    <3> QED BY <2>3, <3>1 DEF Steps, Bouncing, Serves
  <2> QED BY <1>11, <2>2, <2>3 DEF LoadFails
<1>12. CASE FailedGone
  BY <1>12, LoadedKeeps DEF FailedGone
<1> QED BY <1>1, <1>2, <1>3, <1>4, <1>5, <1>6, <1>7, <1>8, <1>9, <1>10, <1>11, <1>12 DEF TaskStep

-----------------------------------------------------------------------------
(* The invariant in parts, so that a step says which of them it touches. *)

ExitPart == /\ farm \in {"up", "stopping", "gone"} /\ exit.pc \in {"off", "proxy", "engine", "others"}
            /\ (exit.pc # "off" <=> farm = "stopping") /\ exit.pid \in Proxies \cup Engines \cup {None}
LitePart == proxy \in [Proxies -> ProcStates] /\ child \in Proxies
ServingPart == /\ engine \in Backends /\ models \in ModelSets
               /\ llama \in Engines \cup {None} /\ engineProc \in [Engines -> ProcStates]
TaskPart == Fits(op) /\ (restarting <=> op.pc \in Bouncing)
Waiting == {o \in OpRecords : Waits(o)}
QueuePart == queue \in Seq(Waiting)
DownPart == down \in [pc : {"off", "proxy", "engine", "over"}, proxy : Proxies \cup {None},
                      engine : Engines \cup {None}]
BoundsPart == died \in BOOLEAN /\ presses \in 0..MaxPresses /\ deaths \in 0..MaxDeaths

LEMMA Parts ==
  Inv <=> /\ ExitPart /\ LitePart /\ ServingPart /\ TaskPart /\ QueuePart /\ DownPart /\ BoundsPart
          /\ FileOk(file) /\ OneLite
<1>1. ASSUME Fits(op) PROVE op.kind \in {"none", "model", "switch", "recover"} /\ (op.kind = "none" <=> op = Idle)
  BY <1>1 DEF Fits, OpRecords, Idle
<1>2. ASSUME DownPart PROVE down.pc \in {"off", "proxy", "engine", "over"}
  BY <1>2 DEF DownPart
<1>3. ASSUME Inv
      PROVE  /\ ExitPart /\ LitePart /\ ServingPart /\ TaskPart /\ QueuePart /\ DownPart /\ BoundsPart
             /\ FileOk(file) /\ OneLite
  <2>1. ExitPart /\ FileOk(file) /\ OneLite
    BY <1>3 DEF Inv, TypeOK, ExitPart, FileOk
  <2>2. LitePart /\ ServingPart /\ BoundsPart
    BY <1>3 DEF Inv, TypeOK, LitePart, ServingPart, BoundsPart, ProcStates, Backends
  <2>3. TaskPart
    BY <1>3 DEF Inv, TypeOK, Shape, TaskPart, Bouncing
  <2>4. QueuePart /\ DownPart
    BY <1>3 DEF Inv, Shape, QueuePart, DownPart, Waiting
  <2> QED BY <2>1, <2>2, <2>3, <2>4
<1>4. ASSUME ExitPart, LitePart, ServingPart, TaskPart, QueuePart, DownPart, BoundsPart, FileOk(file), OneLite
      PROVE  Inv
  <2>1. Shape
    BY <1>4 DEF Shape, TaskPart, QueuePart, DownPart, Waiting
  <2>2. restarting <=> op.pc \in {"kill", "boot", "killnew"}
    BY <1>4 DEF TaskPart, Bouncing
  <2>3. farm \in {"up", "stopping", "gone"} /\ exit.pc \in {"off", "proxy", "engine", "others"}
        /\ (exit.pc # "off" <=> farm = "stopping") /\ exit.pid \in Proxies \cup Engines \cup {None}
        /\ (file = None \/ file \in [proxy : Proxies, engine : Engines \cup {None}])
    BY <1>4 DEF ExitPart, FileOk
  <2>4. /\ proxy \in [Proxies -> {"free", "boot", "ok", "dying", "dead"}] /\ child \in Proxies
        /\ engineProc \in [Engines -> {"free", "boot", "ok", "dying", "dead"}]
        /\ llama \in Engines \cup {None} /\ engine \in {"ollama", "llamacpp"} /\ models \in ModelSets
        /\ died \in BOOLEAN /\ presses \in 0..MaxPresses /\ deaths \in 0..MaxDeaths
    BY <1>4 DEF LitePart, ServingPart, BoundsPart, ProcStates, Backends
  <2>5. op.kind \in {"none", "model", "switch", "recover"} /\ (op.kind = "none" <=> op = Idle)
        /\ down.pc \in {"off", "proxy", "engine", "over"}
    BY <1>1, <1>2, <1>4 DEF TaskPart
  <2>6. TypeOK
    BY <2>2, <2>3, <2>4, <2>5 DEF TypeOK
  <2> QED BY <1>4, <2>1, <2>6 DEF Inv
<1> QED BY <1>3, <1>4

-----------------------------------------------------------------------------
(* LiteLLM: what a kill and a start do to it. *)

LEMMA LiteKilled ==
  ASSUME LitePart, OneLite, NEW p \in Proxies \cup {None}, proxy' = Killed(proxy, p), child' = child
  PROVE  /\ LitePart'
         /\ \A q \in Proxies : proxy'[q] \in {"boot", "ok"} => proxy[q] \in {"boot", "ok"} /\ q = child /\ q # p
<1>1. Killed(proxy, p) \in [Proxies -> ProcStates]
      /\ \A q \in Proxies : Killed(proxy, p)[q] \in {"boot", "ok"} => proxy[q] \in {"boot", "ok"} /\ q # p
  BY KilledFacts, FarmAssumption DEF LitePart
<1> QED BY <1>1 DEF LitePart, OneLite, OneProxy

\* The current one is killed as the farm starts to stop: none is left.
LEMMA ShutDownKeeps ==
  ASSUME LitePart, OneLite, ShutDown, child' = child
  PROVE  LitePart' /\ ExitPart' /\ OneLite'
<1>1. LitePart' /\ \A q \in Proxies : proxy'[q] \notin {"boot", "ok"}
  BY LiteKilled DEF ShutDown, LitePart
<1>2. ExitPart'
  BY DEF ShutDown, ExitPart, LitePart
<1> QED BY <1>1, <1>2 DEF OneLite, OneProxy

\* One that is not taken for a new start can only go down.
LEMMA LiteEnds ==
  ASSUME LitePart, OneLite, NEW p \in Proxies, NEW to \in {"free", "dead"},
         proxy' = [proxy EXCEPT ![p] = to], UNCHANGED <<child, farm>>
  PROVE  LitePart' /\ OneLite'
BY DEF LitePart, OneLite, OneProxy, ProcStates

-----------------------------------------------------------------------------
(* Every step keeps the parts. *)

IInv == /\ ExitPart /\ LitePart /\ ServingPart /\ TaskPart /\ QueuePart /\ DownPart /\ BoundsPart
        /\ FileOk(file) /\ OneLite

LEMMA KillingServes ==
  ASSUME ServingPart, NEW p, p \in Proxies \cup Engines \cup {None}
  PROVE  Killed(engineProc, p) \in [Engines -> ProcStates]
BY DEF Killed, ServingPart, ProcStates

LEMMA OperatorStep == IInv /\ (Operator \/ Take) => IInv'
<1> SUFFICES ASSUME IInv, Operator \/ Take PROVE IInv'
  OBVIOUS
<1> USE DEF IInv
<1>1. ASSUME NEW t \in Waiting, Press(t) PROVE IInv'
  <2>1. QueuePart'
    BY <1>1 DEF Press, QueuePart
  <2>2. BoundsPart'
    BY <1>1, FarmAssumption DEF Press, BoundsPart
  <2>3. ExitPart' /\ LitePart' /\ ServingPart' /\ TaskPart' /\ DownPart' /\ FileOk(file)' /\ OneLite'
    BY <1>1 DEF Press, ExitPart, LitePart, ServingPart, TaskPart, DownPart, OneLite, OneProxy, lite, serving, config
  <2> QED BY <2>1, <2>2, <2>3
<1>2. ASSUME NEW m \in ModelSets, ServeModels(m) PROVE IInv'
  <2>1. Task("model", m, None, FALSE) \in Waiting
    BY FitsFacts DEF Waiting, Waits, Fits
  <2> QED BY <1>1, <1>2, <2>1 DEF ServeModels
<1>3. ASSUME NEW e \in Backends, SwitchEngine(e) PROVE IInv'
  <2>1. Task("switch", e, engine, FALSE) \in Waiting
    BY FitsFacts DEF Waiting, Waits, Fits, ServingPart
  <2> QED BY <1>1, <1>3, <2>1 DEF SwitchEngine
<1>4. CASE Signal
  <2>1. LitePart' /\ ExitPart' /\ OneLite'
    BY <1>4, ShutDownKeeps DEF Signal
  <2>2. ServingPart' /\ TaskPart' /\ QueuePart' /\ DownPart' /\ BoundsPart' /\ FileOk(file)'
    BY <1>4 DEF Signal, ServingPart, TaskPart, QueuePart, DownPart, BoundsPart, serving, config, chain, bounds
  <2> QED BY <2>1, <2>2
<1>5. CASE Take
  <2>1. Head(queue) \in Waiting /\ Tail(queue) \in Seq(Waiting) /\ op = Idle
    BY <1>5 DEF Take, QueuePart
  <2>2. Fits(op') /\ op'.pc = "begin" /\ ~restarting
    BY <1>5, <2>1 DEF Take, Waiting, Waits, TaskPart, Idle, Bouncing
  <2>3. TaskPart' /\ QueuePart'
    BY <1>5, <2>1, <2>2 DEF Take, TaskPart, QueuePart, Bouncing, lite
  <2>4. ExitPart' /\ LitePart' /\ ServingPart' /\ DownPart' /\ BoundsPart' /\ FileOk(file)' /\ OneLite'
    BY <1>5 DEF Take, ExitPart, LitePart, ServingPart, DownPart, BoundsPart, OneLite, OneProxy, lite, serving, config, bounds
  <2> QED BY <2>3, <2>4
<1> QED BY <1>2, <1>3, <1>4, <1>5 DEF Operator, Backends

LEMMA TaskSteps == IInv /\ TaskStep => IInv'
<1> SUFFICES ASSUME IInv, TaskStep PROVE IInv'
  OBVIOUS
<1>1. Steps /\ Serves
  BY TaskKeeps, Parts DEF IInv, Inv
<1>2. op.pc \notin Bouncing
  BY DEF TaskStep, BeginModel, ModelBack, BeginSwitch, SwitchBack, Unloaded, BeginRecover, RecoverBack,
         PrepFails, EngineSpawned, LoadOk, LoadFails, FailedGone, Bouncing
<1>3. UNCHANGED <<farm, exit, lite, yaml, queue, died, down, bounds>>
  BY DEF TaskStep
<1>4. TaskPart' /\ ServingPart' /\ FileOk(file)'
  BY <1>1, <1>2, <1>3 DEF IInv, Steps, Serves, TaskPart, ServingPart, FileOk, lite
<1>5. ExitPart' /\ LitePart' /\ QueuePart' /\ DownPart' /\ BoundsPart' /\ OneLite'
  BY <1>3 DEF IInv, ExitPart, LitePart, QueuePart, DownPart, BoundsPart, OneLite, OneProxy, lite, bounds
<1> QED BY <1>4, <1>5 DEF IInv

LEMMA LeaveStep == IInv /\ (Leave \/ DownStarts \/ DownGoesOn) => IInv'
<1> SUFFICES ASSUME IInv, Leave \/ DownStarts \/ DownGoesOn PROVE IInv'
  OBVIOUS
<1> USE DEF IInv
<1>1. CASE ProxyStopped
  <2>1. ServingPart'
    BY <1>1, KillingServes DEF ProxyStopped, ServingPart, config
  <2>2. ExitPart'
    BY <1>1 DEF ProxyStopped, ExitPart, ServingPart
  <2>3. LitePart' /\ TaskPart' /\ QueuePart' /\ DownPart' /\ BoundsPart' /\ FileOk(file)' /\ OneLite'
    BY <1>1 DEF ProxyStopped, LitePart, TaskPart, QueuePart, DownPart, BoundsPart, OneLite, OneProxy, lite, chain, bounds
  <2> QED BY <2>1, <2>2, <2>3
<1>2. CASE EngineStopped
  <2>1. ExitPart'
    BY <1>2 DEF EngineStopped, ExitPart
  <2>2. /\ ServingPart' /\ LitePart' /\ TaskPart' /\ QueuePart' /\ DownPart' /\ BoundsPart' /\ FileOk(file)' /\ OneLite'
    BY <1>2 DEF EngineStopped, ServingPart, LitePart, TaskPart, QueuePart, DownPart, BoundsPart, OneLite, OneProxy,
                lite, chain, bounds, serving, config
  <2> QED BY <2>1, <2>2
<1>3. CASE Exits
  <2>1. ExitPart' /\ FileOk(file)'
    BY <1>3 DEF Exits, ExitPart, FileOk
  <2>2. TaskPart'
    BY <1>3, FitsFacts DEF Exits, TaskPart, Idle, Bouncing
  <2>3. QueuePart' /\ BoundsPart'
    <3>1. QueuePart'
      BY <1>3 DEF Exits, QueuePart
    <3>2. died' = FALSE /\ UNCHANGED bounds
      BY <1>3 DEF Exits
    <3> QED BY <3>1, <3>2 DEF BoundsPart, bounds
  <2>4. LitePart' /\ OneLite'
    BY <1>3 DEF Exits, LitePart, OneLite, OneProxy, ExitPart
  <2>5. ServingPart' /\ DownPart'
    BY <1>3 DEF Exits, ServingPart, DownPart, serving, config
  <2> QED BY <2>1, <2>2, <2>3, <2>4, <2>5
<1>4. CASE DownStarts
  <2>1. file.proxy \in Proxies /\ file.engine \in Engines \cup {None}
    BY <1>4 DEF DownStarts, FileOk
  <2>2. LitePart' /\ OneLite'
    BY <1>4, <2>1, LiteKilled DEF DownStarts, OneLite, OneProxy
  <2>3. DownPart' /\ FileOk(file)'
    BY <1>4, <2>1 DEF DownStarts, DownPart, FileOk
  <2>4. ExitPart' /\ ServingPart' /\ TaskPart' /\ QueuePart' /\ BoundsPart'
    BY <1>4 DEF DownStarts, ExitPart, ServingPart, TaskPart, QueuePart, BoundsPart, serving, config, chain, bounds
  <2> QED BY <2>2, <2>3, <2>4
<1>5. CASE DownGoesOn
  <2>1. down.engine \in Engines \cup {None}
    BY DEF DownPart
  <2>2. ServingPart'
    BY <1>5, <2>1, KillingServes DEF DownGoesOn, ServingPart, config
  <2>3. DownPart'
    BY <1>5 DEF DownGoesOn, DownPart
  <2>4. ExitPart' /\ LitePart' /\ TaskPart' /\ QueuePart' /\ BoundsPart' /\ FileOk(file)' /\ OneLite'
    BY <1>5 DEF DownGoesOn, ExitPart, LitePart, TaskPart, QueuePart, BoundsPart, OneLite, OneProxy, lite, chain, bounds
  <2> QED BY <2>2, <2>3, <2>4
<1> QED BY <1>1, <1>2, <1>3, <1>4, <1>5 DEF Leave

LEMMA RestartStep == IInv /\ Restart => IInv'
<1> SUFFICES ASSUME IInv, Restart PROVE IInv'
  OBVIOUS
<1> USE DEF IInv
<1>0. /\ op.pc \in {"bounce"} \cup Bouncing => op.kind # "none"
      /\ \A pc \in Bouncing, b \in BOOLEAN :
            op.pc \in {"bounce"} \cup Bouncing =>
               /\ Fits(AtPc(op, pc)) /\ AtPc(op, pc).pc = pc
               /\ Fits([op EXCEPT !.pc = "back", !.ok = b]) /\ [op EXCEPT !.pc = "back", !.ok = b].pc = "back"
  <2>1. op.pc \in {"bounce"} \cup Bouncing => op.kind # "none" /\ Kept(op)
    <3>1. op.pc \in {"bounce"} \cup Bouncing => op.kind # "none" /\ op.pc # "begin"
      BY DEF TaskPart, Fits, Idle, Bouncing
    <3> QED BY <3>1, Moved DEF TaskPart
  <2>2. "back" \in Later /\ Bouncing \subseteq Later /\ \A pc \in Bouncing : pc \notin {"unload", "prep", "load", "unloadfailed"}
    BY DEF Later, Bouncing
  <2>3. ASSUME NEW b \in BOOLEAN, op.pc \in {"bounce"} \cup Bouncing
        PROVE  Fits([op EXCEPT !.pc = "back", !.ok = b]) /\ [op EXCEPT !.pc = "back", !.ok = b].pc = "back"
    BY <2>1, <2>3, MovedBack DEF TaskPart
  <2>4. ASSUME NEW pc \in Bouncing, op.pc \in {"bounce"} \cup Bouncing
        PROVE  Fits(AtPc(op, pc)) /\ AtPc(op, pc).pc = pc
    BY <2>1, <2>2, <2>4, MovedTo DEF TaskPart
  <2> QED BY <2>1, <2>3, <2>4
<1>1. ASSUME NEW b \in BOOLEAN, Returns(b), op.pc \in Bouncing PROVE TaskPart'
  <2>1. Fits(op') /\ op'.pc = "back" /\ restarting' = FALSE
    BY <1>0, <1>1 DEF Returns
  <2> QED BY <2>1 DEF TaskPart, Bouncing
<1>2. CASE Bounce
  <2>1. CASE farm = "stopping"
    <3>1. Fits(op') /\ op'.pc = "back" /\ UNCHANGED restarting /\ op.pc = "bounce"
      <4>1. op' = [op EXCEPT !.pc = "back", !.ok = FALSE] /\ UNCHANGED restarting /\ op.pc = "bounce"
        BY <1>2, <2>1 DEF Bounce
      <4>2. "kill" \in Bouncing
        BY DEF Bouncing
      <4>3. Fits([op EXCEPT !.pc = "back", !.ok = FALSE]) /\ [op EXCEPT !.pc = "back", !.ok = FALSE].pc = "back"
        BY <1>0, <4>1, <4>2
      <4> QED BY <4>1, <4>3
    <3>2. TaskPart'
      BY <3>1 DEF TaskPart, Bouncing
    <3>3. LitePart' /\ OneLite'
      BY <1>2, <2>1 DEF Bounce, LitePart, OneLite, OneProxy
    <3> QED BY <1>2, <3>2, <3>3 DEF Bounce, ExitPart, ServingPart, QueuePart, DownPart, BoundsPart, serving, bounds
  <2>2. CASE farm # "stopping"
    <3>1. op' = AtPc(op, "kill") /\ restarting' = TRUE /\ "kill" \in Bouncing /\ op.pc = "bounce"
      BY <1>2, <2>2 DEF Bounce, AtPc, Bouncing
    <3>2. TaskPart'
      BY <1>0, <3>1 DEF TaskPart
    <3>3. LitePart' /\ OneLite'
      BY <1>2, <2>2, LiteKilled DEF Bounce, LitePart, OneLite, OneProxy
    <3> QED BY <1>2, <3>2, <3>3 DEF Bounce, ExitPart, ServingPart, QueuePart, DownPart, BoundsPart, serving, bounds
  <2> QED BY <2>1, <2>2
<1>3. CASE OldKilled
  <2>1. ExitPart' /\ ServingPart' /\ QueuePart' /\ DownPart' /\ BoundsPart'
    BY <1>3 DEF OldKilled, ExitPart, ServingPart, QueuePart, DownPart, BoundsPart, serving, config, bounds
  <2>2. CASE farm = "stopping"
    <3>1. TaskPart'
      BY <1>1, <1>3, <2>2 DEF OldKilled, Returns, Bouncing
    <3>2. LitePart' /\ OneLite' /\ FileOk(file)'
      BY <1>3, <2>2 DEF OldKilled, LitePart, OneLite, OneProxy
    <3> QED BY <2>1, <3>1, <3>2
  <2>3. CASE farm # "stopping"
    <3>1. Spawned /\ op.pc = "kill" /\ Gone(proxy, child) /\ farm = "up" /\ UNCHANGED farm
      BY <1>3, <2>3 DEF OldKilled, ExitPart
    <3>2. PICK p \in Proxies : /\ proxy' = [proxy EXCEPT ![p] = "boot"] /\ child' = p
                               /\ file' = Recorded(p, llama) /\ op' = AtPc(op, "boot") /\ UNCHANGED restarting
      BY <3>1 DEF Spawned, AtPc
    <3>3. TaskPart'
      BY <1>0, <3>1, <3>2 DEF TaskPart, Bouncing
    <3>4. \A q \in Proxies : proxy[q] \notin {"boot", "ok"}
      BY <3>1, FarmAssumption DEF Gone, Alive, OneLite, OneProxy, LitePart
    <3>5. LitePart' /\ OneLite'
      BY <3>1, <3>2, <3>4 DEF LitePart, OneLite, OneProxy, ProcStates
    <3>6. FileOk(file)'
      BY <3>2 DEF FileOk, Recorded, ServingPart
    <3> QED BY <2>1, <3>3, <3>5, <3>6
  <2> QED BY <2>2, <2>3
<1>4. ASSUME NEW b \in BOOLEAN, op.pc \in Bouncing, Returns(b),
             IF farm = "up" /\ file = None THEN ShutDown ELSE UNCHANGED <<farm, exit, proxy>>,
             UNCHANGED <<file, routes, child, serving, config, queue, died, down, bounds>>
      PROVE  IInv'
  <2>1. ServingPart' /\ QueuePart' /\ DownPart' /\ BoundsPart' /\ FileOk(file)'
    BY <1>4 DEF ServingPart, QueuePart, DownPart, BoundsPart, serving, config, bounds
  <2>2. ExitPart' /\ LitePart' /\ OneLite'
    <3>1. CASE ShutDown
      BY <1>4, <3>1, ShutDownKeeps
    <3>2. CASE UNCHANGED <<farm, exit, proxy>>
      BY <1>4, <3>2 DEF ExitPart, LitePart, OneLite, OneProxy
    <3> QED BY <1>4, <3>1, <3>2
  <2> QED BY <1>1, <1>4, <2>1, <2>2
<1>5. CASE BootOk
  BY <1>4, <1>5 DEF BootOk, Bouncing
<1>6. CASE BootFails
  <2>1. ExitPart' /\ ServingPart' /\ QueuePart' /\ DownPart' /\ BoundsPart' /\ FileOk(file)'
    BY <1>6 DEF BootFails, ExitPart, ServingPart, QueuePart, DownPart, BoundsPart, serving, config, bounds
  <2>2. CASE Returns(FALSE) /\ UNCHANGED proxy
    BY <1>1, <1>6, <2>1, <2>2 DEF BootFails, LitePart, OneLite, OneProxy, Bouncing
  <2>3. CASE op' = AtPc(op, "killnew") /\ proxy' = Killed(proxy, child) /\ UNCHANGED restarting
    <3>1. TaskPart'
      BY <1>0, <1>6, <2>3 DEF BootFails, TaskPart, Bouncing
    <3>2. LitePart' /\ OneLite'
      BY <1>6, <2>3, LiteKilled DEF BootFails, LitePart, OneLite, OneProxy
    <3> QED BY <2>1, <3>1, <3>2
  <2> QED BY <1>6, <2>2, <2>3 DEF BootFails, AtPc
<1>7. CASE NewKilled
  BY <1>4, <1>7 DEF NewKilled, Bouncing
<1> QED BY <1>2, <1>3, <1>5, <1>6, <1>7 DEF Restart

LEMMA ProcessStep == IInv /\ (Handlers \/ Ends \/ Comes) => IInv'
<1> SUFFICES ASSUME IInv, Handlers \/ Ends \/ Comes PROVE IInv'
  OBVIOUS
<1> USE DEF IInv
<1>1. ASSUME NEW p \in Proxies, ProxyExit(p) PROVE IInv'
  <2>1. CASE restarting \/ p # child \/ farm = "stopping"
    <3>1. LitePart' /\ OneLite'
      BY <1>1, <2>1, LiteEnds DEF ProxyExit
    <3> QED BY <1>1, <2>1, <3>1 DEF ProxyExit, ExitPart, ServingPart, TaskPart, QueuePart, DownPart, BoundsPart,
            FileOk, serving, config, chain, bounds
  <2>2. CASE ~(restarting \/ p # child \/ farm = "stopping")
    <3>1. farm' = "stopping" /\ exit' = [pc |-> "others", pid |-> None] /\ file' = None /\ p = child
          /\ proxy[p] = "dead" /\ proxy' = [proxy EXCEPT ![p] = "free"] /\ child' = child
      BY <1>1, <2>2 DEF ProxyExit
    <3>2. LitePart' /\ OneLite' /\ ExitPart' /\ FileOk(file)'
      BY <3>1 DEF LitePart, OneLite, OneProxy, ExitPart, FileOk, ProcStates
    <3> QED BY <1>1, <3>2 DEF ProxyExit, ServingPart, TaskPart, QueuePart, DownPart, BoundsPart,
            serving, config, chain, bounds
  <2> QED BY <2>1, <2>2
<1>2. ASSUME NEW e \in Engines, EngineExit(e) PROVE IInv'
  <2>1. ExitPart' /\ LitePart' /\ TaskPart' /\ DownPart' /\ FileOk(file)' /\ OneLite'
    BY <1>2 DEF EngineExit, ExitPart, LitePart, TaskPart, DownPart, OneLite, OneProxy, lite
  <2>2. ServingPart'
    BY <1>2 DEF EngineExit, ServingPart, ProcStates, config
  <2>3. CASE UNCHANGED <<queue, died>>
    BY <1>2, <2>1, <2>2, <2>3 DEF EngineExit, QueuePart, BoundsPart, bounds
  <2>4. CASE (\E soon \in {FALSE, died} : queue' = Append(queue, Task("recover", None, None, soon))) /\ died' = TRUE
    <3>1. PICK soon \in BOOLEAN : queue' = Append(queue, Task("recover", None, None, soon))
      BY <2>4 DEF BoundsPart
    <3>2. Task("recover", None, None, soon) \in Waiting
      BY FitsFacts DEF Waiting, Waits, Fits
    <3>3. QueuePart'
      BY <3>1, <3>2 DEF QueuePart
    <3>4. BoundsPart'
      BY <1>2, <2>4 DEF EngineExit, BoundsPart, bounds
    <3> QED BY <2>1, <2>2, <3>3, <3>4
  <2> QED BY <1>2, <2>3, <2>4 DEF EngineExit
<1>3. ASSUME NEW p \in Proxies,
             \/ ProxyEnds(p) \/ ProxyDies(p)
      PROVE  IInv'
  <2>1. PICK to \in {"free", "dead"} : proxy' = [proxy EXCEPT ![p] = to] /\ UNCHANGED <<child, farm>>
    BY <1>3 DEF ProxyEnds, ProxyDies, Ended
  <2>2. LitePart' /\ OneLite'
    BY <2>1, LiteEnds
  <2>3. UNCHANGED <<farm, exit, file, child, routes, restarting, serving, config, chain, down, presses>>
        /\ deaths' \in 0..MaxDeaths
    BY <1>3, FarmAssumption DEF ProxyEnds, ProxyDies, bounds, BoundsPart
  <2> QED BY <2>2, <2>3 DEF ExitPart, ServingPart, TaskPart, QueuePart, DownPart, BoundsPart, serving, config, chain
<1>4. ASSUME NEW p \in Proxies, ProxyUp(p) PROVE IInv'
  <2>1. LitePart' /\ OneLite'
    BY <1>4 DEF ProxyUp, LitePart, OneLite, OneProxy, ProcStates
  <2> QED BY <1>4, <2>1 DEF ProxyUp, ExitPart, ServingPart, TaskPart, QueuePart, DownPart, BoundsPart, serving, config, chain, bounds
<1>5. ASSUME NEW e \in Engines, EngineEnds(e) \/ EngineDies(e) \/ EngineUp(e) PROVE IInv'
  <2>1. PICK to \in ProcStates : engineProc' = [engineProc EXCEPT ![e] = to]
    BY <1>5 DEF EngineEnds, EngineDies, EngineUp, Ended, ProcStates
  <2>2. UNCHANGED <<farm, exit, file, lite, llama, config, chain, down, presses>> /\ deaths' \in 0..MaxDeaths
    BY <1>5, FarmAssumption DEF EngineEnds, EngineDies, EngineUp, bounds, BoundsPart
  <2>3. ServingPart'
    BY <2>1, <2>2 DEF ServingPart, config
  <2> QED BY <2>2, <2>3 DEF ExitPart, LitePart, TaskPart, QueuePart, DownPart, BoundsPart, OneLite, OneProxy, lite, chain
<1> QED BY <1>1, <1>2, <1>3, <1>4, <1>5 DEF Handlers, Ends, Comes

-----------------------------------------------------------------------------
(* The theorems. *)

LEMMA Invariant == Spec => []IInv
<1>1. Init => IInv
  BY Starts, Parts DEF IInv
<1>2. IInv /\ [Next]_vars => IInv'
  <2> SUFFICES ASSUME IInv, [Next]_vars PROVE IInv'
    OBVIOUS
  <2>1. CASE Next
    BY <2>1, OperatorStep, TaskSteps, RestartStep, ProcessStep, LeaveStep DEF Next
  <2>2. CASE UNCHANGED vars
    BY <2>2 DEF IInv, ExitPart, LitePart, ServingPart, TaskPart, QueuePart, DownPart, BoundsPart, OneLite, OneProxy,
       vars, lite, serving, config, chain, bounds
  <2> QED BY <2>1, <2>2
<1> QED BY <1>1, <1>2, PTL DEF Spec

\* What the farm's variables hold, in every state it can reach.
THEOREM TypeCorrect == Spec => []TypeOK
<1>1. IInv => TypeOK
  BY Parts DEF IInv, Inv
<1> QED BY <1>1, Invariant, PTL

\* Whatever bounces, signals, deaths and `lol down` do to each other: no second LiteLLM
\* beside the current one, and none when the farm has gone.
THEOREM OnlyOneProxy == Spec => []OneProxy
<1>1. IInv => OneProxy
  BY DEF IInv, OneLite
<1> QED BY <1>1, Invariant, PTL
-----------------------------------------------------------------------------
(* What LiteLLM routes, against what the config says.                            *)

\* A LiteLLM that may serve was started for what the config says.
Fresh == farm = "up" /\ proxy[child] \in {"boot", "ok"} => routes = Routing

\* Where a task has changed nothing that is served since the last bounce: it has yet to
\* begin, or a bounce has just returned to it, or it recovers the engine the config has.
Untouched(o) == \/ o.pc \in {"off", "begin", "back"}
                \/ o.kind = "recover" /\ o.pc \in {"prep", "load", "unloadfailed"}

(***************************************************************************)
(* Every change of the engine or of the models ends in a bounce, the bounce *)
(* writes the config it finds and starts LiteLLM from what it wrote, and    *)
(* nothing is changed before it has returned.                               *)
(***************************************************************************)
RoutePart == /\ op.pc \in Bouncing => yaml = Routing
             /\ op.pc \in {"boot", "killnew"} => routes = yaml
             /\ Untouched(op) => Fresh

\* A step of a task after which nothing is changed changed nothing itself.
TouchesNothing == Untouched(op') => Untouched(op) /\ Routing' = Routing

LEMMA PcOf ==
  ASSUME NEW o \in OpRecords, NEW pc
  PROVE  /\ AtPc(o, pc).pc = pc /\ AtPc(o, pc).kind = o.kind
         /\ [AtPc(o, pc) EXCEPT !.undo = TRUE].pc = pc /\ [AtPc(o, pc) EXCEPT !.undo = TRUE].kind = o.kind
BY DEF OpRecords, AtPc

LEMMA StartingTouches ==
  ASSUME NEW o \in OpRecords, o.kind = "switch", NEW e, Starting(o, e)
  PROVE  ~Untouched(op')
<1>1. PICK pc \in {"prep", "bounce"} : op' = AtPc(o, pc)
  BY DEF Starting
<1> QED BY <1>1, PcOf DEF Untouched

LEMMA RestoreTouches ==
  ASSUME NEW o \in OpRecords, o.kind = "switch", Restore(o)
  PROVE  ~Untouched(op')
<1> DEFINE n == [o EXCEPT !.undo = TRUE]
<1>1. n \in OpRecords /\ n.kind = "switch" /\ Starting(n, o.from)
  BY DEF Restore, OpRecords
<1> HIDE DEF n
<1> QED BY <1>1, StartingTouches

LEMMA LoadedTouches ==
  ASSUME op \in OpRecords, op.kind \in {"switch", "recover"}, op.pc \in {"prep", "load", "unloadfailed"},
         NEW ok \in BOOLEAN, Loaded(ok)
  PROVE  TouchesNothing
<1>1. CASE op.kind = "switch" /\ (ok \/ op.undo)
  <2>1. op' = AtPc(op, "bounce")
    BY <1>1 DEF Loaded
  <2>2. op'.pc = "bounce" /\ op'.kind = "switch"
    BY <1>1, <2>1, PcOf
  <2> QED BY <2>2 DEF TouchesNothing, Untouched
<1>2. CASE op.kind = "switch" /\ ~ok /\ ~op.undo
  BY <1>2, RestoreTouches DEF Loaded, TouchesNothing
<1>3. CASE op.kind = "recover" /\ ok
  BY <1>3 DEF Loaded, TouchesNothing, Untouched, Routing
<1>4. CASE op.kind = "recover" /\ ~ok
  <2>1. op' = [AtPc(op, "bounce") EXCEPT !.undo = TRUE]
    BY <1>4 DEF Loaded, FallBack
  <2>2. op'.pc = "bounce"
    BY <2>1, PcOf
  <2> QED BY <2>2 DEF TouchesNothing, Untouched
<1> QED BY <1>1, <1>2, <1>3, <1>4

LEMMA TaskTouches ==
  ASSUME IInv, TaskStep
  PROVE  TouchesNothing
<1>0. op \in OpRecords /\ Fits(op)
  BY DEF IInv, TaskPart, Fits
<1>1. CASE BeginModel
  <2>1. op.pc = "begin" /\ op.kind = "model" /\ models' = op.to /\ UNCHANGED engine
    BY <1>1 DEF BeginModel
  <2>2. CASE models = op.to \/ engine # "ollama"
    BY <2>1, <2>2 DEF TouchesNothing, Untouched, Routing
  <2>3. CASE op' = [AtPc(op, "bounce") EXCEPT !.keep = models]
    <3>1. op'.pc = "bounce"
      BY <1>0, <2>3 DEF OpRecords, AtPc
    <3> QED BY <3>1, <2>1, <1>0, <2>3 DEF TouchesNothing, Untouched, OpRecords, AtPc
  <2> QED BY <1>1, <2>2, <2>3 DEF BeginModel
<1>2. CASE ModelBack
  BY <1>0, <1>2, PcOf DEF ModelBack, TouchesNothing, Untouched, Routing
<1>3. CASE BeginSwitch
  <2> DEFINE o == [op EXCEPT !.keep = engine]
  <2>1. o \in OpRecords /\ o.kind = "switch"
    BY <1>0, <1>3 DEF BeginSwitch, OpRecords, IInv, ServingPart, Values
  <2>2. Unload(o) \/ TurnTo(o)
    BY <1>3 DEF BeginSwitch
  <2> HIDE DEF o
  <2> QED BY <2>1, <2>2, PcOf, StartingTouches DEF Unload, TurnTo, TouchesNothing, Untouched
<1>4. CASE SwitchBack
  <2>1. CASE Done /\ UNCHANGED <<engine, models>>
    BY <1>4, <2>1 DEF SwitchBack, TouchesNothing, Untouched, Routing
  <2>2. CASE UndoSwitch
    <3> DEFINE n == [op EXCEPT !.undo = TRUE]
    <3>1. n \in OpRecords /\ n.kind = "switch" /\ op.kind = "switch"
      BY <1>0, <1>4 DEF SwitchBack, OpRecords
    <3>2. Unload(n) \/ Restore(op)
      BY <2>2 DEF UndoSwitch
    <3> HIDE DEF n
    <3> QED BY <1>0, <3>1, <3>2, PcOf, RestoreTouches DEF Unload, TouchesNothing, Untouched
  <2> QED BY <1>4, <2>1, <2>2 DEF SwitchBack
<1>5. CASE Unloaded
  <2>1. op.kind = "switch"
    BY <1>0, <1>5 DEF Unloaded, Fits
  <2>2. Restore(op) \/ TurnTo(op)
    BY <1>5 DEF Unloaded
  <2> QED BY <1>0, <2>1, <2>2, RestoreTouches, StartingTouches DEF TurnTo, TouchesNothing
<1>6. CASE BeginRecover
  <2>1. op.pc = "begin"
    BY <1>6 DEF BeginRecover
  <2>2. FallBack \/ UNCHANGED <<engine, models>>
    BY <1>6 DEF BeginRecover
  <2> QED BY <1>0, <2>1, <2>2, PcOf DEF FallBack, TouchesNothing, Untouched, Routing
<1>7. CASE RecoverBack
  BY <1>7 DEF RecoverBack, TouchesNothing, Untouched, Routing
<1>8. CASE PrepFails \/ LoadOk \/ FailedGone
  BY <1>0, <1>8, LoadedTouches DEF PrepFails, LoadOk, FailedGone, Fits
<1>9. CASE EngineSpawned
  BY <1>0, <1>9, PcOf DEF EngineSpawned, TouchesNothing, Untouched, Routing
<1>10. CASE LoadFails
  <2>1. CASE Loaded(FALSE)
    BY <1>0, <1>10, <2>1, LoadedTouches DEF LoadFails, Fits
  <2>2. CASE op' = AtPc(op, "unloadfailed") /\ UNCHANGED <<engine, models>>
    BY <1>0, <1>10, <2>2, PcOf DEF LoadFails, TouchesNothing, Untouched, Routing
  <2> QED BY <1>10, <2>1, <2>2 DEF LoadFails
<1> QED BY <1>1, <1>2, <1>3, <1>4, <1>5, <1>6, <1>7, <1>8, <1>9, <1>10 DEF TaskStep

\* What leaves the task, the config and the routes alone, and the current LiteLLM no more
\* alive than it was, leaves what is served as it was.
LEMMA Unaffected ==
  ASSUME RoutePart, UNCHANGED <<op, yaml, engine, models, routes, child>>, farm' = "up" => farm = "up",
         proxy'[child] \in {"boot", "ok"} => proxy[child] \in {"boot", "ok"}
  PROVE  RoutePart'
BY DEF RoutePart, Untouched, Fresh, Routing

\* The farm never comes back from its way out.
LEMMA NeverBackUp == Next /\ farm' = "up" => farm = "up"
BY DEF Next, Operator, Take, TaskStep, Restart, Handlers, Leave, DownStarts, DownGoesOn, Ends, Comes,
       ServeModels, SwitchEngine, Press, Signal, ShutDown, Bounce, OldKilled, BootOk, BootFails, NewKilled,
       ProxyExit, EngineExit, ProxyStopped, EngineStopped, Exits, ProxyEnds, EngineEnds, ProxyUp, ProxyDies,
       EngineUp, EngineDies, lite, serving, chain, bounds, config

LEMMA RoutesTask ==
  ASSUME IInv, RoutePart, TaskStep
  PROVE  RoutePart'
<1>1. op'.pc \notin Bouncing
  BY TaskKeeps, Parts DEF IInv, Inv, Steps
<1>2. UNCHANGED <<farm, proxy, child, routes>>
  BY DEF TaskStep, lite
<1>3. TouchesNothing
  BY TaskTouches
<1>4. Untouched(op') => Fresh'
  BY <1>2, <1>3 DEF RoutePart, TouchesNothing, Fresh
<1> QED BY <1>1, <1>4 DEF RoutePart, Bouncing

LEMMA RoutesRestart ==
  ASSUME IInv, RoutePart, Restart
  PROVE  RoutePart'
<1> USE DEF RoutePart, Untouched, Bouncing
<1>0. op \in OpRecords /\ UNCHANGED <<engine, models>> /\ Routing' = Routing
  BY DEF IInv, TaskPart, Fits, Restart, Bounce, OldKilled, BootOk, BootFails, NewKilled, config, Routing
<1>k. \A pc \in {"kill", "boot", "killnew", "back"} : [op EXCEPT !.pc = pc].pc = pc /\ [op EXCEPT !.pc = pc].kind = op.kind
  BY <1>0 DEF OpRecords
<1>b. \A b \in BOOLEAN : [op EXCEPT !.pc = "back", !.ok = b].pc = "back"
  BY <1>0 DEF OpRecords
<1>1. CASE Bounce
  <2>1. CASE farm = "stopping"
    BY <1>1, <1>b, <2>1 DEF Bounce, Fresh
  <2>2. CASE farm # "stopping"
    BY <1>0, <1>1, <1>k, <2>2 DEF Bounce
  <2> QED BY <2>1, <2>2
<1>2. CASE OldKilled
  <2>1. CASE farm = "stopping"
    BY <1>2, <1>b, <2>1 DEF OldKilled, Fresh
  <2>2. CASE Spawned
    BY <1>0, <1>2, <1>k, <2>2 DEF OldKilled, Spawned, config
  <2> QED BY <1>2, <2>1, <2>2 DEF OldKilled
<1>3. ASSUME NEW b \in BOOLEAN, Returns(b), routes = Routing, UNCHANGED <<routes, child>>
      PROVE  RoutePart'
  BY <1>0, <1>3, <1>b DEF Returns, Fresh
<1>4. CASE BootOk
  BY <1>3, <1>4 DEF BootOk
<1>5. CASE BootFails
  <2>1. CASE Returns(FALSE)
    BY <1>3, <1>5, <2>1 DEF BootFails
  <2>2. CASE op' = [op EXCEPT !.pc = "killnew"]
    BY <1>0, <1>5, <1>k, <2>2 DEF BootFails, config
  <2> QED BY <1>5, <2>1, <2>2 DEF BootFails
<1>6. CASE NewKilled
  BY <1>3, <1>6 DEF NewKilled
<1> QED BY <1>1, <1>2, <1>4, <1>5, <1>6 DEF Restart

LEMMA RoutesOther ==
  ASSUME IInv, RoutePart, Operator \/ Take \/ Handlers \/ Leave \/ DownStarts \/ DownGoesOn \/ Ends \/ Comes
  PROVE  RoutePart'
<1>0. LitePart /\ (farm' = "up" => farm = "up")
  BY NeverBackUp DEF IInv, Next
<1>k. \A p \in Proxies \cup {None} : Killed(proxy, p)[child] \in {"boot", "ok"} => proxy[child] \in {"boot", "ok"}
  BY <1>0, KilledFacts, FarmAssumption DEF LitePart
<1>1. CASE Take
  <2>1. Head(queue) \in Waiting /\ op.pc = "off"
    BY <1>1 DEF Take, IInv, QueuePart, Idle
  <2>2. op'.pc = "begin"
    BY <1>1, <2>1 DEF Take, Waiting, Waits
  <2> QED BY <1>1, <2>1, <2>2 DEF Take, RoutePart, Untouched, Fresh, Routing, Bouncing, lite, config
<1>2. CASE Exits
  BY <1>2 DEF Exits, RoutePart, Fresh, Bouncing, Idle, Untouched
<1>3. CASE Signal \/ DownStarts
  <2>1. UNCHANGED <<op, yaml, engine, models, routes, child>>
    BY <1>3 DEF Signal, DownStarts, config, chain
  <2>2. PICK p \in Proxies \cup {None} : proxy' = Killed(proxy, p)
    BY <1>0, <1>3 DEF Signal, ShutDown, DownStarts, LitePart, IInv, FileOk
  <2> QED BY <1>0, <1>k, <2>1, <2>2, Unaffected
<1>4. CASE \/ \E p \in Proxies : ProxyExit(p) \/ ProxyEnds(p) \/ ProxyUp(p) \/ ProxyDies(p)
  <2>1. UNCHANGED <<op, yaml, engine, models, routes, child>>
    BY <1>4 DEF ProxyExit, ProxyEnds, ProxyUp, ProxyDies, config, chain
  <2>2. proxy'[child] \in {"boot", "ok"} => proxy[child] \in {"boot", "ok"}
    BY <1>0, <1>4 DEF ProxyExit, ProxyEnds, ProxyUp, ProxyDies, Ended, LitePart, ProcStates
  <2> QED BY <1>0, <2>1, <2>2, Unaffected
<1>5. CASE \/ (\E m \in ModelSets : ServeModels(m)) \/ (\E e \in Backends : SwitchEngine(e))
           \/ (\E e \in Engines : EngineExit(e) \/ EngineEnds(e) \/ EngineUp(e) \/ EngineDies(e))
           \/ ProxyStopped \/ EngineStopped \/ DownGoesOn
  <2>1. UNCHANGED <<op, yaml, engine, models, routes, child, proxy>>
    BY <1>5 DEF ServeModels, SwitchEngine, Press, EngineExit, EngineEnds, EngineUp, EngineDies,
                ProxyStopped, EngineStopped, DownGoesOn, lite, config, chain
  <2> QED BY <1>0, <2>1, Unaffected
<1> QED BY <1>1, <1>2, <1>3, <1>4, <1>5 DEF Operator, Backends, Handlers, Leave, Ends, Comes

LEMMA RouteInvariant == Spec => []RoutePart
<1>1. Init => RoutePart
  BY DEF Init, RoutePart, Untouched, Fresh, Bouncing, Idle
<1>2. IInv /\ RoutePart /\ [Next]_vars => RoutePart'
  <2>1. IInv /\ RoutePart /\ Next => RoutePart'
    BY RoutesTask, RoutesRestart, RoutesOther DEF Next
  <2>2. RoutePart /\ UNCHANGED vars => RoutePart'
    BY Unaffected DEF vars, lite, config, chain
  <2> QED BY <2>1, <2>2
<1> QED BY <1>1, <1>2, Invariant, PTL DEF Spec

\* Between two changes LiteLLM routes what the config says, whatever failed, was undone or
\* fell back on the way.
THEOREM RoutesAreTrue == Spec => []RoutesWhatItSays
<1>1. RoutePart => RoutesWhatItSays
  BY DEF RoutePart, Untouched, Fresh, RoutesWhatItSays, Idle
<1> QED BY <1>1, RouteInvariant, PTL
=============================================================================
