---------------------------- MODULE ClientEngine ----------------------------
(* The client shell around its chat engine: the process (SidecarSupervisor,      *)
(* shell/src/main/sidecar.ts), what the shell has it do (index.ts: the boot, the *)
(* farm chosen, Retry, a new data folder, the quit), and the engine's files      *)
(* (SidecarSwap), which a launch swaps before a process runs. One step is what   *)
(* runs between two awaits. A start superseded by another start or stop (gen)    *)
(* returns at its next await and is therefore dropped at once.                   *)
EXTENDS SidecarSwap, FiniteSets

CONSTANTS
    Contexts,     \* what a farm gives the engine to run with: address, password, model, services
    NoFarm,       \* the context of a launch that found no farm
    Env,          \* the launch environment a context makes: two may make the same
    Procs,        \* bound: engine processes at a time
    MaxRestarts,  \* MAX_CRASH_RESTARTS
    MaxOvertakes, \* bound: calls that overtake a stop, in a launch
    None

ASSUME EngineAssumption ==
    /\ NoFarm \in Contexts /\ DOMAIN Env = Contexts
    /\ None \notin Procs /\ {MaxRestarts, MaxOvertakes} \subseteq Nat

VARIABLES
    shown,     \* currentEndpoint, currentKey, ... : what the shell says the engine runs with
    booted,    \* the boot has started the engine
    conf,      \* the supervisor's endpoint, apiKey, ...
    child,     \* this.child
    start,     \* the start() that is not superseded: the await it is at, the process it awaits
    stops,     \* the stops whose kill is awaited: what comes after, with which context
    status,    \* state.status
    crashes,   \* crashRestarts
    quit,      \* "soon": a relaunch is due; "on": before-quit; "rest": the engine is stopped
    proc,      \* the processes
    env,       \* what each was launched with
    overtook   \* how often something acted on the engine while the kill of a stop was awaited, or a quit

shell == <<shown, booted, quit>>
super == <<conf, child, start, stops, status, crashes>>
os == <<proc, env>>
engine == <<shell, super, os, overtook>>

Off == [pc |-> "off", target |-> None]
Alive(p) == proc[p] \in {"boot", "up"}

EngineInit ==
    /\ shown = NoFarm /\ booted = FALSE /\ quit = "no"
    /\ conf = NoFarm /\ child = None /\ start = Off /\ stops = {} /\ status = "idle" /\ crashes = 0
    /\ proc = [p \in Procs |-> "free"] /\ env = [p \in Procs |-> Env[NoFarm]]
    /\ overtook = 0

Overtakes ==
    IF stops = {} /\ quit \notin {"on", "rest"} THEN UNCHANGED overtook
    ELSE overtook < MaxOvertakes /\ overtook' = overtook + 1

-----------------------------------------------------------------------------
(* The supervisor. *)

Gone(p) == proc' = [proc EXCEPT ![p] = "free"] /\ env' = [env EXCEPT ![p] = Env[NoFarm]]
Killed(procs, p) == IF p = None THEN procs ELSE [procs EXCEPT ![p] = "dying"]

\* Mutant: the child that still runs is not reaped.
StartWith_NoReap(c, running, s) ==
    /\ conf' = c /\ UNCHANGED proc
    /\ IF disk["live"] = Nothing
       THEN child' = running /\ start' = Off /\ status' = "error"
       ELSE /\ child' = None /\ start' = [pc |-> "port", target |-> None] /\ status' = s
\* start(), up to its first await, with `running` the child it finds.
StartWith(c, running, s) ==
    /\ conf' = c
    /\ IF disk["live"] = Nothing
       THEN child' = running /\ start' = Off /\ status' = "error" /\ UNCHANGED proc
       ELSE /\ child' = None /\ proc' = Killed(proc, running) /\ status' = s
            /\ start' = [pc |-> IF running = None THEN "port" ELSE "reap", target |-> running]

\* What follows a stop(): the start of repoint() with its own context, that of Retry and
\* of a data folder that could not be moved with the one shown by then.
After(then, c, s, starting) ==
    CASE then = "repoint" -> StartWith(c, child, s) /\ UNCHANGED quit
      [] then = "retry" -> StartWith(shown, child, s) /\ UNCHANGED quit
      [] then = "move" ->
            \/ StartWith(shown, child, s) /\ UNCHANGED quit
            \/ /\ quit' = (IF quit = "no" THEN "soon" ELSE quit) /\ start' = starting /\ status' = s
               /\ UNCHANGED <<conf, child, proc>>
      [] then = "quit" -> /\ quit' = "rest" /\ status' = "stopped" /\ start' = starting
                          /\ UNCHANGED <<conf, child, proc>>

\* stop(), and what follows once the child is killed: at once when there is none.
Stopping(then, c, s) ==
    IF child = None THEN After(then, c, s, Off) /\ UNCHANGED stops
    ELSE /\ stops' = stops \cup {[then |-> then, ctx |-> c, target |-> child]}
         /\ child' = None /\ proc' = Killed(proc, child) /\ start' = Off /\ status' = s
         /\ quit' = (IF then = "quit" THEN "on" ELSE quit)
         /\ UNCHANGED conf

\* The kill is over.
StopDone ==
    /\ \E s \in stops : /\ proc[s.target] # "dying" /\ stops' = stops \ {s}
                        /\ After(s.then, s.ctx, status, start)
    /\ UNCHANGED <<shown, booted, crashes, env, overtook>>
Reaped ==
    /\ start.pc = "reap" /\ proc[start.target] # "dying"
    /\ start' = [pc |-> "port", target |-> None]
    /\ UNCHANGED <<shell, conf, child, stops, status, crashes, os, overtook>>
PortFound ==
    /\ start.pc = "port" /\ start' = [start EXCEPT !.pc = "probe"] /\ status' = "starting"
    /\ UNCHANGED <<shell, conf, child, stops, crashes, os, overtook>>
\* Document search and the hub have answered, or not: the process is spawned.
Spawned ==
    /\ start.pc = "probe"
    /\ \E p \in Procs :
        /\ proc[p] = "free" /\ proc' = [proc EXCEPT ![p] = "boot"] /\ env' = [env EXCEPT ![p] = Env[conf]]
        /\ child' = p /\ start' = [pc |-> "wait", target |-> p]
    /\ UNCHANGED <<shell, conf, stops, status, crashes, overtook>>
Healthy ==
    /\ start.pc = "wait" /\ proc[start.target] = "up"
    /\ start' = Off /\ status' = "ready" /\ crashes' = 0
    /\ UNCHANGED <<shell, conf, child, stops, os, overtook>>
Unhealthy ==
    /\ start.pc = "wait" /\ proc[start.target] # "up"
    /\ start' = Off /\ status' = "error"
    /\ UNCHANGED <<shell, conf, child, stops, crashes, os, overtook>>

\* Mutant: the crash restart rebuilds the launch without the farm.
ChildExit_Bare(p) ==
    /\ proc[p] = "dead" /\ Gone(p)
    /\ IF p # child THEN UNCHANGED super
       ELSE /\ child' = None
            /\ IF crashes < MaxRestarts
               THEN /\ crashes' = crashes + 1 /\ status' = "restarting" /\ conf' = NoFarm
                    /\ start' = [pc |-> "port", target |-> None]
               ELSE status' = "error" /\ UNCHANGED <<crashes, start, conf>>
            /\ UNCHANGED stops
    /\ UNCHANGED <<shell, overtook>>
\* onChildExit(): only the child's own exit matters; a bounded number of restarts.
ChildExit(p) ==
    /\ proc[p] = "dead" /\ Gone(p)
    /\ IF p # child THEN UNCHANGED super
       ELSE /\ child' = None
            /\ IF crashes < MaxRestarts
               THEN /\ crashes' = crashes + 1 /\ status' = "restarting"
                    /\ start' = [pc |-> "port", target |-> None]
               ELSE status' = "error" /\ UNCHANGED <<crashes, start>>
            /\ UNCHANGED <<conf, stops>>
    /\ UNCHANGED <<shell, overtook>>

-----------------------------------------------------------------------------
(* The shell. *)

\* The boot, or the install it waited for: with the farm saved or found, or none.
Boot ==
    /\ pc = "use" /\ ~booted /\ Whole("live") /\ booted' = TRUE
    /\ \E c \in Contexts : shown' = c /\ StartWith(c, child, status)
    /\ Overtakes
    /\ UNCHANGED <<quit, stops, crashes, env>>

\* connectTo() and repoint(): discovery's choice, or a click on a farm.
Connect(c) ==
    /\ pc = "use" /\ c # NoFarm /\ c # shown /\ shown' = c /\ Overtakes
    /\ IF c = conf THEN UNCHANGED <<quit, super, proc>>
       ELSE IF child # None /\ Env[c] = Env[conf]
       THEN conf' = c /\ UNCHANGED <<quit, child, start, stops, status, crashes, proc>>
       ELSE Stopping("repoint", c, "restarting") /\ UNCHANGED crashes
    /\ UNCHANGED <<booted, env>>

\* restart-sidecar: the button of the error panel.
Retry ==
    /\ pc = "use" /\ status = "error"
    /\ Stopping("retry", NoFarm, status) /\ Overtakes
    /\ UNCHANGED <<shown, booted, crashes, env>>
\* set-data-dir.
MoveData ==
    /\ pc = "use" /\ quit = "no"
    /\ Stopping("move", NoFarm, status) /\ Overtakes
    /\ UNCHANGED <<shown, booted, crashes, env>>
\* before-quit: the window closed, an update, or the relaunch after a move.
Quit ==
    /\ pc = "use" /\ quit \in {"no", "soon"}
    /\ Stopping("quit", NoFarm, status) /\ Overtakes
    /\ UNCHANGED <<shown, booted, crashes, env>>

-----------------------------------------------------------------------------
(* The processes. *)

ProcUp(p) == proc[p] = "boot" /\ proc' = [proc EXCEPT ![p] = "up"] /\ UNCHANGED <<shell, super, env, overtook>>
ProcDies(p) == Alive(p) /\ proc' = [proc EXCEPT ![p] = "dead"] /\ UNCHANGED <<shell, super, env, overtook>>
KillEnds(p) == proc[p] = "dying" /\ Gone(p) /\ UNCHANGED <<shell, super, overtook>>

-----------------------------------------------------------------------------
(* The shell's life: a launch swaps the engine's files first, and an exit cuts    *)
(* whatever download is under way. What an exit left running is out of the        *)
(* model's sight at the next launch: nothing looks for it.                        *)

Launches ==
    /\ Launch /\ proc' = [p \in Procs |-> "free"] /\ overtook' = 0
    /\ UNCHANGED <<shell, super, env>>
CutAtLaunch == pc # "use" /\ Cut /\ UNCHANGED engine
\* app.exit(0), once the engine is stopped (the other cleanup may take its time).
Exit ==
    /\ quit = "rest" /\ Cut
    /\ shown' = NoFarm /\ booted' = FALSE /\ quit' = "no"
    /\ conf' = NoFarm /\ child' = None /\ start' = Off /\ stops' = {} /\ status' = "idle" /\ crashes' = 0
    /\ UNCHANGED <<os, overtook>>
FileStep ==
    /\ \/ Restore \/ Clear \/ Aside \/ Swap \/ Undo \/ Tidy
       \/ Install \/ Update \/ Stage \/ Unpack \/ ClearTarget \/ Rename \/ Release
    /\ UNCHANGED engine

EngineStep ==
    \/ Boot \/ Retry \/ MoveData \/ Quit \/ \E c \in Contexts : Connect(c)
    \/ StopDone \/ Reaped \/ PortFound \/ Spawned \/ Healthy \/ Unhealthy
    \/ \E p \in Procs : ChildExit(p) \/ ProcUp(p) \/ ProcDies(p) \/ KillEnds(p)

ClientInit == Init /\ EngineInit
ClientNext == Launches \/ CutAtLaunch \/ Exit \/ FileStep \/ (EngineStep /\ UNCHANGED vars)
clientVars == <<vars, engine>>
ClientSpec == ClientInit /\ [][ClientNext]_clientVars

-----------------------------------------------------------------------------
EngineTypeOK ==
    /\ {shown, conf} \subseteq Contexts /\ booted \in BOOLEAN /\ overtook \in 0..MaxOvertakes
    /\ quit \in {"no", "soon", "on", "rest"}
    /\ child \in Procs \cup {None} /\ crashes \in 0..MaxRestarts
    /\ start \in [pc : {"off", "reap", "port", "probe", "wait"}, target : Procs \cup {None}]
    /\ stops \subseteq [then : {"repoint", "retry", "move", "quit"}, ctx : Contexts, target : Procs]
    /\ status \in {"idle", "starting", "restarting", "ready", "error", "stopped"}
    /\ proc \in [Procs -> {"free", "boot", "up", "dying", "dead"}]
    /\ env \in [Procs -> {Env[c] : c \in Contexts}]

\* However starts, stops, crashes and restarts cross, no engine process runs but the
\* child, and (unless something overtook a stop) none runs while a data folder is
\* copied, while the engine's own files are replaced, and after the app has exited.
OneEngine ==
    /\ \A p \in Procs : Alive(p) => p = child \/ pc = "off"
    /\ overtook = 0 /\ (pc # "use" \/ \E s \in stops : s.then = "move") => \A p \in Procs : ~Alive(p)
    /\ (job.to = "live" /\ job.step \in {"clear", "rename"}) => \A p \in Procs : ~Alive(p)

\* At rest, the engine runs with what the shell says it runs with ("What OWUI is running
\* with right now", index.ts:361), unless something overtook a stop.
Rests == pc = "use" /\ quit = "no" /\ start = Off /\ stops = {} /\ overtook = 0
RunsAsShown == Rests /\ status = "ready" => child # None /\ env[child] = Env[shown]
=============================================================================
