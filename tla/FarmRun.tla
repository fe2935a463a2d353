------------------------------- MODULE FarmRun -------------------------------
(* A running farm (`lol up` once it serves): its serialize chain and job slot,   *)
(* the bounce of LiteLLM that every change of what is served ends in, the switch *)
(* of the engine, the recovery of a dead llama-server, and the three ways out: a *)
(* signal, a LiteLLM that dies, `lol down` from another shell.                   *)
(*                                                                               *)
(* The farm is one event loop: `op` is the task at the head of the chain, and    *)
(* op.pc its await. At "begin", "bounce" and "back" it has the thread, so no     *)
(* handler runs there (Awaiting); other processes go on.                         *)
EXTENDS Naturals, FiniteSets, Sequences

CONSTANTS
    Proxies, Engines,   \* pids for LiteLLM, and for llama-server
    ModelSets,          \* what config.models can hold
    None,               \* no process, no file
    MayDie,             \* which may die by themselves: "proxy", "engine", "loading"
    Signals,            \* does Ctrl-C or SIGTERM come?
    MaxPresses, MaxDeaths   \* bounds: the operator's presses, deaths by themselves

ASSUME FarmAssumption ==
    /\ IsFiniteSet(Proxies) /\ IsFiniteSet(Engines) /\ Proxies # {}
    /\ None \notin Proxies \cup Engines
    /\ MayDie \subseteq {"proxy", "engine", "loading"} /\ Signals \in BOOLEAN
    /\ MaxPresses \in Nat /\ MaxDeaths \in Nat

VARIABLES
    farm,        \* "up", "stopping" (the flag of that name), "gone"
    exit,        \* the way out: what it is waiting for, and the pid it kills
    file,        \* the runtime file: the pids on record, or None
    proxy,       \* each LiteLLM
    child,       \* the current one
    routes,      \* what the current one was started to route
    yaml,        \* LiteLLM's config file
    restarting,  \* restartingProxy
    engineProc,  \* each llama-server
    llama,       \* llamacppChild
    engine,      \* engineOf(config): "ollama" or "llamacpp"
    models,      \* config.models
    op, queue,   \* the task of the chain that runs, and those behind it
    died,        \* did a llama-server die before?
    down,        \* the `lol down` of another shell
    presses, deaths

config == <<engine, models, yaml>>
lite == <<proxy, child, routes, restarting>>
serving == <<engineProc, llama>>
chain == <<op, queue, died>>
bounds == <<presses, deaths>>
vars == <<farm, exit, file, lite, serving, config, chain, down, bounds>>

Alive == {"boot", "ok", "dying"}
Idle == [kind |-> "none", to |-> None, from |-> None, recent |-> FALSE, pc |-> "off",
         undo |-> FALSE, keep |-> None, ok |-> FALSE]
Task(kind, to, from, soon) ==
    [Idle EXCEPT !.kind = kind, !.to = to, !.from = from, !.recent = soon, !.pc = "begin"]

Awaiting == farm # "gone" /\ op.pc \notin {"begin", "bounce", "back"}
Killed(procs, p) == IF p = None THEN procs ELSE IF procs[p] \in {"boot", "ok"} THEN [procs EXCEPT ![p] = "dying"] ELSE procs
Gone(procs, p) == IF p = None THEN TRUE ELSE procs[p] \notin Alive

\* A job is busy until its body has returned; quick changes and recoveries are not jobs.
Busy == op.kind = "switch" \/ \E i \in 1..Len(queue) : queue[i].kind = "switch"

\* With another engine serving, nothing in config.models is routed.
Routing == IF engine = "ollama" THEN <<"ollama", models>> ELSE <<engine>>

Init ==
    /\ farm = "up" /\ exit = [pc |-> "off", pid |-> None]
    /\ child \in Proxies /\ proxy = [p \in Proxies |-> IF p = child THEN "ok" ELSE "free"]
    /\ engine \in {"ollama", "llamacpp"} /\ models \in ModelSets
    /\ yaml = Routing /\ routes = yaml /\ restarting = FALSE
    /\ llama \in (IF engine = "llamacpp" THEN Engines ELSE {None})
    /\ engineProc = [e \in Engines |-> IF e = llama THEN "ok" ELSE "free"]
    /\ file = [proxy |-> child, engine |-> llama]
    /\ op = Idle /\ queue = <<>> /\ died = FALSE
    /\ down = [pc |-> "off", proxy |-> None, engine |-> None]
    /\ presses = 0 /\ deaths = 0

\* writeRuntimeState(): never written back once somebody removed it.
Recorded_Back(p, e) == [proxy |-> p, engine |-> e]
Recorded(p, e) == IF file = None THEN None ELSE [proxy |-> p, engine |-> e]

-----------------------------------------------------------------------------
(* The panel. It answers while the farm is up; a job in its slot refuses the     *)
(* rest, and what is accepted joins the chain.                                   *)

Press(task) ==
    /\ Awaiting /\ farm = "up" /\ ~Busy /\ presses < MaxPresses
    /\ presses' = presses + 1 /\ queue' = Append(queue, task)
    /\ UNCHANGED <<farm, exit, file, lite, serving, config, op, died, down, deaths>>
\* startModel() and stopModel(), setBackend(): `from` is read when the button is pressed.
ServeModels(m) == Press(Task("model", m, None, FALSE))
SwitchEngine(e) == e # engine /\ Press(Task("switch", e, engine, FALSE))

Take ==
    /\ Awaiting /\ op = Idle /\ queue # <<>>
    /\ op' = Head(queue) /\ queue' = Tail(queue)
    /\ UNCHANGED <<farm, exit, file, lite, serving, config, died, down, bounds>>

-----------------------------------------------------------------------------
(* restartProxy(). *)

Bounce ==
    /\ op.pc = "bounce"
    /\ IF farm = "stopping"
       THEN /\ op' = [op EXCEPT !.pc = "back", !.ok = FALSE]
            /\ UNCHANGED <<proxy, yaml, restarting>>
       ELSE /\ restarting' = TRUE /\ yaml' = Routing
            /\ proxy' = Killed(proxy, child) /\ op' = [op EXCEPT !.pc = "kill"]
    /\ UNCHANGED <<farm, exit, file, child, routes, serving, engine, models, queue, died, down, bounds>>

Spawned ==
    \E p \in {q \in Proxies : proxy[q] = "free" /\ q \notin {child, down.proxy}} :
        /\ proxy' = [proxy EXCEPT ![p] = "boot"] /\ routes' = yaml
        /\ child' = p /\ file' = Recorded(p, llama)
        /\ op' = [op EXCEPT !.pc = "boot"] /\ UNCHANGED restarting
OldKilled_Blind ==
    /\ op.pc = "kill" /\ farm # "gone" /\ Gone(proxy, child)
    /\ Spawned
    /\ UNCHANGED <<farm, exit, serving, config, queue, died, down, bounds>>
OldKilled ==
    /\ op.pc = "kill" /\ farm # "gone" /\ Gone(proxy, child)
    /\ IF farm = "stopping"
       THEN /\ op' = [op EXCEPT !.pc = "back", !.ok = FALSE] /\ restarting' = FALSE
            /\ UNCHANGED <<proxy, routes, child, file>>
       ELSE Spawned
    /\ UNCHANGED <<farm, exit, serving, config, queue, died, down, bounds>>

\* shutdown(): LiteLLM first.
ShutDown ==
    /\ farm' = "stopping" /\ exit' = [pc |-> "proxy", pid |-> child] /\ proxy' = Killed(proxy, child)
Returns(ok) == op' = [op EXCEPT !.pc = "back", !.ok = ok] /\ restarting' = FALSE

\* It answers: the bounce is over, and a `lol down` meanwhile is heard now.
BootOk ==
    /\ op.pc = "boot" /\ farm # "gone" /\ proxy[child] = "ok"
    /\ Returns(farm = "up" /\ file # None)
    /\ IF farm = "up" /\ file = None THEN ShutDown ELSE UNCHANGED <<farm, exit, proxy>>
    /\ UNCHANGED <<file, routes, child, serving, config, queue, died, down, bounds>>
BootFails ==
    /\ op.pc = "boot" /\ farm # "gone" /\ proxy[child] # "ok"
    /\ IF farm = "stopping"
       THEN Returns(FALSE) /\ UNCHANGED proxy
       ELSE /\ op' = [op EXCEPT !.pc = "killnew"] /\ proxy' = Killed(proxy, child)
            /\ UNCHANGED restarting
    /\ UNCHANGED <<farm, exit, file, child, routes, serving, config, queue, died, down, bounds>>
NewKilled ==
    /\ op.pc = "killnew" /\ farm # "gone" /\ Gone(proxy, child)
    /\ Returns(FALSE)
    /\ IF farm = "up" /\ file = None THEN ShutDown ELSE UNCHANGED <<farm, exit, proxy>>
    /\ UNCHANGED <<file, routes, child, serving, config, queue, died, down, bounds>>

-----------------------------------------------------------------------------
(* The tasks. Each is a way through three calls: stopLlamacpp() ("unload"),      *)
(* startLlamacpp() ("prep", "load", "unloadfailed") and restartProxy().          *)

Done == op' = Idle
AtPc(o, pc) == [o EXCEPT !.pc = pc]
\* startEngine(): Ollama needs nothing but its context sized, a llama-server that is
\* there is taken for started.
Starting(o, e) == op' = AtPc(o, IF e = "llamacpp" /\ llama = None THEN "prep" ELSE "bounce")

\* applyModels(): the new set, and the old one again when the proxy does not come back.
BeginModel ==
    /\ op.pc = "begin" /\ op.kind = "model"
    /\ models' = op.to
    /\ IF models = op.to \/ engine # "ollama" THEN Done
       ELSE op' = [AtPc(op, "bounce") EXCEPT !.keep = models]
    /\ UNCHANGED <<engine, file, serving>>
ModelBack ==
    /\ op.pc = "back" /\ op.kind = "model"
    /\ IF op.ok \/ op.undo THEN Done /\ UNCHANGED models
       ELSE models' = op.keep /\ op' = [AtPc(op, "bounce") EXCEPT !.undo = TRUE]
    /\ UNCHANGED <<engine, file, serving>>

\* setBackend(): the old engine stops, the flags turn, the new one starts and the
\* routing follows; undone in the opposite order.
Unload(o) ==
    /\ llama' = None /\ engineProc' = Killed(engineProc, llama)
    /\ op' = AtPc(o, "unload") /\ UNCHANGED <<engine, models, file>>
TurnTo(o) == engine' = o.to /\ Starting(o, o.to) /\ UNCHANGED <<models, file, serving>>
Restore(o) ==
    /\ engine' = o.keep /\ Starting([o EXCEPT !.undo = TRUE], o.from)
    /\ UNCHANGED <<models, file, serving>>
BeginSwitch ==
    /\ op.pc = "begin" /\ op.kind = "switch"
    /\ LET o == [op EXCEPT !.keep = engine]
       IN  IF op.from = "llamacpp" /\ llama # None THEN Unload(o) ELSE TurnTo(o)
UndoSwitch ==
    IF op.to = "llamacpp" /\ llama # None THEN Unload([op EXCEPT !.undo = TRUE]) ELSE Restore(op)
SwitchBack ==
    /\ op.pc = "back" /\ op.kind = "switch"
    /\ IF op.ok \/ op.undo
       THEN Done /\ file' = Recorded(child, llama) /\ UNCHANGED <<engine, models, serving>>
       ELSE UndoSwitch
Unloaded ==
    /\ op.pc = "unload" /\ \A e \in Engines : engineProc[e] # "dying"
    /\ IF op.undo THEN Restore(op) ELSE TurnTo(op)

\* onEngineDown()'s task: one restart, and Ollama when it fails or was not the first
\* within five minutes.
FallBack_Unrouted == engine' = "ollama" /\ Done /\ UNCHANGED <<models, file, serving>>
FallBack == engine' = "ollama" /\ op' = [AtPc(op, "bounce") EXCEPT !.undo = TRUE] /\ UNCHANGED <<models, file, serving>>
BeginRecover ==
    /\ op.pc = "begin" /\ op.kind = "recover"
    /\ IF farm = "stopping" \/ llama # None THEN Done /\ UNCHANGED <<engine, models, file, serving>>
       ELSE IF op.recent THEN FallBack
       ELSE op' = AtPc(op, "prep") /\ UNCHANGED <<engine, models, file, serving>>
RecoverBack ==
    /\ op.pc = "back" /\ op.kind = "recover" /\ Done
    /\ UNCHANGED <<engine, models, file, serving>>

\* startLlamacpp() is over.
Loaded(ok) ==
    CASE op.kind = "switch" /\ (ok \/ op.undo) -> op' = AtPc(op, "bounce") /\ UNCHANGED <<engine, models, file, serving>>
      [] op.kind = "switch" /\ ~ok /\ ~op.undo -> Restore(op)
      [] op.kind = "recover" /\ ok -> Done /\ UNCHANGED <<engine, models, file, serving>>
      [] op.kind = "recover" /\ ~ok -> FallBack
PrepFails == op.pc = "prep" /\ Loaded(FALSE)
EngineSpawned ==
    /\ op.pc = "prep" /\ op' = AtPc(op, "load")
    /\ \E e \in {d \in Engines : engineProc[d] = "free" /\ d \notin {down.engine, exit.pid}} :
           llama' = e /\ engineProc' = [engineProc EXCEPT ![e] = "boot"]
    /\ UNCHANGED <<engine, models, file>>
LoadOk == op.pc = "load" /\ llama # None /\ engineProc[llama] = "ok" /\ Loaded(TRUE)
LoadFails_Unseen ==
    /\ op.pc = "load" /\ llama # None
    /\ engineProc[llama] # "ok"
    /\ llama' = None /\ engineProc' = Killed(engineProc, llama)
    /\ op' = AtPc(op, "unloadfailed") /\ UNCHANGED <<engine, models, file>>
LoadFails ==
    /\ op.pc = "load"
    /\ IF llama = None THEN Loaded(FALSE)
       ELSE /\ engineProc[llama] # "ok"
            /\ llama' = None /\ engineProc' = Killed(engineProc, llama)
            /\ op' = AtPc(op, "unloadfailed") /\ UNCHANGED <<engine, models, file>>
FailedGone ==
    /\ op.pc = "unloadfailed" /\ \A e \in Engines : engineProc[e] # "dying"
    /\ Loaded(FALSE)

TaskStep ==
    /\ farm # "gone"
    /\ \/ BeginModel \/ ModelBack \/ BeginSwitch \/ SwitchBack \/ Unloaded \/ BeginRecover \/ RecoverBack
       \/ PrepFails \/ EngineSpawned \/ LoadOk \/ LoadFails \/ FailedGone
    /\ UNCHANGED <<farm, exit, lite, yaml, queue, died, down, bounds>>
Restart == Bounce \/ OldKilled \/ BootOk \/ BootFails \/ NewKilled

-----------------------------------------------------------------------------
(* The handlers of the children's exits, and the ways out. *)

\* onProxyExit(): the current LiteLLM, and nobody is bouncing it.
ProxyExit(p) ==
    /\ Awaiting /\ proxy[p] = "dead" /\ proxy' = [proxy EXCEPT ![p] = "free"]
    /\ IF restarting \/ p # child \/ farm = "stopping"
       THEN UNCHANGED <<farm, exit, file>>
       ELSE farm' = "stopping" /\ exit' = [pc |-> "others", pid |-> None] /\ file' = None
    /\ UNCHANGED <<child, routes, restarting, serving, config, chain, down, bounds>>

\* llama-server's exit: unless it was stopped on purpose, onEngineDown(), which asks
\* whether the one before died less than five minutes ago.
EngineExit(e) ==
    /\ Awaiting /\ engineProc[e] = "dead" /\ engineProc' = [engineProc EXCEPT ![e] = "free"]
    /\ IF e # llama THEN UNCHANGED <<llama, queue, died>>
       ELSE /\ llama' = None
            /\ IF farm = "stopping" THEN UNCHANGED <<queue, died>>
               ELSE /\ \E soon \in {FALSE, died} : queue' = Append(queue, Task("recover", None, None, soon))
                    /\ died' = TRUE
    /\ UNCHANGED <<farm, exit, file, lite, config, op, down, bounds>>
Signal ==
    /\ Signals /\ Awaiting /\ farm = "up" /\ ShutDown
    /\ UNCHANGED <<file, child, routes, restarting, serving, config, chain, down, bounds>>
\* shutdown() goes on: llama-server, then the Ollamas it started.
ProxyStopped ==
    /\ exit.pc = "proxy" /\ Awaiting /\ Gone(proxy, exit.pid)
    /\ exit' = IF llama = None THEN [pc |-> "others", pid |-> None] ELSE [pc |-> "engine", pid |-> llama]
    /\ engineProc' = Killed(engineProc, llama)
    /\ UNCHANGED <<farm, file, lite, llama, config, chain, down, bounds>>
EngineStopped ==
    /\ exit.pc = "engine" /\ Awaiting /\ Gone(engineProc, exit.pid)
    /\ exit' = [pc |-> "others", pid |-> None]
    /\ UNCHANGED <<farm, file, lite, serving, config, chain, down, bounds>>
Exits ==
    /\ exit.pc = "others" /\ Awaiting
    /\ farm' = "gone" /\ file' = None /\ exit' = [pc |-> "off", pid |-> None]
    /\ op' = Idle /\ queue' = <<>> /\ restarting' = FALSE /\ died' = FALSE
    /\ UNCHANGED <<proxy, child, routes, serving, config, down, bounds>>
Leave == ProxyStopped \/ EngineStopped \/ Exits

-----------------------------------------------------------------------------
(* `lol down`, another process: the file goes first, then what it named. *)

DownStarts ==
    /\ down.pc = "off" /\ file # None
    /\ down' = [pc |-> "proxy", proxy |-> file.proxy, engine |-> file.engine] /\ file' = None
    /\ proxy' = Killed(proxy, file.proxy)
    /\ UNCHANGED <<farm, exit, child, routes, restarting, serving, config, chain, bounds>>
DownGoesOn ==
    /\ \/ /\ down.pc = "proxy" /\ Gone(proxy, down.proxy)
          /\ down' = [down EXCEPT !.pc = "engine"] /\ engineProc' = Killed(engineProc, down.engine)
       \/ /\ down.pc = "engine" /\ Gone(engineProc, down.engine)
          /\ down' = [pc |-> "over", proxy |-> None, engine |-> None] /\ UNCHANGED engineProc
    /\ UNCHANGED <<farm, exit, file, lite, llama, config, chain, bounds>>

\* The processes: one comes up, is killed, or dies by itself. The exit handler has
\* nothing to do for one that is no longer the current one.
Ended(p, current) == IF p = current THEN "dead" ELSE "free"
ProxyUp(p) ==
    /\ proxy[p] = "boot" /\ proxy' = [proxy EXCEPT ![p] = "ok"]
    /\ UNCHANGED <<farm, exit, file, child, routes, restarting, serving, config, chain, down, bounds>>
EngineUp(e) ==
    /\ engineProc[e] = "boot" /\ engineProc' = [engineProc EXCEPT ![e] = "ok"]
    /\ UNCHANGED <<farm, exit, file, lite, llama, config, chain, down, bounds>>
ProxyEnds(p) ==
    /\ proxy[p] = "dying" /\ proxy' = [proxy EXCEPT ![p] = Ended(p, child)]
    /\ UNCHANGED <<farm, exit, file, child, routes, restarting, serving, config, chain, down, bounds>>
EngineEnds(e) ==
    /\ engineProc[e] = "dying" /\ engineProc' = [engineProc EXCEPT ![e] = Ended(e, llama)]
    /\ UNCHANGED <<farm, exit, file, lite, llama, config, chain, down, bounds>>
ProxyDies(p) ==
    /\ "proxy" \in MayDie /\ deaths < MaxDeaths /\ deaths' = deaths + 1
    /\ proxy[p] \in {"boot", "ok"} /\ proxy' = [proxy EXCEPT ![p] = Ended(p, child)]
    /\ UNCHANGED <<farm, exit, file, child, routes, restarting, serving, config, chain, down, presses>>
EngineDies(e) ==
    /\ deaths < MaxDeaths /\ deaths' = deaths + 1
    /\ \/ "engine" \in MayDie /\ engineProc[e] = "ok"
       \/ "loading" \in MayDie /\ engineProc[e] = "boot"
    /\ engineProc' = [engineProc EXCEPT ![e] = Ended(e, llama)]
    /\ UNCHANGED <<farm, exit, file, lite, llama, config, chain, down, presses>>

-----------------------------------------------------------------------------
Operator == (\E m \in ModelSets : ServeModels(m)) \/ (\E e \in {"ollama", "llamacpp"} : SwitchEngine(e)) \/ Signal
Handlers == (\E p \in Proxies : ProxyExit(p)) \/ (\E e \in Engines : EngineExit(e))
Ends == (\E p \in Proxies : ProxyEnds(p)) \/ (\E e \in Engines : EngineEnds(e))
Comes == (\E p \in Proxies : ProxyUp(p) \/ ProxyDies(p)) \/ (\E e \in Engines : EngineUp(e) \/ EngineDies(e))
Next == Operator \/ Take \/ TaskStep \/ Restart \/ Handlers \/ Leave
        \/ DownStarts \/ DownGoesOn \/ Ends \/ Comes

Spec == Init /\ [][Next]_vars
\* The event loop serves what is due (waits have their timeouts: 90 s for LiteLLM,
\* 300 s for llama-server), a killed process ends, `lol down` goes on.
Fairness == /\ WF_vars(Take \/ TaskStep \/ Restart) /\ WF_vars(Handlers) /\ WF_vars(Leave)
            /\ WF_vars(DownGoesOn) /\ WF_vars(Ends)

-----------------------------------------------------------------------------
TypeOK ==
    /\ farm \in {"up", "stopping", "gone"}
    /\ exit.pc \in {"off", "proxy", "engine", "others"} /\ (exit.pc # "off" <=> farm = "stopping")
    /\ exit.pid \in Proxies \cup Engines \cup {None}
    /\ file = None \/ file \in [proxy : Proxies, engine : Engines \cup {None}]
    /\ proxy \in [Proxies -> {"free", "boot", "ok", "dying", "dead"}] /\ child \in Proxies
    /\ engineProc \in [Engines -> {"free", "boot", "ok", "dying", "dead"}]
    /\ llama \in Engines \cup {None} /\ engine \in {"ollama", "llamacpp"} /\ models \in ModelSets
    /\ op.kind \in {"none", "model", "switch", "recover"} /\ (op.kind = "none" <=> op = Idle)
    /\ restarting <=> op.pc \in {"kill", "boot", "killnew"}
    /\ died \in BOOLEAN /\ down.pc \in {"off", "proxy", "engine", "over"}
    /\ presses \in 0..MaxPresses /\ deaths \in 0..MaxDeaths

\* However a bounce meets a signal, a crash or a `lol down`: there is never a second
\* LiteLLM beside the current one, and none at all once the farm has gone.
OneProxy ==
    \A p \in Proxies : proxy[p] \in {"boot", "ok"} => p = child /\ farm # "gone"

\* Between two changes, what LiteLLM routes is what the config says the farm serves,
\* whatever failed, was undone or fell back on the way.
RoutesWhatItSays ==
    farm = "up" /\ op = Idle /\ proxy[child] = "ok" => routes = Routing

\* The removal of the runtime file is heard: a farm that has a LiteLLM, or is about
\* to, stops for good after a `lol down`, whatever it was in the middle of.
DownIsHeeded ==
    farm = "up" /\ file = None /\ (restarting \/ proxy[child] \in Alive) ~> farm = "gone"

\* What is accepted into the chain comes to its end.
ChainMoves == op # Idle ~> op = Idle

=============================================================================
