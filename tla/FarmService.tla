----------------------------- MODULE FarmService -----------------------------
(* One optional service of the farm, a child process (farm/src/plugins/           *)
(* registry.js, with its callers in commands/up.js): its start with the wait for  *)
(* an answer, its stop, the panel's switch, the health tick that probes it, the   *)
(* farm's own end. The service is the message bus: nothing to install, and it     *)
(* exits by itself when the farm's process goes away. The farm's asynchronous     *)
(* code is cut at its awaits.                                                     *)
EXTENDS FarmPassword

CONSTANTS
    Procs             \* pids

ASSUME Pids == None \notin Procs

VARIABLES
    child,        \* this.child
    up, wasUp,
    alive,        \* processes of the service
    serving,      \* the one that has the ports
    exits,        \* exit events to come
    task,         \* the start or stop under way: the boot's, or setPlugin()'s, one at a time
    tick,         \* the health tick: "idle", "asked", "yes", "no"
    advertised,   \* liveHealth.busUp
    farmKey,      \* config.proxy.masterKey
    ipc,          \* a password on its way to the child
    farm          \* "runs", "stops" (the child is killed), "gone"

svcVars == <<child, up, wasUp, alive, serving, exits, task, tick, advertised,
             farmKey, ipc, farm>>

Idle == [pc |-> "idle", p |-> None]
FarmUp == farm # "gone"
Exited(p) == p \notin alive \cup exits

\* A boot with the service on starts it first; nobody uses the switch before that ends.
SvcInit ==
    /\ child = None /\ up = FALSE /\ wasUp = FALSE /\ alive = {} /\ serving = None /\ exits = {}
    /\ task = [pc |-> "start", p |-> None]
    /\ tick = "idle" /\ advertised = FALSE /\ farmKey \in Passwords /\ ipc = None
    /\ farm = "runs"

-----------------------------------------------------------------------------
\* Processes end: their ports are free, a message to them is lost.
Ends(ps) ==
    /\ alive' = alive \ ps /\ exits' = IF FarmUp THEN exits \cup (ps \cap alive) ELSE exits
    /\ serving' = IF serving \in ps THEN None ELSE serving
    /\ ipc' = IF ps \cap alive # {} THEN None ELSE ipc

Dies(p) ==
    /\ p \in alive /\ Ends({p})
    /\ UNCHANGED <<child, up, wasUp, task, tick, advertised, farmKey, farm>>

Bind(p) ==
    /\ p \in alive /\ serving = None /\ serving' = p
    /\ UNCHANGED <<child, up, wasUp, alive, exits, task, tick, advertised, farmKey, ipc, farm>>

\* Another program has one of the ports: "cannot listen".
BindFails(p) ==
    /\ p \in alive /\ p # serving /\ Ends({p})
    /\ UNCHANGED <<child, up, wasUp, task, tick, advertised, farmKey, farm>>

\* The exit listener, with onDown().
ExitEvent(p) ==
    /\ FarmUp /\ p \in exits /\ exits' = exits \ {p}
    /\ IF child = p
       THEN /\ child' = None /\ up' = FALSE
            /\ advertised' = (advertised /\ ~up)
       ELSE UNCHANGED <<child, up, advertised>>
    /\ UNCHANGED <<wasUp, alive, serving, task, tick, farmKey, ipc, farm>>

-----------------------------------------------------------------------------
(* start() and stop(), from setPlugin() or the boot.                             *)

SwitchOn ==
    /\ farm = "runs" /\ task = Idle
    /\ task' = IF child # None THEN Idle ELSE [Idle EXCEPT !.pc = "start"]
    /\ UNCHANGED <<child, up, wasUp, alive, serving, exits, tick, advertised, farmKey, ipc, farm>>

\* The child is forgotten before it is killed: its exit is no news.
SwitchOff ==
    /\ farm = "runs" /\ task = Idle
    /\ child' = None /\ up' = FALSE /\ wasUp' = FALSE
    /\ task' = [pc |-> "kill", p |-> child]
    /\ UNCHANGED <<alive, serving, exits, tick, advertised, farmKey, ipc, farm>>

Killed ==
    /\ FarmUp /\ task.pc = "kill" /\ task' = Idle /\ advertised' = up
    /\ Ends({task.p})
    /\ UNCHANGED <<child, up, wasUp, tick, farmKey, farm>>

\* Pids are alike: the next one free.
Spawn ==
    /\ FarmUp /\ task.pc = "start" /\ Procs # alive \cup exits
    /\ LET p == CHOOSE q \in Procs : q \notin alive \cup exits
       IN  /\ child' = p /\ alive' = alive \cup {p} /\ ipc' = None
           /\ task' = [task EXCEPT !.pc = "wait", !.p = p]
    /\ UNCHANGED <<up, wasUp, serving, exits, tick, advertised, farmKey, farm>>

\* The probe of waitReady() is answered; the start goes on a little later.
ReadyAnswered ==
    /\ FarmUp /\ task.pc = "wait" /\ serving # None /\ task' = [task EXCEPT !.pc = "answered"]
    /\ UNCHANGED <<child, up, wasUp, alive, serving, exits, tick, advertised, farmKey, ipc, farm>>

\* Did not come up: the switch goes back, and setPlugin() stops what it started.
SwitchFailed == up' = FALSE /\ advertised' = FALSE /\ wasUp' = FALSE

Started ==
    /\ FarmUp /\ task.pc = "answered" /\ ~Exited(task.p)
    /\ up' = TRUE /\ wasUp' = TRUE /\ advertised' = TRUE /\ task' = Idle
    /\ UNCHANGED <<child, alive, serving, exits, tick, farmKey, ipc, farm>>

DiedInStart ==
    /\ FarmUp /\ task.pc \in {"wait", "answered"} /\ Exited(task.p)
    /\ SwitchFailed /\ task' = Idle
    /\ UNCHANGED <<child, alive, serving, exits, tick, farmKey, ipc, farm>>

\* No answer in time: the child is stopped, so that it gives back its ports.
TimesOut_Leaves ==
    /\ FarmUp /\ task.pc = "wait" /\ ~Exited(task.p)
    /\ child' = None /\ up' = FALSE /\ wasUp' = FALSE
    /\ task' = [task EXCEPT !.pc = "tidy", !.p = None]
    /\ UNCHANGED <<alive, serving, exits, tick, advertised, farmKey, ipc, farm>>
TimesOut ==
    /\ FarmUp /\ task.pc = "wait" /\ ~Exited(task.p)
    /\ child' = None /\ up' = FALSE /\ wasUp' = FALSE
    /\ task' = [task EXCEPT !.pc = "tidy"]
    /\ UNCHANGED <<alive, serving, exits, tick, advertised, farmKey, ipc, farm>>

Tidied ==
    /\ FarmUp /\ task.pc = "tidy" /\ SwitchFailed /\ task' = Idle /\ Ends({task.p})
    /\ UNCHANGED <<child, tick, farmKey, farm>>

-----------------------------------------------------------------------------
(* The health tick, and the password it hands over.                              *)

\* One message on its way at most: a later one takes its place.
SendKey(c) == ipc' = IF c \in alive THEN farmKey ELSE ipc

TickBegins_ByPid ==
    /\ farm = "runs" /\ tick = "idle"
    /\ IF child # None /\ wasUp THEN tick' = "asked" /\ UNCHANGED ipc
                                ELSE UNCHANGED tick /\ SendKey(child)
    /\ UNCHANGED <<child, up, wasUp, alive, serving, exits, task, advertised, farmKey, farm>>
TickBegins ==
    /\ farm = "runs" /\ tick = "idle"
    /\ IF wasUp /\ child # None
       THEN tick' = "asked" /\ UNCHANGED <<up, advertised, ipc>>
       ELSE /\ up' = (up /\ ~wasUp) /\ advertised' = (advertised /\ ~wasUp)
            /\ SendKey(child) /\ UNCHANGED tick
    /\ UNCHANGED <<child, wasUp, alive, serving, exits, task, farmKey, farm>>

\* The answer; a busy service may miss one.
Probed ==
    /\ FarmUp /\ tick = "asked"
    /\ \/ tick' = "no"
       \/ serving # None /\ tick' = "yes"
    /\ UNCHANGED <<child, up, wasUp, alive, serving, exits, task, advertised, farmKey, ipc, farm>>

TickEnds_Keyless ==
    /\ FarmUp /\ tick \in {"yes", "no"} /\ tick' = "idle"
    /\ up' = (wasUp /\ tick = "yes") /\ advertised' = up'
    /\ UNCHANGED <<ipc, child, wasUp, alive, serving, exits, task, farmKey, farm>>
TickEnds ==
    /\ FarmUp /\ tick \in {"yes", "no"} /\ tick' = "idle"
    /\ up' = (wasUp /\ tick = "yes") /\ advertised' = up'
    /\ SendKey(child)
    /\ UNCHANGED <<child, wasUp, alive, serving, exits, task, farmKey, farm>>

\* A change that took is handed over at once.
HandsOver ==
    /\ farm = "runs" /\ SendKey(child)
    /\ UNCHANGED <<child, up, wasUp, alive, serving, exits, task, tick, advertised, farmKey, farm>>

\* The panel's password, which a LiteLLM that does not come back takes back.
ChangeKey(k) ==
    /\ farm = "runs" /\ k # farmKey
    /\ farmKey' = k
    /\ UNCHANGED <<child, up, wasUp, alive, serving, exits, task, tick, advertised, ipc, farm>>

-----------------------------------------------------------------------------
(* The farm's end. A task of the chain goes on while it stops.                   *)

\* shutdown() or onProxyExit(): the child of now is killed, the start of another goes on.
Stop ==
    /\ farm = "runs" /\ farm' = "stops" /\ Ends({child})
    /\ UNCHANGED <<child, up, wasUp, task, tick, advertised, farmKey>>

\* process.exit(), or the farm is killed: what it knew is gone with it.
Gone ==
    /\ farm \in {"runs", "stops"} /\ farm' = "gone"
    /\ child' = None /\ up' = FALSE /\ wasUp' = FALSE /\ exits' = {} /\ task' = Idle
    /\ tick' = "idle" /\ advertised' = FALSE /\ ipc' = None
    /\ UNCHANGED <<alive, serving, farmKey>>

\* 'disconnect': the farm's process is gone, the service gives the ports back.
Disconnect(p) ==
    /\ farm = "gone" /\ p \in alive /\ Ends({p})
    /\ UNCHANGED <<child, up, wasUp, task, tick, advertised, farmKey, farm>>

-----------------------------------------------------------------------------
SvcTypeOK ==
    /\ up \in BOOLEAN /\ wasUp \in BOOLEAN /\ advertised \in BOOLEAN
    /\ child \in Procs \cup {None} /\ serving \in Procs \cup {None}
    /\ alive \subseteq Procs /\ exits \subseteq Procs
    /\ task \in [pc : {"idle", "start", "wait", "answered", "tidy", "kill"},
                 p : Procs \cup {None}]
    /\ tick \in {"idle", "asked", "yes", "no"}
    /\ farmKey \in Passwords /\ ipc \in Passwords \cup {None}
    /\ farm \in {"runs", "stops", "gone"}

\* No process of the service outlives the farm's knowledge of it: it is the child, or
\* the one a kill under way is for. A switch off, a start that fails and a crash leave
\* nothing behind, and a plugin that is off holds no port.
NoOrphan ==
    FarmUp => \A p \in alive : p = child \/ (task.pc \in {"kill", "tidy"} /\ p = task.p)

\* What the farm tells the clients is corrected: a service that stopped answering for
\* good is not offered for ever, however its exit, a probe and a start crossed.
OfferIsTrue == (advertised /\ serving = None) ~> (~advertised \/ serving # None \/ farm # "runs")
=============================================================================
