--------------------------- MODULE FarmSupervisor ---------------------------
(* The Farm app and the `lol up` it runs (farm-app/src/main/farmSupervisor.ts,  *)
(* with index.ts and farmProcess.ts): Start, Stop, the share toggle, Quit, the  *)
(* restarts after a crash and the two waits for a farm to become healthy.       *)
(*                                                                              *)
(* Each of them is a coroutine, an element of Ops, and a step goes from one     *)
(* await to the next. `gen` of the code is the flag `current` of each           *)
(* coroutine: gen++ clears everybody else's. What a settled promise wakes runs  *)
(* before any other event, in the order in which it began to wait (`woken`).    *)
EXTENDS Naturals, Sequences, FiniteSets

CONSTANTS
    Ops,           \* coroutines that may be under way at once
    Pids,          \* processes that may exist at once
    None,          \* no process, no coroutine
    MaxRestarts,   \* MAX_CRASH_RESTARTS
    Queueing,      \* the stops that may be asked for while another is under way
    LateEngine     \* may a `lol up` that is being killed still start vLLM?

ASSUME SupervisorAssumption ==
    /\ None \notin Ops \cup Pids
    /\ MaxRestarts \in Nat
    /\ Queueing \subseteq {"stop", "toggle", "quit"} /\ LateEngine \in BOOLEAN

VARIABLES
    app,       \* "up", "quitting" once Quit was asked for, "exited"
    up,        \* what each `lol up` is doing
    file,      \* whose .lol-runtime.json is on the disk
    proxy,     \* does the LiteLLM that file names live?
    engine,    \* does vLLM run?
    child,     \* the supervisor's child
    crashes,   \* crashRestarts
    status,    \* state.status
    ran,       \* ranSinceStop
    stopping,  \* the coroutine whose run is `stopping`
    waiters,   \* who awaits `stopping`, in the order of their awaits
    woken,     \* who goes on before any other event, in order
    op         \* the coroutines

farm == <<up, file, proxy, engine>>
self == <<child, crashes, status, ran>>
wait == <<stopping, waiters, woken>>
vars == <<app, farm, self, wait, op>>

Alive == {"spawned", "booting", "serving"}
Stops == {"stop", "toggle", "quit"}

\* A coroutine: what it is for, the await it is at, whether `gen` is still the
\* one it read, the process it kills, whose file its reap has read.
Idle == [kind |-> "none", pc |-> "off", current |-> FALSE, target |-> None, saw |-> None]
OpRecords ==
    [kind : {"none", "start", "restart"} \cup Stops,
     pc : {"off", "reap", "starts", "waits", "killOld", "spawns", "health", "watch",
           "snap", "down", "downed", "kill", "reapLast", "exits"},
     current : BOOLEAN, target : Pids \cup {None}, saw : Pids \cup {None}]

Init ==
    /\ app = "up"
    /\ up = [p \in Pids |-> "gone"]
    \* a run that was force-quit may have left its runtime file, its LiteLLM
    /\ file \in Pids \cup {None}
    /\ proxy \in IF file = None THEN {FALSE} ELSE BOOLEAN
    /\ engine = FALSE
    /\ child = None /\ crashes = 0 /\ status = "idle" /\ ran = FALSE
    /\ stopping = None /\ waiters = <<>> /\ woken = <<>>
    /\ op = [o \in Ops |-> Idle]

-----------------------------------------------------------------------------
(* What the steps are made of. *)

Ends(o) == [op EXCEPT ![o] = Idle]

\* gen++ by coroutine o: every other one is superseded.
Supersede(o) == [q \in Ops |-> [op[q] EXCEPT !.current = (q = o)]]

\* reapStaleFarm(): the file is read first; it is unlinked, whosever it is by
\* then, when what it named has been killed.
Reaped(saw) ==
    /\ file' = IF saw = None THEN file ELSE None
    /\ proxy' = (proxy /\ ~(saw # None /\ saw = file))

\* killTree(): a farm that serves may get as far as its LiteLLM, its vLLM and its
\* file in its own shutdown. killOne() gives it no time.
Killed(p, gently) ==
    /\ up' = [q \in Pids |-> IF q = p /\ up[q] \in Alive THEN "gone" ELSE up[q]]
    /\ \/ UNCHANGED <<file, proxy, engine>>
       \/ /\ gently /\ p # None /\ file = p
          /\ up[p] = "serving"
          /\ proxy' = FALSE
          /\ \/ UNCHANGED <<file, engine>>
             \/ engine' = FALSE /\ file' \in {None, p}

\* An event of the app; the continuation of a settled promise comes before it.
Event == app # "exited" /\ woken = <<>>
First(o) == app # "exited" /\ woken # <<>> /\ o = Head(woken)
Continues(o) == First(o) /\ woken' = Tail(woken)

\* The last await of a stop is none when there is no file to reap: it goes on at once.
IfNothingToReap(o) == IF op'[o].pc = "reapLast" /\ op'[o].saw = None THEN <<o>> ELSE <<>>

-----------------------------------------------------------------------------
(* start() *)

\* startFarm(): at the app's start, from the wizard, by the Start button.
AskStart(o) ==
    /\ Event /\ op[o].pc = "off" /\ app = "up"
    /\ status \in {"idle", "stopped", "error"}
    /\ op' = [op EXCEPT ![o] = [Idle EXCEPT !.kind = "start", !.pc = "reap", !.saw = file]]
    /\ UNCHANGED <<app, farm, self, wait>>

ReapEnds(o) ==
    /\ Event /\ op[o].pc = "reap"
    /\ Reaped(op[o].saw)
    /\ op' = [op EXCEPT ![o].pc = "starts", ![o].saw = None]
    /\ woken' = <<o>>
    /\ UNCHANGED <<app, up, engine, self, stopping, waiters>>

\* A restart after a crash only starts when nothing was asked for meanwhile.
Wanted_Always(o) == op[o].pc = "starts"
Wanted(o) == op[o].kind = "restart" => op[o].current /\ child = None

NotWanted(o) ==
    /\ Continues(o) /\ op[o].pc = "starts" /\ ~Wanted(o)
    /\ op' = Ends(o)
    /\ UNCHANGED <<app, farm, self, stopping, waiters>>

MustWait(o) == op[o].pc = "starts" /\ stopping # None

StartWaits(o) ==
    /\ Continues(o) /\ MustWait(o) /\ Wanted(o)
    /\ waiters' = Append(waiters, o)
    /\ op' = [op EXCEPT ![o].pc = "waits"]
    /\ UNCHANGED <<app, farm, self, stopping>>

\* ... and goes on without looking again.
GoesOn(o) ==
    /\ Continues(o)
    /\ \/ op[o].pc = "starts" /\ Wanted(o) /\ ~MustWait(o)
       \/ op[o].pc = "waits" /\ op[o].kind \notin Stops

AlreadyUp(o) ==
    /\ GoesOn(o) /\ status = "ready" /\ child # None
    /\ op' = Ends(o)
    /\ UNCHANGED <<app, farm, self, stopping, waiters>>

KillOld(o) ==
    /\ GoesOn(o) /\ status # "ready" /\ child # None
    /\ op' = [Supersede(o) EXCEPT ![o].pc = "killOld", ![o].target = child]
    /\ child' = None
    /\ UNCHANGED <<app, farm, crashes, status, ran, stopping, waiters>>

Spawn_Forgives(o, ops) ==
    /\ \E p \in Pids :
          /\ up[p] = "gone" /\ \A q \in Ops : op[q].target # p
          /\ child' = p
          /\ up' = [up EXCEPT ![p] = "spawned"]
    /\ status' = "starting" /\ ran' = TRUE /\ crashes' = 0
    /\ op' = [ops EXCEPT ![o].pc = "health", ![o].target = None]
    /\ UNCHANGED <<app, file, proxy, engine, stopping, waiters>>

\* spawn(), up to the first await of waitHealthy().
Spawn(o, ops) ==
    /\ \E p \in Pids :
          /\ up[p] = "gone" /\ \A q \in Ops : op[q].target # p
          /\ child' = p
          /\ up' = [up EXCEPT ![p] = "spawned"]
    /\ status' = "starting" /\ ran' = TRUE
    /\ op' = [ops EXCEPT ![o].pc = "health", ![o].target = None]
    /\ UNCHANGED <<app, file, proxy, engine, crashes, stopping, waiters>>

SpawnFirst(o) == GoesOn(o) /\ child = None /\ Spawn(o, Supersede(o))

OldKilled(o) ==
    /\ Event /\ op[o].pc = "killOld"
    /\ Killed(op[o].target, TRUE)
    /\ op' = [op EXCEPT ![o].pc = "spawns", ![o].target = None]
    /\ woken' = <<o>>
    /\ UNCHANGED <<app, self, stopping, waiters>>

\* A newer start or a stop came while the old child was killed.
StillMine_Always(o) == op[o].pc = "spawns"
StillMine(o) == op[o].current

SpawnNext(o) ==
    /\ Continues(o) /\ op[o].pc = "spawns" /\ StillMine(o)
    /\ Spawn(o, op)

SpawnLeft(o) ==
    /\ Continues(o) /\ op[o].pc = "spawns" /\ ~StillMine(o)
    /\ op' = Ends(o)
    /\ UNCHANGED <<app, farm, self, stopping, waiters>>

\* waitHealthy(), then watchForLateRecovery(): /lol/self answers.
Healthy(o) ==
    /\ Event /\ op[o].pc \in {"health", "watch"} /\ op[o].current
    /\ op[o].pc = "watch" => child # None
    /\ \E p \in Pids : up[p] = "serving"
    /\ crashes' = IF op[o].pc = "health" THEN 0 ELSE crashes
    /\ op' = [op EXCEPT ![o].pc = "snap"]
    /\ UNCHANGED <<app, farm, child, status, ran, wait>>

\* The snapshot is fetched; nothing is asked again.
SnapEnds(o) ==
    /\ Event /\ op[o].pc = "snap"
    /\ status' = "ready"
    /\ op' = Ends(o)
    /\ UNCHANGED <<app, farm, child, crashes, ran, wait>>

\* Five silent minutes, or two hours. The child is left alone and watched.
GivesUp(o) ==
    /\ Event /\ op[o].pc = "health" /\ op[o].current
    /\ status' = "error"
    /\ op' = [op EXCEPT ![o].pc = "watch"]
    /\ UNCHANGED <<app, farm, child, crashes, ran, wait>>

\* Superseded, without a child, or watched for an hour.
WaitLeft(o) ==
    /\ Event
    /\ \/ op[o].pc \in {"health", "watch"} /\ ~op[o].current
       \/ op[o].pc = "watch"
    /\ op' = Ends(o)
    /\ UNCHANGED <<app, farm, self, wait>>

-----------------------------------------------------------------------------
(* stop() *)

NeedsDown(kind) == kind # "toggle" /\ (child # None \/ ran \/ file # None)

\* doStop(), up to its first await.
DoStop(o, kind) ==
    /\ op' = [Supersede(None) EXCEPT
                ![o] = [kind |-> kind, current |-> FALSE, target |-> child, saw |-> file,
                        pc |-> IF NeedsDown(kind) THEN "down"
                               ELSE IF child # None THEN "kill" ELSE "reapLast"]]
    /\ child' = None
    /\ status' = IF kind = "toggle" THEN status ELSE "stopping"
    /\ stopping' = o
    /\ UNCHANGED <<farm, crashes, ran>>

\* The Stop button, the share toggle and Quit. stop() waits, once, for the stop
\* in progress.
AskStop(o, kind) ==
    /\ Event /\ op[o].pc = "off" /\ app = "up"
    /\ kind = "stop" => status = "ready"
    /\ kind = "toggle" => status \in {"ready", "starting", "restarting"}
    /\ app' = IF kind = "quit" THEN "quitting" ELSE app
    /\ \/ /\ stopping = None
          /\ DoStop(o, kind)
          /\ woken' = IfNothingToReap(o)
          /\ UNCHANGED waiters
       \/ /\ stopping # None /\ kind \in Queueing
          /\ waiters' = Append(waiters, o)
          /\ op' = [op EXCEPT ![o] = [Idle EXCEPT !.kind = kind, !.pc = "waits"]]
          /\ UNCHANGED <<farm, self, stopping, woken>>

StopGoesOn(o) ==
    /\ First(o) /\ op[o].pc = "waits" /\ op[o].kind \in Stops
    /\ DoStop(o, op[o].kind)
    /\ woken' = Tail(woken) \o IfNothingToReap(o)
    /\ waiters' = <<>>
    /\ UNCHANGED app

\* `lol down` has removed the file, and stopped the LiteLLM it named and vLLM.
DownActs(o) ==
    /\ Event /\ op[o].pc = "down"
    /\ file' = None
    /\ proxy' = (proxy /\ file = None)
    /\ engine' = FALSE
    /\ op' = [op EXCEPT ![o].pc = "downed"]
    /\ UNCHANGED <<app, up, self, wait>>

\* A fetch from the farm that is being stopped has failed by now: its socket
\* closed with it.
FetchOver == \A q \in Ops : op[q].pc = "snap" => op[q].current

DownReturns(o) ==
    /\ Event /\ op[o].pc = "downed" /\ FetchOver
    /\ ran' = FALSE
    /\ op' = [op EXCEPT ![o].pc = IF op[o].target # None THEN "kill" ELSE "reapLast",
                        ![o].saw = file]
    /\ woken' = IfNothingToReap(o)
    /\ UNCHANGED <<app, farm, child, crashes, status, stopping, waiters>>

KillEnds_Forgets(o) ==
    /\ Event /\ op[o].pc = "kill" /\ FetchOver
    /\ Killed(op[o].target, op[o].kind # "toggle")
    /\ op' = [op EXCEPT ![o].pc = "reapLast", ![o].target = None, ![o].saw = file']
    /\ woken' = IfNothingToReap(o)
    /\ ran' = FALSE
    /\ UNCHANGED <<app, child, crashes, status, stopping, waiters>>

KillEnds(o) ==
    /\ Event /\ op[o].pc = "kill" /\ FetchOver
    /\ Killed(op[o].target, op[o].kind # "toggle")
    /\ op' = [op EXCEPT ![o].pc = "reapLast", ![o].target = None, ![o].saw = file']
    /\ woken' = IfNothingToReap(o)
    /\ UNCHANGED <<app, self, stopping, waiters>>

\* The run of stop() settles: it wakes who waits for it, then Quit exits and the
\* share toggle starts the farm again.
RunEnds(o) ==
    /\ op[o].pc = "reapLast"
    /\ IF op[o].saw = None THEN First(o) ELSE Event
    /\ Reaped(op[o].saw)
    /\ status' = IF op[o].kind = "toggle" THEN status ELSE "stopped"
    /\ stopping' = IF stopping = o THEN None ELSE stopping
    /\ waiters' = IF stopping = o THEN <<>> ELSE waiters
    /\ woken' = (IF op[o].saw = None THEN Tail(woken) ELSE <<>>)
                    \o (IF stopping = o THEN waiters ELSE <<>>)
                    \o (IF op[o].kind = "quit" THEN <<o>> ELSE <<>>)
    /\ op' = CASE op[o].kind = "quit" -> [op EXCEPT ![o].pc = "exits", ![o].saw = None]
               [] op[o].kind = "toggle" ->
                     [op EXCEPT ![o] = [Idle EXCEPT !.kind = "start", !.pc = "reap", !.saw = file']]
               [] OTHER -> Ends(o)
    /\ UNCHANGED <<app, up, engine, child, crashes, ran>>

AppExits(o) ==
    /\ Continues(o) /\ op[o].pc = "exits"
    /\ app' = "exited"
    /\ op' = Ends(o)
    /\ UNCHANGED <<farm, self, stopping, waiters>>

-----------------------------------------------------------------------------
(* onChildExit(): the exit of a process that is no longer the child is ignored. *)

\* A crash: what the dead farm left is reaped, then start() is called again.
CrashRestart(p) ==
    /\ Event /\ p = child /\ up[p] = "gone" /\ crashes < MaxRestarts
    /\ child' = None
    /\ crashes' = crashes + 1
    /\ status' = "restarting"
    /\ \E o \in Ops :
          /\ op[o].pc = "off"
          /\ op' = [op EXCEPT ![o] = [kind |-> "restart", pc |-> "reap", current |-> TRUE,
                                      target |-> None, saw |-> file]]
    /\ UNCHANGED <<app, farm, ran, wait>>

CrashGivenUp(p) ==
    /\ Event /\ p = child /\ up[p] = "gone" /\ crashes = MaxRestarts
    /\ child' = None
    /\ status' = "error"
    /\ UNCHANGED <<app, farm, crashes, ran, wait, op>>

-----------------------------------------------------------------------------
(* `lol up` (farm/src/commands/up.js), as far as the app depends on it. *)

Lives(p, how) == up' = [up EXCEPT ![p] = how] /\ UNCHANGED <<app, self, wait, op>>

\* It refuses to start beside a LiteLLM that lives, and clears a stale file.
Refuses(p) ==
    /\ up[p] = "spawned" /\ file # None /\ proxy
    /\ Lives(p, "gone") /\ UNCHANGED <<file, proxy, engine>>

Boots(p) ==
    /\ up[p] = "spawned" /\ ~(file # None /\ proxy)
    /\ file' = None
    /\ Lives(p, "booting") /\ UNCHANGED <<proxy, engine>>

\* vLLM is kept running from before, or started, once the farm is up.
EngineStarts(p) ==
    /\ up[p] \in {"booting", "serving"} /\ ~engine
    /\ ~LateEngine => p = child
    /\ engine' = TRUE
    /\ Lives(p, up[p]) /\ UNCHANGED <<file, proxy>>

\* One farm at a time has the ports.
Serves(p) ==
    /\ up[p] = "booting" /\ \A q \in Pids : up[q] # "serving"
    /\ file' = p /\ proxy' = TRUE
    /\ Lives(p, "serving") /\ UNCHANGED engine

\* Its LiteLLM is gone: it clears its file, if that is still there, and exits.
LosesProxy(p) ==
    /\ up[p] = "serving" /\ ~proxy
    /\ file' = None
    /\ Lives(p, "gone") /\ UNCHANGED <<proxy, engine>>

\* It dies, and leaves what it recorded.
Dies(p) ==
    /\ up[p] \in Alive
    /\ Lives(p, "gone") /\ UNCHANGED <<file, proxy, engine>>

-----------------------------------------------------------------------------
StartStep(o) ==
    \/ ReapEnds(o) \/ NotWanted(o) \/ StartWaits(o) \/ AlreadyUp(o) \/ KillOld(o)
    \/ SpawnFirst(o) \/ OldKilled(o) \/ SpawnNext(o) \/ SpawnLeft(o)
HealthStep(o) == Healthy(o) \/ SnapEnds(o) \/ GivesUp(o) \/ WaitLeft(o)
StopStep(o) ==
    \/ StopGoesOn(o) \/ DownActs(o) \/ DownReturns(o) \/ KillEnds(o) \/ RunEnds(o)
    \/ AppExits(o)
ExitStep(p) == CrashRestart(p) \/ CrashGivenUp(p)
FarmStep(p) ==
    \/ Refuses(p) \/ Boots(p) \/ EngineStarts(p) \/ Serves(p) \/ LosesProxy(p) \/ Dies(p)

Next ==
    \/ \E o \in Ops :
          \/ AskStart(o) \/ \E kind \in Stops : AskStop(o, kind)
          \/ StartStep(o) \/ HealthStep(o) \/ StopStep(o)
    \/ \E p \in Pids : ExitStep(p) \/ FarmStep(p)

Spec == Init /\ [][Next]_vars

\* Timers fire, killed processes die, awaits settle, exit events arrive. Nobody
\* has to press a button, and a `lol up` may live or die as it likes.
FairSpec ==
    /\ Spec
    /\ \A o \in Ops : WF_vars(StartStep(o)) /\ WF_vars(HealthStep(o)) /\ WF_vars(StopStep(o))
    /\ \A p \in Pids : WF_vars(ExitStep(p))

-----------------------------------------------------------------------------
TypeOK ==
    /\ app \in {"up", "quitting", "exited"}
    /\ up \in [Pids -> Alive \cup {"gone"}]
    /\ file \in Pids \cup {None} /\ proxy \in BOOLEAN /\ engine \in BOOLEAN
    /\ child \in Pids \cup {None}
    /\ crashes \in 0..MaxRestarts
    /\ status \in {"idle", "starting", "restarting", "ready", "error", "stopping", "stopped"}
    /\ ran \in BOOLEAN
    /\ stopping \in Ops \cup {None}
    /\ waiters \in Seq(Ops) /\ woken \in Seq(Ops)
    /\ op \in [Ops -> OpRecords]

\* No `lol up` is lost: while the app runs, each one alive is the supervisor's
\* child or about to be killed by the coroutine that took it from there, however
\* starts, stops and crashes interleave.
NoStray ==
    app # "exited" =>
        \A p \in Pids : up[p] \in Alive => p = child \/ \E o \in Ops : op[o].target = p

\* farmSupervisor.ts: a Start "never boots a farm that keeps the vLLM `lol down`
\* is stopping": nothing is spawned while a stop is under way.
NeverBootsUnderAStop ==
    [][app = "up" /\ (\E p \in Pids : up[p] = "gone" /\ up'[p] = "spawned") =>
           \A o \in Ops : op[o].pc \notin {"down", "downed", "kill", "reapLast"}]_vars

\* When the window says Stopped, no vLLM runs, and no farm of this app but one
\* that a start had begun to kill before the stop.
StoppedIsStopped ==
    status = "stopped" /\ app = "up" =>
        /\ ~engine
        /\ \A p \in Pids : up[p] \in Alive =>
               \E o \in Ops : op[o].pc = "killOld" /\ op[o].target = p

\* vLLM outlives crashes, restarts and the share toggle; whenever it runs, the next
\* Stop or Quit knows that it has to run `lol down`.
EngineIsRemembered ==
    engine /\ app = "up" => ran \/ \E o \in Ops : op[o].pc \in {"down", "downed"}

\* What was stopped stays stopped until somebody presses Start: no restart after a
\* crash and no late answer of the farm that was stopped turns it round.
StopSticks ==
    [][app = "up" /\ status = "stopped" /\ status' \notin {"stopped", "stopping"} =>
           \E o \in Ops : op[o].kind = "start"]_vars

\* A vLLM on the GPU has somebody who knows of it, running or stopped.
EngineAccounted == EngineIsRemembered /\ StoppedIsStopped

\* Nothing is started past a stop, neither during it nor afterwards.
StopHolds == NeverBootsUnderAStop /\ StopSticks

\* A farm that starts, restarts or stops gets somewhere: it answers, it is stopped
\* or the window says what is wrong. A farm that keeps exiting is not restarted for ever.
\* (An operator who toggles the sharing for ever keeps it starting for ever.)
Settles ==
    <>[][\A o \in Ops : ~AskStop(o, "toggle")]_vars =>
        (status \in {"starting", "restarting", "stopping"} ~>
             status \in {"ready", "error", "stopped"} \/ app = "exited")

=============================================================================
