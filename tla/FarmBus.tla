------------------------------- MODULE FarmBus -------------------------------
(* The message bus as the farm runs it: the service's life (FarmService) around   *)
(* the bus process (Bus). A start gives the bus the farm password in its          *)
(* environment, the health tick hands it a changed one, and its end ends every    *)
(* session.                                                                       *)
EXTENDS FarmService, Bus

farmBusVars == <<svcVars, busVars>>

FarmBusInit == SvcInit /\ BusInit

\* Steps of the farm that leave the bus alone, and events of the bus.
FarmStep ==
    /\ \/ SwitchOn \/ SwitchOff \/ ReadyAnswered \/ Started \/ DiedInStart \/ TimesOut
       \/ TickBegins \/ Probed \/ TickEnds \/ HandsOver \/ Gone
       \/ \E p \in Procs : Bind(p) \/ ExitEvent(p)
       \/ \E k \in Passwords : ChangeKey(k)
    /\ UNCHANGED busVars
\* Steps that may end the bus process take its sessions with it.
EndStep ==
    /\ \/ Killed \/ Tidied \/ Stop
       \/ \E p \in Procs : Dies(p) \/ BindFails(p) \/ Disconnect(p)
    /\ IF serving # None /\ serving' = None THEN Fresh(password) ELSE UNCHANGED busVars
SpawnStep == Spawn /\ Fresh(farmKey)
\* The bus takes the password the farm sent.
TakeKey ==
    /\ ipc # None /\ ipc' = None /\ SetKey(ipc)
    /\ UNCHANGED <<child, up, wasUp, alive, serving, exits, task, tick, advertised, farmKey,
                   farm>>
ClientStep == serving # None /\ BusStep /\ UNCHANGED svcVars

FarmBusNext == FarmStep \/ EndStep \/ SpawnStep \/ TakeKey \/ ClientStep

FarmBusSpec == FarmBusInit /\ [][FarmBusNext]_farmBusVars

\* The event loop runs what is due: a start or stop goes on, the tick comes every few
\* seconds, an exit and a message are handled, a farm that stops ends, and the bus of a
\* farm that is gone sees it.
Going ==
    \/ (ReadyAnswered \/ Started \/ DiedInStart \/ TimesOut) /\ UNCHANGED busVars
    \/ (Killed \/ Tidied) /\ EndStep
    \/ SpawnStep
Ticking == (TickBegins \/ Probed \/ TickEnds) /\ UNCHANGED busVars
Ending == (\E p \in Procs : Disconnect(p)) /\ EndStep
Exiting == farm = "stops" /\ Gone /\ UNCHANGED busVars
FairFarmBusSpec ==
    /\ FarmBusSpec
    /\ WF_farmBusVars(Going) /\ WF_farmBusVars(Ticking) /\ WF_farmBusVars(TakeKey)
    /\ WF_farmBusVars(Ending) /\ WF_farmBusVars(Exiting)
    /\ \A p \in Procs : WF_farmBusVars(ExitEvent(p) /\ UNCHANGED busVars)

FarmBusTypeOK == SvcTypeOK /\ BusTypeOK

-----------------------------------------------------------------------------
\* A new farm password reaches the bus: whoever was let in under another one stops
\* receiving, though the bus checks the password itself and the farm's tick, a restart
\* of the bus and the taking back of a failed change all race.
Stale == farmKey # Open /\ \E x \in subscribers : Receives(x) /\ under[x] # farmKey
OldPasswordEnds == Stale ~> ~Stale
=============================================================================
