------------------------- MODULE FarmSupervisor_proofs -------------------------
(* Proofs about the Farm app's supervisor, for any number of coroutines and of    *)
(* processes, and any limit on restarts: the types, that no `lol up` is lost, and *)
(* that vLLM is not lost sight of and stops hold as long as they do not pile up.  *)
EXTENDS FarmSupervisor, TLAPS

\* A coroutine that took the old child from the supervisor to spawn the next one.
Replaces(o) == op[o].pc \in {"killOld", "spawns"} /\ op[o].current

(***************************************************************************)
(* Why no `lol up` is lost: a coroutine names a process only while it is    *)
(* about to kill it, one coroutine at most replaces the child, and there is *)
(* no child then for its spawn to write over.                               *)
(***************************************************************************)
Owned ==
    /\ NoStray
    /\ \A o \in Ops : op[o].target # None => op[o].pc \in {"killOld", "down", "downed", "kill"}
    /\ \A o \in Ops : Replaces(o) => child = None
    /\ \A o, q \in Ops : Replaces(o) /\ Replaces(q) => o = q

Inv == TypeOK /\ Owned

-----------------------------------------------------------------------------
(* Sequences of coroutines, and what the steps are made of. *)

LEMMA SeqFacts ==
  ASSUME NEW s \in Seq(Ops), NEW o \in Ops
  PROVE  /\ Append(s, o) \in Seq(Ops) /\ <<o>> \in Seq(Ops) /\ <<>> \in Seq(Ops)
         /\ s # <<>> => Head(s) \in Ops /\ Tail(s) \in Seq(Ops)
  OBVIOUS

LEMMA Starts == Init => Inv
<1> SUFFICES ASSUME Init PROVE Inv
  OBVIOUS
<1> USE SupervisorAssumption
<1>1. op \in [Ops -> OpRecords] /\ \A o \in Ops : op[o].target = None /\ op[o].pc = "off"
  BY DEF Init, Idle, OpRecords, Stops
<1>2. TypeOK
  <2>1. proxy \in BOOLEAN /\ engine \in BOOLEAN /\ ran \in BOOLEAN
    BY DEF Init
  <2> QED BY <1>1, <2>1 DEF Init, TypeOK, Alive
<1>3. Owned
  BY <1>1 DEF Init, Owned, NoStray, Alive, Replaces
<1> QED BY <1>2, <1>3 DEF Inv

\* gen++ keeps everything of the others but their being current.
LEMMA Superseded ==
  ASSUME TypeOK, NEW o \in Ops \cup {None}
  PROVE  /\ Supersede(o) \in [Ops -> OpRecords]
         /\ \A q \in Ops : /\ Supersede(o)[q].pc = op[q].pc /\ Supersede(o)[q].target = op[q].target
                           /\ Supersede(o)[q].kind = op[q].kind /\ Supersede(o)[q].saw = op[q].saw
                           /\ Supersede(o)[q].current <=> q = o
<1>1. ASSUME NEW q \in Ops
      PROVE  LET r == [op[q] EXCEPT !.current = (q = o)]
             IN  /\ r \in OpRecords /\ r.pc = op[q].pc /\ r.target = op[q].target
                 /\ r.kind = op[q].kind /\ r.saw = op[q].saw /\ (r.current <=> q = o)
  <2>1. op[q] \in OpRecords
    BY DEF TypeOK
  <2>2. CASE q = o
    BY <2>1, <2>2 DEF OpRecords
  <2>3. CASE q # o
    BY <2>1, <2>3 DEF OpRecords
  <2> QED BY <2>2, <2>3
<1> QED BY <1>1 DEF Supersede

\* What killTree() and a reap leave of the types.
LEMMA KilledType ==
  ASSUME TypeOK, NEW p \in Pids \cup {None}, NEW gently \in BOOLEAN, Killed(p, gently)
  PROVE  /\ up' \in [Pids -> Alive \cup {"gone"}] /\ file' \in Pids \cup {None}
         /\ proxy' \in BOOLEAN /\ engine' \in BOOLEAN
         /\ \A q \in Pids : up'[q] \in Alive => up[q] \in Alive /\ q # p
  BY DEF TypeOK, Killed, Alive

LEMMA ReapedType ==
  ASSUME TypeOK, NEW saw \in Pids \cup {None}, Reaped(saw)
  PROVE  file' \in Pids \cup {None} /\ proxy' \in BOOLEAN
<1>1. file' \in Pids \cup {None}
  BY DEF TypeOK, Reaped
<1>2. proxy' \in BOOLEAN
  BY DEF TypeOK, Reaped
<1> QED BY <1>1, <1>2

LEMMA HeadContinues ==
  ASSUME TypeOK, NEW o \in Ops, First(o)
  PROVE  woken # <<>> /\ Tail(woken) \in Seq(Ops)
  BY DEF TypeOK, First

LEMMA NothingToReap ==
  ASSUME NEW o \in Ops
  PROVE  IfNothingToReap(o) \in Seq(Ops)
  BY DEF IfNothingToReap

-----------------------------------------------------------------------------
(* The steps of start(). *)

LEMMA StartSteps ==
  ASSUME Inv, NEW o \in Ops, AskStart(o) \/ StartStep(o)
  PROVE  Inv'
<1> USE SupervisorAssumption DEF Inv
<1>0. op[o] \in OpRecords /\ op \in [Ops -> OpRecords]
  BY DEF TypeOK
<1>1. CASE AskStart(o)
  <2>1. op' = [op EXCEPT ![o] = [Idle EXCEPT !.kind = "start", !.pc = "reap", !.saw = file]]
        /\ op[o].pc = "off" /\ UNCHANGED <<app, farm, self, wait>>
    BY <1>1 DEF AskStart
  <2>2. op' \in [Ops -> OpRecords]
    <3>1. file \in Pids \cup {None}
      BY DEF TypeOK
    <3>2. [Idle EXCEPT !.kind = "start", !.pc = "reap", !.saw = file] \in OpRecords
      BY <3>1 DEF Idle, OpRecords
    <3> QED BY <1>0, <2>1, <3>2
  <2>4. TypeOK'
    BY <2>1, <2>2 DEF TypeOK, farm, self, wait
  <2>3. Owned'
    BY <1>0, <2>1 DEF Owned, NoStray, Replaces, farm, self, Idle, OpRecords
  <2> QED BY <2>3, <2>4
<1>2. CASE ReapEnds(o)
  <2>3. file' \in Pids \cup {None} /\ proxy' \in BOOLEAN
    <3>1. op[o].saw \in Pids \cup {None} /\ Reaped(op[o].saw)
      BY <1>0, <1>2 DEF ReapEnds, OpRecords
    <3> QED BY <3>1, ReapedType
  <2>0. op' \in [Ops -> OpRecords]
    BY <1>0, <1>2 DEF ReapEnds, OpRecords
  <2>1. TypeOK'
    BY <1>2, <2>0, <2>3, SeqFacts DEF ReapEnds, TypeOK, self
  <2>2. Owned'
    BY <1>0, <1>2 DEF ReapEnds, Owned, NoStray, Replaces, self, OpRecords
  <2> QED BY <2>1, <2>2
<1>3. CASE NotWanted(o) \/ AlreadyUp(o) \/ SpawnLeft(o)
  <2>1. /\ Continues(o) /\ op[o].pc \in {"starts", "waits", "spawns"} /\ op' = Ends(o)
        /\ UNCHANGED <<app, farm, self, stopping, waiters>>
    BY <1>3 DEF NotWanted, AlreadyUp, SpawnLeft, GoesOn
  <2>2. TypeOK'
    BY <1>0, <2>1, HeadContinues DEF Continues, Ends, TypeOK, farm, self, Idle, OpRecords
  <2>3. Owned'
    BY <1>0, <2>1 DEF Ends, Owned, NoStray, Replaces, farm, self, Idle, OpRecords
  <2> QED BY <2>2, <2>3
<1>4. CASE StartWaits(o)
  <2>0. op' \in [Ops -> OpRecords]
    BY <1>0, <1>4 DEF StartWaits, OpRecords
  <2>1. TypeOK'
    BY <1>4, <2>0, HeadContinues, SeqFacts DEF StartWaits, TypeOK, Continues, farm, self
  <2>2. Owned'
    BY <1>0, <1>4 DEF StartWaits, MustWait, Owned, NoStray, Replaces, farm, self, OpRecords
  <2> QED BY <2>1, <2>2
<1>5. CASE KillOld(o)
  <2>1. /\ op' = [Supersede(o) EXCEPT ![o].pc = "killOld", ![o].target = child]
        /\ child \in Pids /\ child' = None /\ op[o].pc \in {"starts", "waits"} /\ Continues(o)
        /\ UNCHANGED <<app, farm, crashes, status, ran, stopping, waiters>>
    BY <1>5 DEF KillOld, GoesOn, TypeOK
  <2>2. /\ op' \in [Ops -> OpRecords]
        /\ op'[o].pc = "killOld" /\ op'[o].target = child
        /\ \A q \in Ops : q # o => op'[q].pc = op[q].pc /\ op'[q].target = op[q].target /\ ~op'[q].current
    <3> DEFINE sup == Supersede(o)
    <3>1. /\ sup \in [Ops -> OpRecords]
          /\ \A q \in Ops : /\ sup[q].pc = op[q].pc /\ sup[q].target = op[q].target
                            /\ sup[q].current <=> q = o
      BY Superseded
    <3> DEFINE r == [sup[o] EXCEPT !.pc = "killOld", !.target = child]
    <3>2. op' = [sup EXCEPT ![o] = r]
      BY <2>1, <3>1
    <3> HIDE DEF sup
    <3>3. r \in OpRecords /\ r.pc = "killOld" /\ r.target = child
      BY <2>1, <3>1, ZenonT(60) DEF OpRecords
    <3> HIDE DEF r
    <3>4. \A q \in Ops : q # o => op'[q] = sup[q] /\ ~sup[q].current
      BY <3>1, <3>2
    <3> QED BY <3>1, <3>2, <3>3, <3>4
  <2>3. TypeOK'
    BY <2>1, <2>2, HeadContinues DEF Continues, TypeOK, farm
  <2>4. Owned'
    BY <1>0, <2>1, <2>2 DEF Owned, NoStray, Replaces, farm
  <2> QED BY <2>3, <2>4
<1>6. CASE SpawnFirst(o) \/ SpawnNext(o)
  <2> DEFINE ops == IF SpawnFirst(o) THEN Supersede(o) ELSE op
  <2>1. /\ op[o].target = None /\ child = None /\ Continues(o)
        /\ \A q \in Ops : q # o => ~(ops[q].current /\ ops[q].pc \in {"killOld", "spawns"})
        /\ ops \in [Ops -> OpRecords]
        /\ \A q \in Ops : ops[q].pc = op[q].pc /\ ops[q].target = op[q].target
        /\ Spawn(o, ops)
    <3>1. CASE SpawnFirst(o)
      BY <1>0, <3>1, Superseded DEF SpawnFirst, GoesOn, Owned
    <3>2. CASE ~SpawnFirst(o)
      BY <1>0, <1>6, <3>2 DEF SpawnNext, StillMine, Owned, Replaces
    <3> QED BY <3>1, <3>2
  <2> HIDE DEF ops
  <2>2. PICK p \in Pids : /\ up[p] = "gone" /\ child' = p /\ up' = [up EXCEPT ![p] = "spawned"]
    BY <2>1 DEF Spawn
  <2>3. /\ op' \in [Ops -> OpRecords]
        /\ op'[o].pc = "health" /\ op'[o].target = None
        /\ \A q \in Ops : q # o => op'[q] = ops[q]
    <3>1. op' = [ops EXCEPT ![o].pc = "health", ![o].target = None]
      BY <2>1 DEF Spawn
    <3>2. ops[o] \in OpRecords
      BY <2>1
    <3> QED BY <2>1, <3>1, <3>2 DEF OpRecords
  <2>4. TypeOK'
    BY <2>1, <2>2, <2>3, HeadContinues DEF Continues, Spawn, TypeOK, Alive
  <2>5. NoStray'
    BY <2>1, <2>2, <2>3 DEF Spawn, Owned, NoStray, Alive, TypeOK
  <2>6. Owned'
    BY <2>1, <2>3, <2>5 DEF Owned, Replaces
  <2> QED BY <2>4, <2>6
<1>7. CASE OldKilled(o)
  <2>1. op[o].target \in Pids \cup {None} /\ Killed(op[o].target, TRUE)
    BY <1>0, <1>7 DEF OldKilled, OpRecords
  <2>0. op' = [op EXCEPT ![o] = [op[o] EXCEPT !.pc = "spawns", !.target = None]]
        /\ op' \in [Ops -> OpRecords]
    BY <1>0, <1>7 DEF OldKilled, OpRecords
  <2>5. /\ up' \in [Pids -> Alive \cup {"gone"}] /\ file' \in Pids \cup {None}
        /\ proxy' \in BOOLEAN /\ engine' \in BOOLEAN
        /\ \A q \in Pids : up'[q] \in Alive => up[q] \in Alive /\ q # op[o].target
    BY <2>1, KilledType
  <2>2. TypeOK'
    BY <1>7, <2>0, <2>5, SeqFacts DEF OldKilled, TypeOK, self
  <2>3. NoStray'
    BY <1>0, <1>7, <2>0, <2>5 DEF OldKilled, Owned, NoStray, self
  <2>4. Owned'
    BY <1>0, <1>7, <2>3 DEF OldKilled, Owned, Replaces, self, OpRecords
  <2> QED BY <2>2, <2>4
<1> QED
  BY <1>1, <1>2, <1>3, <1>4, <1>5, <1>6, <1>7 DEF StartStep

-----------------------------------------------------------------------------
(* The waits for a farm to become healthy. *)

LEMMA HealthSteps ==
  ASSUME Inv, NEW o \in Ops, HealthStep(o)
  PROVE  Inv'
<1> USE SupervisorAssumption DEF Inv
<1>0. op[o] \in OpRecords /\ op \in [Ops -> OpRecords]
  BY DEF TypeOK
<1>1. CASE Healthy(o)
  <2>1. TypeOK'
    BY <1>0, <1>1, SMTT(60) DEF Healthy, TypeOK, farm, wait, OpRecords
  <2>2. Owned'
    BY <1>0, <1>1 DEF Healthy, Owned, NoStray, Replaces, farm, OpRecords
  <2> QED BY <2>1, <2>2
<1>2. CASE GivesUp(o)
  <2>1. TypeOK'
    BY <1>0, <1>2 DEF GivesUp, TypeOK, farm, wait, OpRecords
  <2>2. Owned'
    BY <1>0, <1>2 DEF GivesUp, Owned, NoStray, Replaces, farm, OpRecords
  <2> QED BY <2>1, <2>2
<1>3. CASE SnapEnds(o) \/ WaitLeft(o)
  <2>1. /\ op[o].pc \in {"snap", "health", "watch"} /\ op' = Ends(o)
        /\ UNCHANGED <<app, farm, child, crashes, ran, wait>>
        /\ status' \in {status, "ready"}
    BY <1>3 DEF SnapEnds, WaitLeft, self
  <2>2. TypeOK'
    BY <1>0, <2>1 DEF Ends, TypeOK, farm, wait, Idle, OpRecords
  <2>3. Owned'
    BY <1>0, <2>1 DEF Ends, Owned, NoStray, Replaces, farm, Idle, OpRecords
  <2> QED BY <2>2, <2>3
<1> QED
  BY <1>1, <1>2, <1>3 DEF HealthStep

-----------------------------------------------------------------------------
(* The steps of stop(). *)

\* doStop() takes the child with it and supersedes everybody.
LEMMA DoStopOwned ==
  ASSUME Inv, NEW o \in Ops, NEW kind \in Stops, DoStop(o, kind), UNCHANGED up,
         app' # "exited" => app # "exited", op[o].target = None
  PROVE  /\ Owned'
         /\ op' \in [Ops -> OpRecords]
         /\ child' = None
         /\ stopping' = o
         /\ status' \in {status, "stopping"}
         /\ UNCHANGED <<farm, crashes, ran>>
<1> USE SupervisorAssumption DEF Inv
<1> DEFINE r == [kind |-> kind, current |-> FALSE, target |-> child, saw |-> file,
                 pc |-> IF NeedsDown(kind) THEN "down"
                        ELSE IF child # None THEN "kill" ELSE "reapLast"]
<1>1. r \in OpRecords
  BY DEF OpRecords, TypeOK
<1>2. op' = [Supersede(None) EXCEPT ![o] = r]
  BY DEF DoStop
<1>3. /\ r.current = FALSE /\ r.target = child
      /\ child # None => r.pc \in {"down", "kill"}
  OBVIOUS
<1> HIDE DEF r
<1>4. /\ op' \in [Ops -> OpRecords]
      /\ op'[o] = r
      /\ \A q \in Ops : q # o => op'[q].pc = op[q].pc /\ op'[q].target = op[q].target
      /\ \A q \in Ops : ~op'[q].current
  BY <1>1, <1>2, <1>3, Superseded
<1>5. NoStray'
  BY <1>3, <1>4 DEF DoStop, Owned, NoStray
<1>6. Owned'
  BY <1>3, <1>4, <1>5 DEF DoStop, Owned, Replaces
<1> QED BY <1>4, <1>6 DEF DoStop

LEMMA StopSteps ==
  ASSUME Inv, NEW o \in Ops, StopStep(o) \/ \E kind \in Stops : AskStop(o, kind)
  PROVE  Inv'
<1> USE SupervisorAssumption DEF Inv
<1>0. op[o] \in OpRecords /\ op \in [Ops -> OpRecords]
  BY DEF TypeOK
<1>1. ASSUME NEW kind \in Stops, AskStop(o, kind) PROVE Inv'
  <2>1. op[o].pc = "off" /\ op[o].target = None /\ app = "up" /\ app' \in {"quitting", app}
    BY <1>1 DEF AskStop, Owned
  <2>2. CASE stopping = None /\ DoStop(o, kind) /\ woken' = IfNothingToReap(o) /\ UNCHANGED waiters
    <3>1. UNCHANGED up
      BY <2>2 DEF DoStop, farm
    <3>2. Owned' /\ op' \in [Ops -> OpRecords]
      BY <2>1, <2>2, <3>1, DoStopOwned
    <3>3. TypeOK'
      BY <2>1, <2>2, <3>1, DoStopOwned, NothingToReap DEF TypeOK, farm
    <3> QED BY <3>2, <3>3
  <2>3. CASE ~(stopping = None /\ DoStop(o, kind) /\ woken' = IfNothingToReap(o) /\ UNCHANGED waiters)
    <3>1. /\ waiters' = Append(waiters, o)
          /\ op' = [op EXCEPT ![o] = [Idle EXCEPT !.kind = kind, !.pc = "waits"]]
          /\ UNCHANGED <<farm, self, stopping, woken>>
      BY <1>1, <2>3 DEF AskStop
    <3>4. op' \in [Ops -> OpRecords]
      <4>1. [Idle EXCEPT !.kind = kind, !.pc = "waits"] \in OpRecords
        BY DEF Idle, OpRecords
      <4> QED BY <1>0, <3>1, <4>1
    <3>2. TypeOK'
      BY <2>1, <3>1, <3>4, SeqFacts DEF TypeOK, farm, self
    <3>3. Owned'
      BY <1>0, <2>1, <3>1 DEF Owned, NoStray, Replaces, farm, self, Idle, OpRecords
    <3> QED BY <3>2, <3>3
  <2> QED BY <2>2, <2>3
<1>2. CASE StopGoesOn(o)
  <2>1. op[o].kind \in Stops /\ op[o].target = None /\ DoStop(o, op[o].kind) /\ UNCHANGED <<app, up>>
    BY <1>2 DEF StopGoesOn, Owned, DoStop, farm
  <2>2. Owned' /\ op' \in [Ops -> OpRecords]
    BY <2>1, DoStopOwned
  <2>3. woken' \in Seq(Ops) /\ waiters' \in Seq(Ops)
    BY <1>2, HeadContinues, NothingToReap DEF StopGoesOn
  <2>4. TypeOK'
    BY <2>1, <2>2, <2>3, DoStopOwned DEF TypeOK, farm
  <2> QED BY <2>2, <2>4
<1>3. CASE DownActs(o)
  <2>1. proxy' \in BOOLEAN
    BY <1>3 DEF DownActs
  <2>2. TypeOK'
    BY <1>0, <1>3, <2>1, ZenonT(60) DEF DownActs, TypeOK, self, wait, OpRecords
  <2>3. Owned'
    BY <1>0, <1>3 DEF DownActs, Owned, NoStray, Replaces, self, OpRecords
  <2> QED BY <2>2, <2>3
<1>4. CASE DownReturns(o)
  <2>0. op' \in [Ops -> OpRecords]
    <3>1. file \in Pids \cup {None}
      BY DEF TypeOK
    <3>2. [op[o] EXCEPT !.pc = IF op[o].target # None THEN "kill" ELSE "reapLast", !.saw = file] \in OpRecords
      BY <1>0, <3>1 DEF OpRecords
    <3> QED BY <1>0, <1>4, <3>2 DEF DownReturns
  <2>1. TypeOK'
    BY <1>4, <2>0, NothingToReap DEF DownReturns, TypeOK, farm
  <2>2. Owned'
    BY <1>0, <1>4 DEF DownReturns, Owned, NoStray, Replaces, farm, OpRecords
  <2> QED BY <2>1, <2>2
<1>5. CASE KillEnds(o)
  <2>1. op[o].target \in Pids \cup {None} /\ Killed(op[o].target, op[o].kind # "toggle")
    BY <1>0, <1>5 DEF KillEnds, OpRecords
  <2>2. /\ up' \in [Pids -> Alive \cup {"gone"}] /\ file' \in Pids \cup {None}
        /\ proxy' \in BOOLEAN /\ engine' \in BOOLEAN
        /\ \A q \in Pids : up'[q] \in Alive => up[q] \in Alive /\ q # op[o].target
    BY <2>1, KilledType
  <2>6. op' \in [Ops -> OpRecords]
    BY <1>0, <1>5, <2>2 DEF KillEnds, OpRecords
  <2>3. TypeOK'
    BY <1>5, <2>2, <2>6, NothingToReap DEF KillEnds, TypeOK, self
  <2>4. NoStray'
    BY <1>0, <1>5, <2>2 DEF KillEnds, Owned, NoStray, self, OpRecords
  <2>5. Owned'
    BY <1>0, <1>5, <2>4 DEF KillEnds, Owned, Replaces, self, OpRecords
  <2> QED BY <2>3, <2>5
<1>6. CASE RunEnds(o)
  <2> DEFINE again == [Idle EXCEPT !.kind = "start", !.pc = "reap", !.saw = file']
  <2>1. file' \in Pids \cup {None} /\ proxy' \in BOOLEAN
    BY <1>0, <1>6, ReapedType DEF RunEnds, OpRecords
  <2>2. op[o].pc = "reapLast" /\ op[o].target = None
    BY <1>6 DEF RunEnds, Owned
  <2>3. \E r \in OpRecords : /\ op' = [op EXCEPT ![o] = r]
                             /\ r.target = None /\ r.pc \notin {"killOld", "spawns"}
    <3>1. CASE op[o].kind = "quit"
      <4>1. op' = [op EXCEPT ![o] = [op[o] EXCEPT !.pc = "exits", !.saw = None]]
        BY <1>0, <1>6, <3>1 DEF RunEnds
      <4>2. [op[o] EXCEPT !.pc = "exits", !.saw = None] \in OpRecords
        BY <1>0 DEF OpRecords
      <4>3. [op[o] EXCEPT !.pc = "exits", !.saw = None].target = None
            /\ [op[o] EXCEPT !.pc = "exits", !.saw = None].pc = "exits"
        BY <1>0, <2>2 DEF OpRecords
      <4> QED BY <4>1, <4>2, <4>3
    <3>2. CASE op[o].kind = "toggle"
      <4>1. op' = [op EXCEPT ![o] = again]
        BY <1>6, <3>2 DEF RunEnds
      <4>2. again \in OpRecords /\ again.target = None /\ again.pc = "reap"
        BY <2>1 DEF Idle, OpRecords
      <4> QED BY <4>1, <4>2
    <3>3. CASE op[o].kind \notin {"quit", "toggle"}
      <4>1. op' = [op EXCEPT ![o] = Idle]
        BY <1>6, <3>3 DEF RunEnds, Ends
      <4>2. Idle \in OpRecords /\ Idle.target = None /\ Idle.pc = "off"
        BY DEF Idle, OpRecords
      <4> QED BY <4>1, <4>2
    <3> QED BY <3>1, <3>2, <3>3
  <2>4. woken' \in Seq(Ops)
    <3>1. IF op[o].saw = None THEN Tail(woken) \in Seq(Ops) ELSE TRUE
      BY <1>6, HeadContinues DEF RunEnds
    <3>2. /\ (IF op[o].saw = None THEN Tail(woken) ELSE <<>>) \in Seq(Ops)
          /\ (IF stopping = o THEN waiters ELSE <<>>) \in Seq(Ops)
          /\ (IF op[o].kind = "quit" THEN <<o>> ELSE <<>>) \in Seq(Ops)
      BY <3>1, SeqFacts DEF TypeOK
    <3> QED BY <1>6, <3>2 DEF RunEnds
  <2>7. PICK r \in OpRecords : /\ op' = [op EXCEPT ![o] = r]
                               /\ r.target = None /\ r.pc \notin {"killOld", "spawns"}
    BY <2>3
  <2>8. /\ UNCHANGED <<app, up, engine, child, crashes, ran>>
        /\ status' \in {status, "stopped"} /\ stopping' \in {stopping, None}
        /\ waiters' \in {waiters, <<>>}
    BY <1>6 DEF RunEnds
  <2>5. TypeOK'
    BY <1>0, <2>1, <2>4, <2>7, <2>8, SeqFacts DEF TypeOK
  <2>6. Owned'
    BY <1>0, <2>2, <2>7, <2>8 DEF Owned, NoStray, Replaces
  <2> QED BY <2>5, <2>6
<1>7. CASE AppExits(o)
  <2>1. TypeOK'
    BY <1>0, <1>7, HeadContinues DEF AppExits, Continues, Ends, TypeOK, farm, self, Idle, OpRecords
  <2>2. Owned'
    BY <1>0, <1>7 DEF AppExits, Ends, Owned, NoStray, Replaces, farm, self, Idle, OpRecords
  <2> QED BY <2>1, <2>2
<1> QED
  BY <1>1, <1>2, <1>3, <1>4, <1>5, <1>6, <1>7 DEF StopStep

-----------------------------------------------------------------------------
(* The child's exit, and what a `lol up` does by itself. *)

LEMMA ProcessSteps ==
  ASSUME Inv, NEW p \in Pids, ExitStep(p) \/ FarmStep(p)
  PROVE  Inv'
<1> USE SupervisorAssumption DEF Inv
<1>1. CASE CrashRestart(p)
  <2>1. PICK o \in Ops : /\ op[o].pc = "off"
                         /\ op' = [op EXCEPT ![o] = [kind |-> "restart", pc |-> "reap", current |-> TRUE,
                                                     target |-> None, saw |-> file]]
    BY <1>1 DEF CrashRestart
  <2>2. TypeOK'
    BY <1>1, <2>1 DEF CrashRestart, TypeOK, farm, wait, OpRecords
  <2>3. Owned'
    BY <1>1, <2>1 DEF CrashRestart, TypeOK, Owned, NoStray, Replaces, Alive, farm
  <2> QED BY <2>2, <2>3
<1>2. CASE CrashGivenUp(p)
  <2>1. TypeOK'
    BY <1>2 DEF CrashGivenUp, TypeOK, farm, wait
  <2>2. Owned'
    BY <1>2 DEF CrashGivenUp, Owned, NoStray, Replaces, Alive, farm
  <2> QED BY <2>1, <2>2
<1>3. CASE FarmStep(p)
  <2>1. \E how \in Alive \cup {"gone"} : Lives(p, how) /\ (how \in Alive => up[p] \in Alive)
    BY <1>3 DEF FarmStep, Refuses, Boots, EngineStarts, Serves, LosesProxy, Dies, Alive
  <2>2. file' \in Pids \cup {None} /\ proxy' \in BOOLEAN /\ engine' \in BOOLEAN
    BY <1>3 DEF FarmStep, Refuses, Boots, EngineStarts, Serves, LosesProxy, Dies, TypeOK
  <2>3. TypeOK'
    BY <2>1, <2>2 DEF Lives, TypeOK, self, wait
  <2>4. Owned'
    BY <2>1 DEF Lives, TypeOK, Owned, NoStray, Replaces, Alive, self
  <2> QED BY <2>3, <2>4
<1> QED
  BY <1>1, <1>2, <1>3 DEF ExitStep

LEMMA InvHolds == Spec => []Inv
<1>1. Inv /\ [Next]_vars => Inv'
  <2> SUFFICES ASSUME Inv, [Next]_vars PROVE Inv'
    OBVIOUS
  <2>1. CASE Next
    BY <2>1, StartSteps, HealthSteps, StopSteps, ProcessSteps DEF Next
  <2>2. CASE UNCHANGED vars
    BY <2>2 DEF vars, farm, self, wait, Inv, TypeOK, Owned, NoStray, Replaces
  <2> QED BY <2>1, <2>2
<1> QED BY <1>1, Starts, PTL DEF Spec

\* The supervisor's state keeps its shape.
THEOREM TypeCorrect == Spec => []TypeOK
<1>1. Inv => TypeOK
  BY DEF Inv
<1> QED BY <1>1, InvHolds, PTL

\* For any number of starts, stops, toggles, crashes and restarts under way at once: no
\* `lol up` runs that is not the supervisor's child or about to be killed by a coroutine
\* (farmSupervisor.ts, start() with its second look at `gen`).
THEOREM NothingStrays == Spec => []NoStray
<1>1. Inv => NoStray
  BY DEF Inv, Owned
<1> QED BY <1>1, InvHolds, PTL
-----------------------------------------------------------------------------
(***************************************************************************)
(* Stops, and the vLLM they leave behind. start() and stop() wait once for  *)
(* the stop in progress and go on without looking again, so a stop is alone *)
(* only as long as nobody waits beside a waiting stop: no stop is asked for *)
(* while another is under way, or two coroutines are all there are.         *)
(***************************************************************************)
StopsDoNotPileUp ==
    \/ Queueing = {}
    \/ \A a, b, c \in Ops : a = b \/ b = c \/ a = c

StopsAt == {"down", "downed", "kill", "reapLast"}

In(s, o) == \E i \in 1 .. Len(s) : s[i] = o

\* One stop at a time, with no child and nobody current; who waits for it goes
\* on after it, before any other event.
OneStop ==
    /\ \A o \in Ops : op[o].pc \in StopsAt <=> stopping = o
    /\ stopping # None => child = None /\ \A o \in Ops : ~op[o].current
    /\ stopping = None => waiters = <<>>

Queue ==
    /\ \A o \in Ops : In(waiters, o) => op[o].pc = "waits"
    /\ \A o \in Ops : op[o].pc = "waits" => IF stopping = None THEN In(woken, o)
                                            ELSE In(waiters, o) /\ ~In(woken, o)
    /\ \A o \in Ops : op[o].pc \in {"starts", "spawns"} /\ In(woken, o) => Len(woken) = 1
    /\ \A o, q \in Ops : /\ op[o].pc = "waits" /\ op[o].kind \in Stops
                         /\ op[q].pc = "waits"
                         => o = q

Kinds ==
    \A o \in Ops : /\ op[o].pc # "off" => op[o].kind # "none"
                   /\ op[o].kind = "restart" => op[o].pc # "waits"
                   /\ op[o].pc \in {"reap", "starts"} => op[o].kind \notin Stops
                   /\ Queueing = {} /\ op[o].pc = "waits" => op[o].kind \notin Stops

\* Past its `lol down` a stop leaves no engine and no late answer of the farm.
Swept(o) ==
    \/ op[o].pc = "downed"
    \/ op[o].pc \in {"kill", "reapLast"} /\ op[o].kind # "toggle"

Remembered ==
    /\ child # None \/ engine => ran
    /\ \A o \in Ops : Swept(o) => ~engine
    /\ \A o \in Ops : \/ op[o].pc = "snap"
                      \/ op[o].pc \in {"health", "watch"} /\ op[o].current
                      => ran
    /\ \A o, q \in Ops : Swept(o) /\ op[o].pc # "downed" => op[q].pc # "snap"

Quiet ==
    status = "stopped" =>
        /\ ~engine /\ child = None
        /\ \A o \in Ops : ~op[o].current /\ op[o].pc # "snap"
        /\ app # "exited" =>
              \A p \in Pids : up[p] \in Alive =>
                  \E o \in Ops : op[o].pc = "killOld" /\ op[o].target = p

StopInv == OneStop /\ Queue /\ Kinds /\ Remembered /\ Quiet

\* Who is in the queues the steps make.
LEMMA InFew ==
  ASSUME NEW o \in Ops
  PROVE  \A q \in Ops : ~In(<<>>, q) /\ (In(<<o>>, q) <=> q = o)
  BY DEF In

LEMMA InConcat ==
  ASSUME NEW s \in Seq(Ops), NEW t \in Seq(Ops)
  PROVE  s \o t \in Seq(Ops) /\ \A q \in Ops : In(s \o t, q) <=> In(s, q) \/ In(t, q)
<1> SUFFICES ASSUME NEW q \in Ops
             PROVE  In(s \o t, q) <=> In(s, q) \/ In(t, q)
  OBVIOUS
<1>1. ASSUME NEW i \in 1 .. Len(s \o t), (s \o t)[i] = q
      PROVE  In(s, q) \/ In(t, q)
  <2>1. CASE i <= Len(s)
    BY <1>1, <2>1 DEF In
  <2>2. CASE i > Len(s)
    <3>1. i - Len(s) \in 1 .. Len(t) /\ t[i - Len(s)] = q
      BY <1>1, <2>2
    <3> QED BY <3>1 DEF In
  <2> QED BY <2>1, <2>2
<1>2. ASSUME NEW i \in 1 .. Len(s), s[i] = q
      PROVE  i \in 1 .. Len(s \o t) /\ (s \o t)[i] = q
  BY <1>2
<1>3. ASSUME NEW i \in 1 .. Len(t), t[i] = q
      PROVE  i + Len(s) \in 1 .. Len(s \o t) /\ (s \o t)[i + Len(s)] = q
  BY <1>3
<1> QED BY <1>1, <1>2, <1>3 DEF In

LEMMA InAppend ==
  ASSUME NEW s \in Seq(Ops), NEW o \in Ops
  PROVE  \A q \in Ops : In(Append(s, o), q) <=> In(s, q) \/ q = o
<1> SUFFICES ASSUME NEW q \in Ops
             PROVE  In(Append(s, o), q) <=> In(s, q) \/ q = o
  OBVIOUS
<1>1. ASSUME NEW i \in 1 .. Len(Append(s, o)), Append(s, o)[i] = q
      PROVE  In(s, q) \/ q = o
  BY <1>1 DEF In
<1>2. ASSUME NEW i \in 1 .. Len(s), s[i] = q
      PROVE  i \in 1 .. Len(Append(s, o)) /\ Append(s, o)[i] = q
  BY <1>2
<1>3. Len(s) + 1 \in 1 .. Len(Append(s, o)) /\ Append(s, o)[Len(s) + 1] = o
  OBVIOUS
<1> QED BY <1>1, <1>2, <1>3 DEF In

LEMMA InTail ==
  ASSUME NEW s \in Seq(Ops), s # <<>>
  PROVE  /\ Tail(s) \in Seq(Ops) /\ In(s, Head(s))
         /\ \A q \in Ops : /\ In(Tail(s), q) => In(s, q) /\ Len(s) # 1
                           /\ In(s, q) => q = Head(s) \/ In(Tail(s), q)
<1>1. ASSUME NEW q \in Ops, NEW i \in 1 .. Len(s), s[i] = q, q # Head(s)
      PROVE  i - 1 \in 1 .. Len(Tail(s)) /\ Tail(s)[i - 1] = q
  BY <1>1
<1>2. ASSUME NEW q \in Ops, NEW i \in 1 .. Len(Tail(s)), Tail(s)[i] = q
      PROVE  i + 1 \in 1 .. Len(s) /\ s[i + 1] = q /\ Len(s) # 1
  BY <1>2
<1>3. 1 \in 1 .. Len(s) /\ s[1] = Head(s)
  OBVIOUS
<1> QED BY <1>1, <1>2, <1>3 DEF In

LEMMA FirstIsIn ==
  ASSUME TypeOK, NEW o \in Ops, First(o)
  PROVE  In(woken, o)
  BY InTail DEF First, TypeOK

\* A step of o leaves the others where they are; it may only supersede them.
Others(o) ==
    \A q \in Ops \ {o} : /\ op'[q].pc = op[q].pc /\ op'[q].kind = op[q].kind
                         /\ op'[q].target = op[q].target
                         /\ op'[q].current => op[q].current

Turns(o, kind, pc, current) ==
    /\ Others(o)
    /\ op'[o].kind = kind /\ op'[o].pc = pc /\ (op'[o].current <=> current)

LEMMA StartTurns ==
  ASSUME TypeOK, NEW o \in Ops
  PROVE  /\ AskStart(o) => Turns(o, "start", "reap", FALSE)
         /\ ReapEnds(o) => Turns(o, op[o].kind, "starts", op[o].current)
         /\ NotWanted(o) \/ AlreadyUp(o) \/ SpawnLeft(o) => Turns(o, "none", "off", FALSE)
         /\ StartWaits(o) => Turns(o, op[o].kind, "waits", op[o].current)
         /\ KillOld(o) => Turns(o, op[o].kind, "killOld", TRUE)
         /\ SpawnFirst(o) \/ SpawnNext(o) => Turns(o, op[o].kind, "health", TRUE)
         /\ OldKilled(o) => Turns(o, op[o].kind, "spawns", op[o].current)
<1>0. op[o] \in OpRecords /\ op \in [Ops -> OpRecords]
  BY DEF TypeOK
<1>1. AskStart(o) => Turns(o, "start", "reap", FALSE)
  BY <1>0 DEF AskStart, Turns, Others, Idle
<1>2. ReapEnds(o) => Turns(o, op[o].kind, "starts", op[o].current)
  BY <1>0 DEF ReapEnds, Turns, Others, OpRecords
<1>3. NotWanted(o) \/ AlreadyUp(o) \/ SpawnLeft(o) => Turns(o, "none", "off", FALSE)
  BY <1>0 DEF NotWanted, AlreadyUp, SpawnLeft, Ends, Turns, Others, Idle
<1>4. StartWaits(o) => Turns(o, op[o].kind, "waits", op[o].current)
  BY <1>0 DEF StartWaits, Turns, Others, OpRecords
<1>5. OldKilled(o) => Turns(o, op[o].kind, "spawns", op[o].current)
  BY <1>0 DEF OldKilled, Turns, Others, OpRecords
<1>6. ASSUME NEW sup \in [Ops -> OpRecords], NEW pc, NEW target,
             \A q \in Ops : /\ sup[q].pc = op[q].pc /\ sup[q].target = op[q].target
                            /\ sup[q].kind = op[q].kind
                            /\ q # o /\ sup[q].current => op[q].current,
             sup[o].current,
             op' = [sup EXCEPT ![o].pc = pc, ![o].target = target]
      PROVE  Turns(o, op[o].kind, pc, TRUE)
  <2> DEFINE r == [sup[o] EXCEPT !.pc = pc, !.target = target]
  <2>1. op' = [sup EXCEPT ![o] = r]
    BY <1>6
  <2>2. r.pc = pc /\ r.kind = op[o].kind /\ (r.current <=> TRUE)
    <3>0. sup[o].kind = op[o].kind
      BY <1>6, Zenon
    <3>1. sup[o] \in OpRecords
      OBVIOUS
    <3>2. r = [sup[o] EXCEPT !.pc = pc, !.target = target]
      OBVIOUS
    <3>3. r.pc = pc /\ r.kind = op[o].kind /\ r.current = sup[o].current
      BY <3>0, <3>1, <3>2 DEF OpRecords
    <3> QED BY <1>6, <3>3, Zenon
  <2> HIDE DEF r
  <2> QED BY <1>6, <2>1, <2>2 DEF Turns, Others
<1>a. /\ Supersede(o) \in [Ops -> OpRecords]
      /\ \A q \in Ops : /\ Supersede(o)[q].pc = op[q].pc /\ Supersede(o)[q].target = op[q].target
                        /\ Supersede(o)[q].kind = op[q].kind
                        /\ q # o /\ Supersede(o)[q].current => op[q].current
      /\ Supersede(o)[o].current
  BY Superseded
<1>7. KillOld(o) => Turns(o, op[o].kind, "killOld", TRUE)
  BY <1>6, <1>a, Zenon DEF KillOld
<1>8. SpawnFirst(o) => Turns(o, op[o].kind, "health", TRUE)
  BY <1>6, <1>a, Zenon DEF SpawnFirst, Spawn
<1>9. SpawnNext(o) => Turns(o, op[o].kind, "health", TRUE)
  BY <1>0, <1>6 DEF SpawnNext, Spawn, StillMine
<1> QED BY <1>1, <1>2, <1>3, <1>4, <1>5, <1>7, <1>8, <1>9

LEMMA OtherTurns ==
  ASSUME TypeOK, NEW o \in Ops
  PROVE  /\ Healthy(o) => Turns(o, op[o].kind, "snap", op[o].current)
         /\ GivesUp(o) => Turns(o, op[o].kind, "watch", op[o].current)
         /\ SnapEnds(o) \/ WaitLeft(o) \/ AppExits(o) => Turns(o, "none", "off", FALSE)
         /\ DownActs(o) => Turns(o, op[o].kind, "downed", op[o].current)
         /\ DownReturns(o) => Turns(o, op[o].kind, IF op[o].target # None THEN "kill" ELSE "reapLast",
                                     op[o].current)
         /\ KillEnds(o) => Turns(o, op[o].kind, "reapLast", op[o].current)
         /\ RunEnds(o) => CASE op[o].kind = "quit" -> Turns(o, "quit", "exits", op[o].current)
                            [] op[o].kind = "toggle" -> Turns(o, "start", "reap", FALSE)
                            [] OTHER -> Turns(o, "none", "off", FALSE)
<1>0. op[o] \in OpRecords /\ op \in [Ops -> OpRecords]
  BY DEF TypeOK
<1>1. Healthy(o) => Turns(o, op[o].kind, "snap", op[o].current)
  BY <1>0 DEF Healthy, Turns, Others, OpRecords
<1>2. GivesUp(o) => Turns(o, op[o].kind, "watch", op[o].current)
  BY <1>0 DEF GivesUp, Turns, Others, OpRecords
<1>3. SnapEnds(o) \/ WaitLeft(o) \/ AppExits(o) => Turns(o, "none", "off", FALSE)
  BY <1>0 DEF SnapEnds, WaitLeft, AppExits, Ends, Turns, Others, Idle
<1>4. DownActs(o) => Turns(o, op[o].kind, "downed", op[o].current)
  BY <1>0 DEF DownActs, Turns, Others, OpRecords
<1>5. DownReturns(o) => Turns(o, op[o].kind, IF op[o].target # None THEN "kill" ELSE "reapLast",
                              op[o].current)
  BY <1>0 DEF DownReturns, Turns, Others, OpRecords
<1>6. KillEnds(o) => Turns(o, op[o].kind, "reapLast", op[o].current)
  BY <1>0 DEF KillEnds, Turns, Others, OpRecords
<1>7. RunEnds(o) /\ op[o].kind = "quit" => Turns(o, "quit", "exits", op[o].current)
  BY <1>0 DEF RunEnds, Turns, Others, OpRecords
<1>8. RunEnds(o) /\ op[o].kind = "toggle" => Turns(o, "start", "reap", FALSE)
  BY <1>0 DEF RunEnds, Turns, Others, Idle
<1>9. RunEnds(o) /\ op[o].kind \notin {"quit", "toggle"} => Turns(o, "none", "off", FALSE)
  BY <1>0 DEF RunEnds, Ends, Turns, Others, Idle
<1> QED BY <1>1, <1>2, <1>3, <1>4, <1>5, <1>6, <1>7, <1>8, <1>9

\* doStop() supersedes everybody.
LEMMA StopTurns ==
  ASSUME TypeOK, NEW o \in Ops, NEW kind \in Stops, DoStop(o, kind)
  PROVE  /\ Turns(o, kind, IF NeedsDown(kind) THEN "down"
                           ELSE IF child # None THEN "kill" ELSE "reapLast", FALSE)
         /\ \A q \in Ops : ~op'[q].current
<1> DEFINE r == [kind |-> kind, current |-> FALSE, target |-> child, saw |-> file,
                 pc |-> IF NeedsDown(kind) THEN "down"
                        ELSE IF child # None THEN "kill" ELSE "reapLast"]
<1>1. op' = [Supersede(None) EXCEPT ![o] = r]
  BY DEF DoStop
<1>2. r.kind = kind /\ ~r.current /\ r.pc = IF NeedsDown(kind) THEN "down"
                                           ELSE IF child # None THEN "kill" ELSE "reapLast"
  OBVIOUS
<1>3. \A q \in Ops : q # None
  BY SupervisorAssumption
<1> HIDE DEF r
<1> QED BY <1>1, <1>2, <1>3, Superseded DEF Turns, Others

-----------------------------------------------------------------------------
(* What most steps leave of the invariant. *)

LEMMA OneStopKept ==
  ASSUME OneStop, NEW o \in Ops, Others(o), UNCHANGED <<stopping, waiters>>,
         op'[o].pc \in StopsAt <=> op[o].pc \in StopsAt,
         child' \in {child, None} \/ stopping = None,
         op'[o].current => op[o].current \/ stopping = None
  PROVE  OneStop'
  BY DEF OneStop, Others

LEMMA QueueKept ==
  ASSUME TypeOK, OneStop, Queue, NEW o \in Ops, Others(o), UNCHANGED <<stopping, waiters>>,
         op'[o].pc \notin {"waits", "starts", "spawns"},
         \/ op[o].pc # "waits" /\ woken' = woken
         \/ op[o].pc # "waits" /\ woken = <<>> /\ woken' \in {<<>>, <<o>>}
         \/ Continues(o)
  PROVE  Queue'
<1>1. CASE op[o].pc # "waits" /\ woken' = woken
  BY <1>1 DEF Queue, Others
<1>2. CASE op[o].pc # "waits" /\ woken = <<>> /\ woken' \in {<<>>, <<o>>}
  <2>1. \A q \in Ops : ~In(<<>>, q) /\ (In(<<o>>, q) => q = o)
    BY InFew
  <2>2. \A q \in Ops : ~In(woken, q) /\ (In(woken', q) => q = o)
    BY <1>2, <2>1
  <2> QED BY <1>2, <2>2 DEF Queue, Others
<1>3. CASE Continues(o)
  <2>1. /\ In(woken, o)
        /\ \A q \in Ops : /\ In(woken', q) => In(woken, q) /\ Len(woken) # 1
                          /\ In(woken, q) /\ q # o => In(woken', q)
    BY <1>3, InTail DEF Continues, First, TypeOK
  <2>2. CASE op[o].pc = "waits"
    <3>0. waiters = <<>>
      BY <2>1, <2>2 DEF Queue, OneStop
    <3>1. \A q \in Ops : ~In(waiters, q)
      BY <3>0, InFew
    <3> QED BY <2>1, <3>1 DEF Queue, Others
  <2>3. CASE op[o].pc # "waits"
    BY <2>1, <2>3 DEF Queue, Others
  <2> QED BY <2>2, <2>3
<1> QED BY <1>1, <1>2, <1>3

LEMMA RememberedKept ==
  ASSUME Remembered, NEW o \in Ops, Others(o),
         ran' = ran, child' \in {child, None}, engine' => engine,
         Swept(o)' => Swept(o) /\ (op'[o].pc # "downed" => op[o].pc # "downed"),
         op'[o].pc = "snap" => op[o].pc = "snap",
         op'[o].pc \in {"health", "watch"} /\ op'[o].current
            => op[o].pc \in {"health", "watch"} /\ op[o].current
  PROVE  Remembered'
  BY DEF Remembered, Others, Swept

LEMMA QuietKept ==
  ASSUME Quiet, NEW o \in Ops, Others(o),
         \/ status' # "stopped"
         \/ /\ status' = status /\ child' \in {child, None} /\ (engine' => engine)
            /\ op'[o].current => op[o].current
            /\ op'[o].pc = "snap" => op[o].pc = "snap"
            /\ app' # "exited" => app # "exited"
            /\ \A p \in Pids : up'[p] \in Alive =>
                  up[p] \in Alive /\ ~(op[o].pc = "killOld" /\ op[o].target = p)
  PROVE  Quiet'
<1>1. CASE status' # "stopped"
  BY <1>1 DEF Quiet
<1>2. CASE status' = "stopped"
  <2>0. /\ status = "stopped" /\ (engine' => engine) /\ child' \in {child, None}
        /\ op'[o].current => op[o].current
        /\ op'[o].pc = "snap" => op[o].pc = "snap"
    BY <1>2
  <2>1. ~engine' /\ child' = None /\ \A q \in Ops : ~op'[q].current /\ op'[q].pc # "snap"
    BY <2>0 DEF Quiet, Others
  <2>2. ASSUME app' # "exited", NEW p \in Pids, up'[p] \in Alive
        PROVE  \E q \in Ops : op'[q].pc = "killOld" /\ op'[q].target = p
    <3>1. PICK q \in Ops : op[q].pc = "killOld" /\ op[q].target = p
      BY <1>2, <2>2 DEF Quiet
    <3>2. ~(op[o].pc = "killOld" /\ op[o].target = p)
      BY <1>2, <2>2
    <3>3. q # o
      BY <3>1, <3>2, Zenon
    <3> QED BY <3>1, <3>3 DEF Others
  <2> QED BY <2>1, <2>2 DEF Quiet
<1> QED BY <1>1, <1>2

\* Whoever goes on into a start does so when no stop is under way.
LEMMA GoesOnFree ==
  ASSUME TypeOK, Queue, NEW o \in Ops, GoesOn(o)
  PROVE  stopping = None
<1>1. In(woken, o)
  BY FirstIsIn DEF GoesOn, Continues
<1> QED BY <1>1 DEF GoesOn, MustWait, Queue

LEMMA StoppingFree ==
  ASSUME OneStop
  PROVE  /\ \A o \in Ops : op[o].current => stopping = None
         /\ child # None => stopping = None
         /\ stopping = None => \A o \in Ops : op[o].pc \notin StopsAt /\ ~Swept(o)
<1>1. stopping = None => \A o \in Ops : op[o].pc \notin StopsAt
  BY SupervisorAssumption DEF OneStop
<1> QED BY <1>1 DEF OneStop, Swept, StopsAt

LEMMA KilledEngine ==
  ASSUME TypeOK, NEW p, NEW gently, Killed(p, gently)
  PROVE  engine' => engine
  BY DEF Killed

-----------------------------------------------------------------------------
LEMMA StartKeeps ==
  ASSUME Inv, StopInv, StopsDoNotPileUp, NEW o \in Ops, AskStart(o) \/ StartStep(o)
  PROVE  StopInv'
<1> USE SupervisorAssumption DEF Inv, StopInv
<1>0. op[o] \in OpRecords /\ TypeOK' /\ Inv'
  BY StartSteps DEF TypeOK
<1>1. CASE AskStart(o)
  <2>1. /\ Turns(o, "start", "reap", FALSE) /\ op[o].pc = "off" /\ woken = <<>>
        /\ UNCHANGED <<app, farm, self, wait>>
    BY <1>1, StartTurns DEF AskStart, Event
  <2> QED BY <2>1, OneStopKept, QueueKept, RememberedKept, QuietKept
          DEF Turns, Others, Kinds, StopsAt, Swept, Stops, farm, self, wait
<1>2. CASE ReapEnds(o)
  <2>1. /\ Turns(o, op[o].kind, "starts", op[o].current) /\ op[o].pc = "reap"
        /\ woken = <<>> /\ woken' = <<o>>
        /\ UNCHANGED <<app, up, engine, self, stopping, waiters>>
    BY <1>2, StartTurns DEF ReapEnds, Event
  <2>2. Queue'
    <3>1. Len(<<o>>) = 1 /\ \A q \in Ops : ~In(woken, q) /\ (In(woken', q) => q = o)
      BY <2>1, InFew
    <3> QED BY <2>1, <3>1 DEF Turns, Others, Queue
  <2> QED BY <2>1, <2>2, OneStopKept, RememberedKept, QuietKept
          DEF Turns, Others, Kinds, StopsAt, Swept, self
<1>3. CASE NotWanted(o) \/ AlreadyUp(o) \/ SpawnLeft(o)
  <2>1. /\ Turns(o, "none", "off", FALSE) /\ op[o].pc \in {"starts", "waits", "spawns"}
        /\ Continues(o) /\ UNCHANGED <<app, farm, self, stopping, waiters>>
    BY <1>3, StartTurns DEF NotWanted, AlreadyUp, SpawnLeft, GoesOn
  <2> QED BY <2>1, OneStopKept, QueueKept, RememberedKept, QuietKept
          DEF Turns, Others, Kinds, StopsAt, Swept, farm, self
<1>4. CASE StartWaits(o)
  <2>1. /\ Turns(o, op[o].kind, "waits", op[o].current) /\ op[o].pc = "starts"
        /\ stopping # None /\ stopping \in Ops
        /\ Continues(o) /\ waiters' = Append(waiters, o)
        /\ UNCHANGED <<app, farm, self, stopping>>
    BY <1>4, StartTurns DEF StartWaits, MustWait, TypeOK
  <2>2. op[o].kind # "restart"
    BY <1>4, <2>1 DEF StartWaits, Wanted, OneStop
  <2>3. /\ \A q \in Ops : ~In(woken', q)
        /\ \A q \in Ops : In(waiters', q) <=> In(waiters, q) \/ q = o
    <3>1. In(woken, o)
      BY <2>1, FirstIsIn DEF Continues
    <3>2. Len(woken) = 1
      BY <2>1, <3>1 DEF Queue
    <3>3. \A q \in Ops : ~In(woken', q)
      BY <2>1, <3>2, InTail DEF Continues, First, TypeOK
    <3> QED BY <2>1, <3>3, InAppend DEF TypeOK
  <2>4. \A a, b \in Ops : /\ op'[a].pc = "waits" /\ op'[a].kind \in Stops
                          /\ op'[b].pc = "waits"
                          => a = b
    <3>1. op[stopping].pc \in StopsAt
      BY <2>1 DEF OneStop
    <3>2. SUFFICES ASSUME NEW a \in Ops, NEW b \in Ops, op'[a].pc = "waits",
                          op'[a].kind \in Stops, op'[b].pc = "waits", a # b
                   PROVE  FALSE
      OBVIOUS
    <3>3. stopping # a /\ stopping # b
      BY <2>1, <3>1, <3>2, Zenon DEF Turns, Others, StopsAt
    <3>4. Queueing = {}
      BY <2>1, <3>2, <3>3 DEF StopsDoNotPileUp
    <3>5. op[o].kind \notin Stops
      BY <2>1 DEF Kinds
    <3>6. a # o
      BY <2>1, <3>2, <3>5 DEF Turns
    <3> QED BY <2>1, <3>2, <3>4, <3>6 DEF Turns, Others, Kinds
  <2>5. Queue'
    BY <2>1, <2>3, <2>4 DEF Turns, Others, Queue
  <2>6. Kinds'
    BY <2>1, <2>2 DEF Turns, Others, Kinds
  <2>7. OneStop'
    BY <2>1 DEF Turns, Others, OneStop, StopsAt, self
  <2> QED BY <2>1, <2>5, <2>6, <2>7, RememberedKept, QuietKept
          DEF Turns, Others, Swept, farm, self
<1>5. CASE KillOld(o)
  <2>1. /\ Turns(o, op[o].kind, "killOld", TRUE) /\ op[o].pc \in {"starts", "waits"}
        /\ Continues(o) /\ stopping = None /\ child # None /\ child' = None
        /\ UNCHANGED <<app, farm, crashes, status, ran, stopping, waiters>>
    BY <1>5, StartTurns, GoesOnFree DEF KillOld, GoesOn
  <2>2. status # "stopped"
    BY <2>1 DEF Quiet
  <2> QED BY <2>1, <2>2, OneStopKept, QueueKept, RememberedKept, QuietKept
          DEF Turns, Others, Kinds, StopsAt, Swept, farm
<1>6. CASE SpawnFirst(o) \/ SpawnNext(o)
  <2>1. /\ Turns(o, op[o].kind, "health", TRUE) /\ op[o].pc \in {"starts", "waits", "spawns"}
        /\ Continues(o) /\ ran' = TRUE /\ status' = "starting"
        /\ UNCHANGED <<app, engine, stopping, waiters>>
    BY <1>6, StartTurns DEF SpawnFirst, SpawnNext, GoesOn, Spawn
  <2>2. stopping = None
    BY <1>6, GoesOnFree, StoppingFree DEF SpawnFirst, SpawnNext, StillMine
  <2>3. OneStop' /\ Queue' /\ Quiet' /\ Kinds'
    BY <2>1, <2>2, OneStopKept, QueueKept, QuietKept DEF Turns, Others, Kinds, StopsAt
  <2>4. \A q \in Ops : ~Swept(q)'
    BY <2>1, <2>2, StoppingFree DEF Turns, Others, Swept
  <2> QED BY <2>1, <2>3, <2>4 DEF Remembered
<1>7. CASE OldKilled(o)
  <2>1. /\ Turns(o, op[o].kind, "spawns", op[o].current) /\ op[o].pc = "killOld"
        /\ woken = <<>> /\ woken' = <<o>>
        /\ UNCHANGED <<app, self, stopping, waiters>>
    BY <1>7, StartTurns DEF OldKilled, Event
  <2>2. Queue'
    <3>1. Len(<<o>>) = 1 /\ \A q \in Ops : ~In(woken, q) /\ (In(woken', q) => q = o)
      BY <2>1, InFew
    <3> QED BY <2>1, <3>1 DEF Turns, Others, Queue
  <2>3. /\ engine' => engine
        /\ \A p \in Pids : up'[p] \in Alive => up[p] \in Alive /\ p # op[o].target
    <3>1. op[o].target \in Pids \cup {None} /\ Killed(op[o].target, TRUE)
      BY <1>0, <1>7 DEF OldKilled, OpRecords
    <3> QED BY <3>1, KilledType, KilledEngine
  <2> QED BY <2>1, <2>2, <2>3, OneStopKept, RememberedKept, QuietKept
          DEF Turns, Others, Kinds, StopsAt, Swept, self
<1> QED BY <1>1, <1>2, <1>3, <1>4, <1>5, <1>6, <1>7 DEF StartStep

LEMMA HealthKeeps ==
  ASSUME Inv, StopInv, NEW o \in Ops, HealthStep(o)
  PROVE  StopInv'
<1> USE SupervisorAssumption DEF Inv, StopInv
<1>1. CASE Healthy(o)
  <2>1. /\ Turns(o, op[o].kind, "snap", op[o].current)
        /\ op[o].pc \in {"health", "watch"} /\ op[o].current
        /\ UNCHANGED <<app, farm, child, status, ran, wait>>
    BY <1>1, OtherTurns DEF Healthy
  <2>2. ran /\ stopping = None /\ status # "stopped"
    BY <2>1, StoppingFree DEF Remembered, Quiet
  <2>3. Remembered'
    <3>1. \A q \in Ops : ~Swept(q)'
      BY <2>1, <2>2, StoppingFree DEF Turns, Others, Swept
    <3> QED BY <2>1, <2>2, <3>1 DEF Remembered, farm
  <2> QED BY <2>1, <2>2, <2>3, OneStopKept, QueueKept, QuietKept
          DEF Turns, Others, Kinds, StopsAt, farm, wait
<1>2. CASE GivesUp(o)
  <2>1. /\ Turns(o, op[o].kind, "watch", op[o].current)
        /\ op[o].pc = "health" /\ status' = "error"
        /\ UNCHANGED <<app, farm, child, crashes, ran, wait>>
    BY <1>2, OtherTurns DEF GivesUp
  <2> QED BY <2>1, OneStopKept, QueueKept, RememberedKept, QuietKept
          DEF Turns, Others, Kinds, StopsAt, Swept, farm, wait
<1>3. CASE SnapEnds(o) \/ WaitLeft(o)
  <2>1. /\ Turns(o, "none", "off", FALSE) /\ op[o].pc \in {"snap", "health", "watch"}
        /\ UNCHANGED <<app, farm, child, crashes, ran, wait>>
        /\ status' \in {status, "ready"}
    BY <1>3, OtherTurns DEF SnapEnds, WaitLeft, self
  <2> QED BY <2>1, OneStopKept, QueueKept, RememberedKept, QuietKept
          DEF Turns, Others, Kinds, StopsAt, Swept, farm, wait
<1> QED BY <1>1, <1>2, <1>3 DEF HealthStep

\* doStop(), when no stop is under way.
LEMMA DoStopKeeps ==
  ASSUME Inv, StopInv, NEW o \in Ops, NEW kind \in Stops, DoStop(o, kind),
         stopping = None, op[o].pc \in {"off", "waits"}, UNCHANGED up,
         app' # "exited" => app # "exited"
  PROVE  OneStop' /\ Kinds' /\ Remembered' /\ Quiet'
<1> USE SupervisorAssumption DEF Inv, StopInv
<1> DEFINE pc == IF NeedsDown(kind) THEN "down" ELSE IF child # None THEN "kill" ELSE "reapLast"
<1>1. /\ Turns(o, kind, pc, FALSE) /\ \A q \in Ops : ~op'[q].current
      /\ child' = None /\ stopping' = o
      /\ status' = IF kind = "toggle" THEN status ELSE "stopping"
      /\ UNCHANGED <<farm, crashes, ran>>
  BY StopTurns DEF DoStop
<1>2. /\ pc \in {"down", "kill", "reapLast"}
      /\ pc # "down" /\ kind # "toggle" => ~ran /\ child = None
  BY DEF NeedsDown
<1> HIDE DEF pc
<1>3. OneStop'
  BY <1>1, <1>2, StoppingFree DEF Turns, Others, OneStop, StopsAt
<1>4. Kinds'
  BY <1>1, <1>2 DEF Turns, Others, Kinds, Stops
<1>5. \A q \in Ops : Swept(q)' => q = o /\ kind # "toggle" /\ pc # "down"
  BY <1>1, <1>2, StoppingFree DEF Turns, Others, Swept
<1>6. Remembered'
  <2>1. ~ran => ~engine /\ \A q \in Ops : op[q].pc # "snap"
    BY DEF Remembered
  <2>2. \A q \in Ops : Swept(q)' => ~engine /\ \A w \in Ops : op'[w].pc # "snap"
    BY <1>1, <1>2, <1>5, <2>1 DEF Turns, Others
  <2>3. child' # None \/ engine' => ran'
    BY <1>1 DEF Remembered, farm
  <2>4. \A q \in Ops : \/ op'[q].pc = "snap"
                       \/ op'[q].pc \in {"health", "watch"} /\ op'[q].current
                       => ran'
    BY <1>1, <1>2 DEF Turns, Others, Remembered
  <2> QED BY <1>1, <2>2, <2>3, <2>4 DEF Remembered, farm
<1>7. Quiet'
  BY <1>1, <1>2, QuietKept DEF Turns, farm
<1> QED BY <1>3, <1>4, <1>6, <1>7

LEMMA AskStopKeeps ==
  ASSUME Inv, StopInv, StopsDoNotPileUp, NEW o \in Ops, NEW kind \in Stops, AskStop(o, kind)
  PROVE  StopInv'
<1> USE SupervisorAssumption DEF Inv, StopInv
<1>1. op[o].pc = "off" /\ woken = <<>> /\ (app' # "exited" => app # "exited")
  BY DEF AskStop, Event
<1>2. \A q \in Ops : ~In(<<>>, q) /\ (In(<<o>>, q) => q = o)
  BY InFew
<1>3. CASE stopping = None /\ DoStop(o, kind) /\ woken' = IfNothingToReap(o) /\ UNCHANGED waiters
  <2>1. UNCHANGED up
    BY <1>3 DEF DoStop, farm
  <2>2. OneStop' /\ Kinds' /\ Remembered' /\ Quiet'
    BY <1>1, <1>3, <2>1, DoStopKeeps
  <2>3. /\ waiters' = <<>> /\ woken' \in {<<>>, <<o>>} /\ stopping' = o
        /\ \A q \in Ops : op[q].pc # "waits"
    BY <1>1, <1>2, <1>3 DEF OneStop, IfNothingToReap, Queue, DoStop
  <2>4. Others(o) /\ op'[o].pc \in StopsAt
    BY <1>3, <2>2, <2>3, StopTurns DEF Turns, OneStop
  <2>5. \A q \in Ops : ~In(waiters', q) /\ (In(woken', q) => q = o)
    BY <1>2, <2>3
  <2>6. Queue'
    BY <2>3, <2>4, <2>5 DEF Others, Queue, StopsAt
  <2> QED BY <2>2, <2>6
<1>4. CASE ~(stopping = None /\ DoStop(o, kind) /\ woken' = IfNothingToReap(o) /\ UNCHANGED waiters)
  <2>1. /\ stopping # None /\ stopping \in Ops /\ kind \in Queueing
        /\ waiters' = Append(waiters, o)
        /\ op' = [op EXCEPT ![o] = [Idle EXCEPT !.kind = kind, !.pc = "waits"]]
        /\ UNCHANGED <<farm, self, stopping, woken>>
    BY <1>4 DEF AskStop, TypeOK
  <2>2. Turns(o, kind, "waits", FALSE)
    BY <2>1 DEF TypeOK, Turns, Others, Idle
  <2>3. \A q \in Ops : In(Append(waiters, o), q) <=> In(waiters, q) \/ q = o
    BY InAppend DEF TypeOK
  <2>4. \A a, b \in Ops : /\ op'[a].pc = "waits" /\ op'[a].kind \in Stops
                          /\ op'[b].pc = "waits"
                          => a = b
    <3>1. SUFFICES ASSUME NEW a \in Ops, NEW b \in Ops, op'[a].pc = "waits",
                          op'[b].pc = "waits", a # b
                   PROVE  FALSE
      OBVIOUS
    <3>2. op[stopping].pc \in StopsAt
      BY <2>1 DEF OneStop
    <3>3. stopping # a /\ stopping # b
      BY <1>1, <2>2, <3>1, <3>2, Zenon DEF Turns, Others, StopsAt
    <3> QED BY <2>1, <3>1, <3>3 DEF StopsDoNotPileUp
  <2>5. \A q \in Ops : ~In(woken, q)
    BY <1>1, <1>2
  <2>6. Queue'
    BY <2>1, <2>2, <2>3, <2>4, <2>5 DEF Turns, Others, Queue
  <2>7. OneStop'
    BY <1>1, <2>1, <2>2 DEF Turns, Others, OneStop, StopsAt, self
  <2>8. Kinds'
    BY <2>1, <2>2 DEF Turns, Others, Kinds, Stops
  <2> QED BY <1>1, <2>1, <2>2, <2>6, <2>7, <2>8, RememberedKept, QuietKept
          DEF Turns, Swept, farm, self
<1> QED BY <1>3, <1>4

LEMMA StopKeeps ==
  ASSUME Inv, StopInv, NEW o \in Ops, StopStep(o)
  PROVE  StopInv'
<1> USE SupervisorAssumption DEF Inv, StopInv
<1>0. op[o] \in OpRecords /\ \A q \in Ops : ~In(<<>>, q) /\ (In(<<o>>, q) => q = o)
  BY InFew DEF TypeOK
<1>1. CASE StopGoesOn(o)
  <2>1. /\ In(woken, o) /\ op[o].pc = "waits" /\ op[o].kind \in Stops
        /\ DoStop(o, op[o].kind) /\ UNCHANGED <<app, up>>
        /\ woken' = Tail(woken) \o IfNothingToReap(o) /\ waiters' = <<>>
        /\ woken \in Seq(Ops) /\ woken # <<>>
    BY <1>1, FirstIsIn DEF StopGoesOn, First, DoStop, farm, TypeOK
  <2>2. stopping = None /\ \A q \in Ops : op[q].pc = "waits" => q = o
    BY <2>1 DEF Queue
  <2>3. OneStop' /\ Kinds' /\ Remembered' /\ Quiet'
    BY <2>1, <2>2, DoStopKeeps
  <2>4. Others(o) /\ op'[o].pc \in StopsAt /\ stopping' = o
    BY <2>1, <2>3, StopTurns DEF Turns, OneStop, DoStop
  <2>5. \A q \in Ops : In(woken', q) => q = o \/ (In(woken, q) /\ Len(woken) # 1)
    <3>1. IfNothingToReap(o) \in {<<>>, <<o>>} /\ IfNothingToReap(o) \in Seq(Ops)
      BY NothingToReap DEF IfNothingToReap
    <3>2. /\ Tail(woken) \in Seq(Ops)
          /\ \A q \in Ops : In(Tail(woken), q) => In(woken, q) /\ Len(woken) # 1
      BY <2>1, InTail
    <3>3. \A q \in Ops : In(woken', q) => In(Tail(woken), q) \/ In(IfNothingToReap(o), q)
      BY <2>1, <3>1, <3>2, InConcat
    <3> QED BY <1>0, <3>1, <3>2, <3>3
  <2>6. \A q \in Ops : ~In(waiters', q)
    BY <1>0, <2>1
  <2>7. /\ \A q \in Ops : op'[q].pc # "waits" /\ (op'[q].pc \in {"starts", "spawns"} => q # o)
        /\ \A q \in Ops \ {o} : op'[q].pc = op[q].pc
    BY <2>2, <2>4, Zenon DEF Others, StopsAt
  <2>8. Queue'
    BY <2>5, <2>6, <2>7 DEF Queue
  <2> QED BY <2>3, <2>8
<1>2. CASE DownActs(o)
  <2>1. /\ Turns(o, op[o].kind, "downed", op[o].current) /\ op[o].pc = "down"
        /\ engine' = FALSE /\ UNCHANGED <<app, up, self, wait>>
    BY <1>2, OtherTurns DEF DownActs
  <2>2. Remembered'
    BY <2>1 DEF Turns, Others, Remembered, Swept, self
  <2> QED BY <2>1, <2>2, OneStopKept, QueueKept, QuietKept
          DEF Turns, Others, Kinds, StopsAt, self, wait
<1>3. CASE DownReturns(o)
  <2>1. /\ Turns(o, op[o].kind, IF op[o].target # None THEN "kill" ELSE "reapLast", op[o].current)
        /\ op[o].pc = "downed" /\ woken = <<>> /\ FetchOver /\ ran' = FALSE
        /\ woken' \in {<<>>, <<o>>}
        /\ UNCHANGED <<app, farm, child, crashes, status, stopping, waiters>>
    BY <1>3, OtherTurns DEF DownReturns, Event, IfNothingToReap
  <2>2. /\ child = None /\ ~engine
        /\ \A q \in Ops : ~op[q].current /\ op[q].pc # "snap"
    BY <2>1 DEF OneStop, StopsAt, Remembered, Swept, FetchOver
  <2>3. Remembered'
    BY <2>1, <2>2 DEF Turns, Others, Remembered, farm
  <2> QED BY <2>1, <2>2, <2>3, OneStopKept, QueueKept, QuietKept
          DEF Turns, Others, Kinds, StopsAt, farm
<1>4. CASE KillEnds(o)
  <2>1. /\ Turns(o, op[o].kind, "reapLast", op[o].current)
        /\ op[o].pc = "kill" /\ woken = <<>> /\ woken' \in {<<>>, <<o>>}
        /\ UNCHANGED <<app, self, stopping, waiters>>
    BY <1>4, OtherTurns DEF KillEnds, Event, IfNothingToReap
  <2>2. /\ engine' => engine
        /\ \A p \in Pids : up'[p] \in Alive => up[p] \in Alive
    <3>1. op[o].target \in Pids \cup {None} /\ Killed(op[o].target, op[o].kind # "toggle")
      BY <1>0, <1>4 DEF KillEnds, OpRecords
    <3> QED BY <3>1, KilledType, KilledEngine
  <2> QED BY <2>1, <2>2, OneStopKept, QueueKept, RememberedKept, QuietKept
          DEF Turns, Others, Kinds, StopsAt, Swept, self
<1>5. CASE RunEnds(o)
  <2> DEFINE woke == IF op[o].saw = None THEN Tail(woken) ELSE <<>>
             last == IF op[o].kind = "quit" THEN <<o>> ELSE <<>>
             both == woke \o waiters
  <2>1. /\ op[o].pc = "reapLast" /\ stopping = o
        /\ stopping' = None /\ waiters' = <<>> /\ woken' = woke \o waiters \o last
        /\ status' = IF op[o].kind = "toggle" THEN status ELSE "stopped"
        /\ app # "exited" /\ UNCHANGED <<app, up, engine, child, crashes, ran>>
    BY <1>5 DEF RunEnds, OneStop, StopsAt, First, Event
  <2>2. /\ Others(o) /\ op'[o].pc \in {"exits", "reap", "off"}
        /\ op'[o].pc # "off" => op'[o].kind \in {"quit", "start"}
        /\ op'[o].pc = "reap" => op'[o].kind = "start"
        /\ op'[o].current => op[o].current
    BY <1>5, OtherTurns DEF Turns
  <2>3. child = None /\ \A q \in Ops : ~op[q].current /\ (q # o => op[q].pc \notin StopsAt)
    BY <2>1 DEF OneStop
  <2>4. OneStop' /\ Kinds' /\ Remembered'
    <3>1. OneStop'
      BY <2>1, <2>2, <2>3 DEF OneStop, Others, StopsAt
    <3>2. Kinds'
      BY <2>2 DEF Kinds, Others, Stops
    <3>3. Remembered'
      BY <2>1, <2>2, RememberedKept DEF Swept
    <3> QED BY <3>1, <3>2, <3>3
  <2>5. /\ \A q \in Ops : In(waiters, q) => In(woken', q)
        /\ \A q \in Ops : In(woken', q) =>
              q = o \/ In(waiters, q) \/ (In(woken, q) /\ Len(woken) # 1)
    <3>1. /\ woke \in Seq(Ops) /\ waiters \in Seq(Ops) /\ last \in {<<>>, <<o>>}
          /\ \A q \in Ops : In(woke, q) => In(woken, q) /\ Len(woken) # 1
      <4>1. CASE op[o].saw = None
        <5>1. woken \in Seq(Ops) /\ woken # <<>>
          BY <1>5, <4>1 DEF RunEnds, First, TypeOK
        <5>2. waiters \in Seq(Ops)
          BY DEF TypeOK
        <5> QED BY <4>1, <5>1, <5>2, InTail
      <4>2. CASE op[o].saw # None
        BY <1>0, <4>2 DEF TypeOK
      <4> QED BY <4>1, <4>2
    <3>0. last \in Seq(Ops)
      BY SeqFacts DEF TypeOK
    <3> HIDE DEF woke, last
    <3>2. both \in Seq(Ops) /\ \A q \in Ops : In(both, q) <=> In(woke, q) \/ In(waiters, q)
      BY <3>1, InConcat
    <3>3. woken' = both \o last
      BY <2>1
    <3> HIDE DEF both
    <3>4. \A q \in Ops : In(both \o last, q) <=> In(both, q) \/ In(last, q)
      BY <3>0, <3>2, InConcat
    <3> QED BY <1>0, <3>1, <3>2, <3>3, <3>4
  <2>6. Queue'
    BY <1>0, <2>1, <2>2, <2>5 DEF Others, Queue
  <2>7. Quiet'
    <3>1. CASE op[o].kind = "toggle"
      BY <2>1, <2>2, <3>1, QuietKept
    <3>2. CASE op[o].kind # "toggle"
      <4>1. ~engine /\ \A q \in Ops : op[q].pc # "snap"
        BY <2>1, <3>2 DEF Remembered, Swept
      <4>2. ASSUME NEW p \in Pids, up[p] \in Alive
            PROVE  \E q \in Ops : op'[q].pc = "killOld" /\ op'[q].target = p
        <5>1. PICK q \in Ops : op[q].target = p
          BY <2>1, <2>3, <4>2 DEF Owned, NoStray
        <5>2. op[q].pc = "killOld" /\ q # o
          BY <2>1, <2>3, <5>1 DEF Owned, StopsAt
        <5> QED BY <2>2, <5>1, <5>2 DEF Others
      <4> QED BY <2>1, <2>2, <2>3, <4>1, <4>2 DEF Quiet, Others
    <3> QED BY <3>1, <3>2
  <2> QED BY <2>4, <2>6, <2>7
<1>6. CASE AppExits(o)
  <2>1. /\ Turns(o, "none", "off", FALSE) /\ op[o].pc = "exits" /\ app' = "exited"
        /\ Continues(o) /\ UNCHANGED <<farm, self, stopping, waiters>>
    BY <1>6, OtherTurns DEF AppExits
  <2> QED BY <2>1, OneStopKept, QueueKept, RememberedKept, QuietKept
          DEF Turns, Others, Kinds, StopsAt, Swept, farm, self
<1> QED BY <1>1, <1>2, <1>3, <1>4, <1>5, <1>6 DEF StopStep

LEMMA ProcessKeeps ==
  ASSUME Inv, StopInv, ~LateEngine, NEW p \in Pids, ExitStep(p) \/ FarmStep(p)
  PROVE  StopInv'
<1> USE SupervisorAssumption DEF Inv, StopInv
<1>1. CASE CrashRestart(p)
  <2>1. PICK o \in Ops : /\ op[o].pc = "off"
                         /\ op' = [op EXCEPT ![o] = [kind |-> "restart", pc |-> "reap", current |-> TRUE,
                                                     target |-> None, saw |-> file]]
    BY <1>1 DEF CrashRestart
  <2>2. Turns(o, "restart", "reap", TRUE)
    BY <2>1 DEF TypeOK, Turns, Others
  <2>3. /\ stopping = None /\ child' = None /\ status' = "restarting"
        /\ UNCHANGED <<app, farm, ran, wait>>
    BY <1>1, StoppingFree DEF CrashRestart
  <2> QED BY <2>1, <2>2, <2>3, OneStopKept, QueueKept, RememberedKept, QuietKept
          DEF Turns, Others, Kinds, StopsAt, Swept, Stops, farm, wait
<1>2. CASE CrashGivenUp(p)
  <2>1. child' = None /\ status' = "error" /\ UNCHANGED <<app, farm, crashes, ran, wait, op>>
    BY <1>2 DEF CrashGivenUp
  <2> QED BY <2>1 DEF OneStop, Queue, Kinds, Remembered, Swept, Quiet, farm, wait
<1>3. CASE FarmStep(p)
  <2>1. \E how \in Alive \cup {"gone"} : Lives(p, how) /\ (how \in Alive => up[p] \in Alive)
    BY <1>3 DEF FarmStep, Refuses, Boots, EngineStarts, Serves, LosesProxy, Dies, Alive
  <2>2. /\ UNCHANGED <<app, self, wait, op>>
        /\ \A q \in Pids : up'[q] \in Alive => up[q] \in Alive
    BY <2>1 DEF Lives, TypeOK, Alive
  <2>3. engine' => engine \/ child # None
    BY <1>3 DEF FarmStep, Refuses, Boots, EngineStarts, Serves, LosesProxy, Dies
  <2>4. OneStop' /\ Queue' /\ Kinds'
    BY <2>2 DEF OneStop, Queue, Kinds, self, wait
  <2>5. Remembered'
    BY <2>2, <2>3, StoppingFree DEF Remembered, Swept, self
  <2>6. Quiet'
    BY <2>2, <2>3 DEF Quiet, self
  <2> QED BY <2>4, <2>5, <2>6
<1> QED BY <1>1, <1>2, <1>3 DEF ExitStep

LEMMA StopStarts == Init => StopInv
<1> SUFFICES ASSUME Init PROVE StopInv
  OBVIOUS
<1> USE SupervisorAssumption
<1>1. \A o \in Ops : /\ op[o].pc = "off" /\ op[o].kind = "none" /\ ~op[o].current
                     /\ op[o].target = None
  BY DEF Init, Idle
<1>2. \A o \in Ops : ~In(<<>>, o)
  BY InFew
<1> QED BY <1>1, <1>2
        DEF Init, StopInv, OneStop, StopsAt, Queue, Kinds, Remembered, Swept, Quiet, Stops

LEMMA StopInvHolds ==
  ASSUME StopsDoNotPileUp, ~LateEngine
  PROVE  Spec => [](Inv /\ StopInv)
<1>1. Init => Inv /\ StopInv
  BY Starts, StopStarts
<1>2. Inv /\ StopInv /\ [Next]_vars => (Inv /\ StopInv)'
  <2> SUFFICES ASSUME Inv, StopInv, [Next]_vars PROVE Inv' /\ StopInv'
    OBVIOUS
  <2>1. CASE Next
    BY <2>1, StartSteps, HealthSteps, StopSteps, ProcessSteps,
       StartKeeps, HealthKeeps, AskStopKeeps, StopKeeps, ProcessKeeps DEF Next
  <2>2. CASE UNCHANGED vars
    BY <2>2 DEF vars, farm, self, wait, Inv, TypeOK, Owned, NoStray, Replaces,
                StopInv, OneStop, Queue, Kinds, Remembered, Swept, Quiet
  <2> QED BY <2>1, <2>2
<1> QED BY <1>1, <1>2, PTL DEF Spec

\* vLLM is never lost sight of: whenever it runs the next Stop knows it has to run
\* `lol down`, and when the window says Stopped it does not run (farmSupervisor.ts,
\* doStop() and `ranSinceStop`). The assumptions: stops do not pile up, and a
\* `lol up` that is being killed starts no engine.
THEOREM EngineKnown ==
  ASSUME StopsDoNotPileUp, ~LateEngine
  PROVE  Spec => []EngineAccounted
<1>1. Inv /\ StopInv => EngineAccounted
  BY DEF StopInv, Remembered, Quiet, EngineAccounted, EngineIsRemembered, StoppedIsStopped
<1> QED BY <1>1, StopInvHolds, PTL

-----------------------------------------------------------------------------
(* What a step may never do to a farm that is being stopped, or was. *)

\* Only the two spawns of start() make a process.
LEMMA OnlySpawns ==
  ASSUME Inv, Next, NEW p \in Pids, up[p] = "gone", up'[p] = "spawned"
  PROVE  \E o \in Ops : SpawnFirst(o) \/ SpawnNext(o)
<1> USE DEF Inv
<1> SUFFICES ASSUME \A o \in Ops : ~SpawnFirst(o) /\ ~SpawnNext(o)
             PROVE  up'[p] # "spawned" \/ up[p] # "gone"
  OBVIOUS
<1>1. ASSUME NEW o \in Ops, AskStart(o) \/ StartStep(o)
      PROVE  up'[p] # "spawned" \/ up[p] # "gone"
  BY <1>1 DEF StartStep, AskStart, ReapEnds, NotWanted, StartWaits, AlreadyUp, KillOld,
              OldKilled, Killed, SpawnLeft, farm, TypeOK
<1>2. ASSUME NEW o \in Ops, HealthStep(o)
      PROVE  up' = up
  BY <1>2 DEF HealthStep, Healthy, SnapEnds, GivesUp, WaitLeft, farm
<1>3. ASSUME NEW o \in Ops, NEW kind \in Stops, AskStop(o, kind)
      PROVE  up' = up
  BY <1>3 DEF AskStop, DoStop, farm
<1>4. ASSUME NEW o \in Ops, StopStep(o)
      PROVE  up'[p] # "spawned" \/ up[p] # "gone"
  BY <1>4 DEF StopStep, StopGoesOn, DoStop, DownActs, DownReturns, KillEnds, Killed, RunEnds,
              AppExits, farm, TypeOK
<1>5. ASSUME NEW q \in Pids, ExitStep(q)
      PROVE  up' = up
  BY <1>5 DEF ExitStep, CrashRestart, CrashGivenUp, farm
<1>6. ASSUME NEW q \in Pids, FarmStep(q)
      PROVE  up'[p] # "spawned" \/ up[p] # "gone"
  BY <1>6 DEF FarmStep, Refuses, Boots, EngineStarts, Serves, LosesProxy, Dies, Lives, TypeOK
<1> QED BY <1>1, <1>2, <1>3, <1>4, <1>5, <1>6 DEF Next

LEMMA BootsAlone ==
  Inv /\ StopInv /\ [Next]_vars =>
    [app = "up" /\ (\E p \in Pids : up[p] = "gone" /\ up'[p] = "spawned") =>
        \A o \in Ops : op[o].pc \notin {"down", "downed", "kill", "reapLast"}]_vars
<1> SUFFICES ASSUME Inv, StopInv, Next,
                    NEW p \in Pids, up[p] = "gone", up'[p] = "spawned",
                    NEW q \in Ops
             PROVE  op[q].pc \notin StopsAt
  BY DEF vars, farm, StopsAt
<1>1. PICK o \in Ops : SpawnFirst(o) \/ SpawnNext(o)
  BY OnlySpawns
<1>2. stopping = None
  BY <1>1, GoesOnFree, StoppingFree DEF Inv, StopInv, SpawnFirst, SpawnNext, StillMine
<1> QED BY <1>2, StoppingFree DEF StopInv

LEMMA StaysStopped ==
  Inv /\ StopInv /\ [Next]_vars =>
    [app = "up" /\ status = "stopped" /\ status' \notin {"stopped", "stopping"} =>
        \E o \in Ops : op[o].kind = "start"]_vars
<1> SUFFICES ASSUME Inv, StopInv, Next, status = "stopped"
             PROVE  status' \in {"stopped", "stopping"} \/ \E o \in Ops : op[o].kind = "start"
  BY DEF vars, self
<1> USE DEF Inv, StopInv
<1>1. child = None /\ \A o \in Ops : ~op[o].current /\ op[o].pc # "snap"
  BY DEF Quiet
<1>2. ASSUME NEW o \in Ops, AskStart(o) \/ StartStep(o), status' # status
      PROVE  op[o].kind = "start"
  <2>1. SpawnFirst(o)
    BY <1>1, <1>2 DEF StartStep, AskStart, ReapEnds, NotWanted, StartWaits, AlreadyUp, KillOld,
                      OldKilled, SpawnNext, StillMine, SpawnLeft, self
  <2>2. /\ op[o].pc \in {"starts", "waits"}
        /\ op[o].pc = "starts" => Wanted(o)
        /\ op[o].pc = "waits" => op[o].kind \notin Stops
    BY <2>1 DEF SpawnFirst, GoesOn
  <2>3. op[o].kind \notin Stops /\ op[o].kind # "restart" /\ op[o].kind # "none"
    BY <1>1, <2>2 DEF Kinds, Wanted
  <2>4. op[o].kind \in {"none", "start", "restart"} \cup Stops
    BY DEF TypeOK, OpRecords
  <2> QED BY <2>3, <2>4
<1>3. ASSUME NEW o \in Ops, HealthStep(o)
      PROVE  status' = status
  BY <1>1, <1>3 DEF HealthStep, Healthy, SnapEnds, GivesUp, WaitLeft, self
<1>4. ASSUME NEW o \in Ops, NEW kind \in Stops, AskStop(o, kind)
      PROVE  status' \in {status, "stopping"}
  BY <1>4 DEF AskStop, DoStop, self
<1>5. ASSUME NEW o \in Ops, StopStep(o)
      PROVE  status' \in {status, "stopping", "stopped"}
  BY <1>5 DEF StopStep, StopGoesOn, DoStop, DownActs, DownReturns, KillEnds, RunEnds, AppExits, self
<1>6. ASSUME NEW p \in Pids, ExitStep(p) \/ FarmStep(p)
      PROVE  status' = status
  BY <1>1, <1>6, SupervisorAssumption
  DEF ExitStep, CrashRestart, CrashGivenUp, FarmStep, Refuses, Boots, EngineStarts, Serves,
      LosesProxy, Dies, Lives, self
<1> QED BY <1>2, <1>3, <1>4, <1>5, <1>6 DEF Next

\* Nothing is booted while a stop is under way, and what was stopped stays stopped
\* until somebody presses Start: no restart after a crash, no late answer of the old
\* farm, no overtaken start turns it round. Same assumptions.
THEOREM StopsHold ==
  ASSUME StopsDoNotPileUp, ~LateEngine
  PROVE  Spec => StopHolds
<1>1. Spec => NeverBootsUnderAStop
  BY StopInvHolds, BootsAlone, PTL DEF Spec, NeverBootsUnderAStop
<1>2. Spec => StopSticks
  BY StopInvHolds, StaysStopped, PTL DEF Spec, StopSticks
<1> QED BY <1>1, <1>2 DEF StopHolds
=============================================================================
