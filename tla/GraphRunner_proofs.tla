--------------------------- MODULE GraphRunner_proofs ---------------------------
(* Proofs about the Computer's run engine, for any document, ceilings and number  *)
(* of starts, presses and edits: the types, that a document is quiet when no run  *)
(* is live, that a question belongs to a live run, and that presses are kept.     *)
EXTENDS GraphRunner, FiniteSetTheorems, WellFoundedInduction, TLAPS

-----------------------------------------------------------------------------
(* The invariant, in parts. *)

\* Who leaves the document stops the run first, and a stopped run ends before it starts
\* another box.
DocPart ==
    /\ doc # "here" => aborted \/ pc = "off"
    /\ InTurn => ~aborted

\* What is parked, and the box that is awaited, are boxes of the run.
ParkPart ==
    /\ \A q \in Boxes : parked[q] # "no" => q \in A \cap Parking /\ state[q] # "queued"
    /\ \A q \in parks : parked[q] = "asked"
    /\ box # None => box \in A \ Parking
    /\ pc \in {"off", "opening"} => A = {}

\* A box only shows it is busy for the run: it is still to come, awaited, or parked.
BusyPart ==
    doc # "away" =>
        \A q \in Boxes : /\ state[q] = "queued" => q \in A
                         /\ state[q] = "running" => q = box
                         /\ state[q] = "waiting" => parked[q] # "no"

\* An owed box is queued, or is under way and asked for again.
OwedPart ==
    \A q \in owed \ excused : /\ state[q] = "queued" \/ (q \in requeue /\ (parked[q] # "no" \/ q = box))
                              /\ q = box => q \in requeue

PressPart ==
    /\ pc \notin {"off", "opening"} /\ ~aborted /\ doc = "here" => OwedPart
    /\ pc = "off" /\ ended = "done" => owed \subseteq excused
    /\ pc = "opening" => owed \subseteq first \cup excused

\* A box that reads done, or will once the activation under way is back.
UnderWay(q) == q = box \/ parked[q] # "no"
WillRead(q) ==
    \/ state[q] = "done"
    \/ /\ q \notin requeue
       /\ ((q = box /\ state[q] = "running") \/ (parked[q] # "no" /\ state[q] = "waiting"))

\* A box whose value may still change in this run.
Unsettled(p) == UnderWay(p) \/ (doc = "here" /\ ~aborted /\ state[p] \in Busy)

\* Values are made from values, and what the run is to activate, its outputs are too.
ValuePart ==
    /\ \A q \in has : Into(q) \subseteq has
    /\ \A q \in Boxes : /\ state[q] = "done" => q \in has
                        /\ UnderWay(q) => Into(q) \subseteq has /\ state[q] # "done"
                        /\ ~aborted /\ doc = "here" /\ Into(q) \cap A # {} =>
                               q \in A \cup Manual \/ state[q] # "done"

\* What reads done, or will, is current, and nothing before it is still to change.
CurrentPart ==
    \A q \in Boxes : (WillRead(q) /\ ~Ageing(q)) =>
        q \in current /\ \A p \in Into(q) : ~Unsettled(p)

-----------------------------------------------------------------------------
(* The types. *)

BoxTypes == /\ state \in [Boxes -> States] /\ has \subseteq Boxes /\ current \subseteq Boxes
            /\ doc \in {"here", "leaving", "away"}
RunTypes == /\ pc \in {"off", "opening", "ready", "turn", "instant", "exec", "flush", "asleep"}
            /\ box \in Boxes \cup {None} /\ (box = None <=> pc \notin {"exec", "instant"})
            /\ aborted \in BOOLEAN /\ late \in BOOLEAN
WaveTypes == /\ first \subseteq S /\ S \subseteq Boxes /\ A \subseteq Boxes
             /\ requeue \subseteq Boxes /\ blocked \subseteq Boxes /\ executed \subseteq Boxes
             /\ iters \in [Boxes -> 0..MaxIterations] /\ spent \in 0..Cap
ParkTypes == /\ parked \in [Boxes -> {"no", "asked", "ok", "cancel"}]
             /\ parks \subseteq Boxes /\ pressed \subseteq Manual
EndTypes == /\ ended \in {"none", "done", "stopped", "yielded", "capped", "limited"}
            /\ owed \subseteq Boxes /\ excused \subseteq Boxes /\ ahead \subseteq Boxes
            /\ starts \in 0..MaxStarts /\ presses \in 0..MaxPresses /\ edits \in 0..MaxEdits

Types == BoxTypes /\ RunTypes /\ WaveTypes /\ ParkTypes /\ EndTypes

LEMMA TypeParts == TypeOK <=> Types
BY DEF TypeOK, Types, BoxTypes, RunTypes, WaveTypes, ParkTypes, EndTypes

LEMMA Bounds ==
  /\ Cap \in Nat /\ MaxIterations \in Nat /\ MaxStarts \in Nat /\ MaxPresses \in Nat /\ MaxEdits \in Nat
  /\ Manual \subseteq Boxes /\ Parking \subseteq Boxes /\ Asking \subseteq Boxes /\ None \notin Boxes
  /\ Parking \cap Manual = {} /\ Asking \cap Parking = {}
BY RunnerAssumption

\* What the closures hold.
LEMMA Graph ==
  /\ \A from, step : Closure(from, step) \subseteq Boxes /\ from \cap Boxes \subseteq Closure(from, step)
  /\ \A seeds : ActiveSet(seeds) \subseteq Boxes
  /\ \A seeds \in SUBSET Boxes : seeds \subseteq ActiveSet(seeds)
  /\ \A p : Touched(p) \subseteq Boxes
  /\ \A p : Cut(p) \subseteq A /\ p \notin Cut(p)
<1>1. \A from, step : Closure(from, step) \subseteq Boxes /\ from \cap Boxes \subseteq Closure(from, step)
  BY DEF Closure
<1>2. \A seeds : UnrunAncestors(seeds) \subseteq Boxes
  BY <1>1 DEF UnrunAncestors
<1>3. \A seeds : ActiveSet(seeds) \subseteq Boxes
  BY <1>1, <1>2 DEF ActiveSet
<1>4. \A seeds \in SUBSET Boxes : seeds \subseteq ActiveSet(seeds)
  BY <1>1 DEF ActiveSet
<1>5. \A p : Touched(p) \subseteq Boxes
  BY <1>1 DEF Touched
<1>6. \A p : Cut(p) \subseteq A /\ p \notin Cut(p)
  BY DEF Cut
<1> QED BY <1>1, <1>3, <1>4, <1>5, <1>6

\* What a write leaves.
LEMMA Writes ==
  ASSUME NEW st \in [Boxes -> States], NEW qs, NEW s \in States
  PROVE  /\ Marked(st, qs, s) \in [Boxes -> States]
         /\ \A q \in Boxes : Marked(st, qs, s)[q] = IF doc # "away" /\ q \in qs THEN s ELSE st[q]
BY DEF Marked

LEMMA StateNames == Busy \subseteq States /\ {"idle", "stale", "queued", "running", "waiting", "done", "error"} \subseteq States
BY DEF Busy, States

LEMMA FinishTypes ==
  ASSUME Types, NEW st \in [Boxes -> States], NEW how \in {"done", "stopped", "yielded", "capped", "limited"},
         Finish(st, how), UNCHANGED <<has, current, doc, excused, bounds>>, owed' = owed, ahead' = ahead
  PROVE  Types'
<1>1. BoxTypes'
  BY Writes, StateNames DEF Types, BoxTypes, Finish
<1>2. RunTypes' /\ WaveTypes'
  <2>1. 0 \in 0..MaxIterations /\ 0 \in 0..Cap
    BY Bounds
  <2> QED BY <2>1, Bounds DEF Types, RunTypes, WaveTypes, Finish
<1>3. ParkTypes' /\ EndTypes'
  BY DEF Types, ParkTypes, EndTypes, Finish, NoParks, Withdrawn, bounds
<1> QED BY <1>1, <1>2, <1>3 DEF Types

\* What complete() cuts off, drives round, and leaves.
CutBy(p, bar, was) == IF p \notin requeue /\ ~Edited(p, was) /\ bar THEN Cut(p) ELSE {}

LEMMA CompletedLeaves ==
  ASSUME Types, NEW p \in Boxes, NEW bar \in BOOLEAN, NEW was, Completed(p, bar, was)
  PROVE  /\ state' \in [Boxes -> States] /\ (doc = "away" => state' = state)
         /\ doc # "away" =>
               /\ state'[p] \in {"queued", "stale", "done"} /\ (p \in requeue => state'[p] = "queued")
               /\ \A q \in Boxes \ {p} : \/ state'[q] = state[q] /\ q \notin CutBy(p, bar, was)
                                         \/ state'[q] = "stale" /\ q \in CutBy(p, bar, was)
                                         \/ state'[q] = "queued" /\ q \in A /\ parked[q] = "no"
                                            /\ q \notin CutBy(p, bar, was)
         /\ A' = A \ CutBy(p, bar, was) /\ CutBy(p, bar, was) \subseteq A /\ p \notin CutBy(p, bar, was)
         /\ requeue' = requeue \ {p} /\ owed' = owed \ CutBy(p, bar, was)
         /\ parked' = [q \in Boxes |-> IF q \in CutBy(p, bar, was) \cup {p} THEN "no" ELSE parked[q]]
         /\ parks' = parks \ {q \in CutBy(p, bar, was) : parked[q] # "no"}
<1> DEFINE done == p \notin requeue /\ ~Edited(p, was)
           own == Marked(state, {p}, IF p \in requeue THEN "queued" ELSE IF Edited(p, was) THEN "stale" ELSE "done")
<1>0. state \in [Boxes -> States] /\ Again(p) \ {p} \subseteq {q \in A : parked[q] = "no"}
  BY DEF Types, BoxTypes, Again
<1>1. /\ own \in [Boxes -> States]
      /\ \A q \in Boxes : own[q] = IF doc # "away" /\ q = p
                                   THEN IF p \in requeue THEN "queued" ELSE IF Edited(p, was) THEN "stale" ELSE "done"
                                   ELSE state[q]
  BY <1>0, Writes, StateNames
<1>2. CutBy(p, bar, was) = (IF done /\ bar THEN Cut(p) ELSE {})
  BY DEF CutBy
<1>3. state' = IF ~done THEN own
               ELSE IF bar THEN Marked(own, CutBy(p, bar, was), "stale")
               ELSE Marked(own, Again(p), "queued")
  BY <1>2 DEF Completed
<1>4. A' = A \ CutBy(p, bar, was) /\ CutBy(p, bar, was) \subseteq A /\ p \notin CutBy(p, bar, was)
  BY <1>2, Graph DEF Completed
<1>5. /\ requeue' = requeue \ {p} /\ owed' = owed \ CutBy(p, bar, was)
      /\ parked' = [q \in Boxes |-> IF q \in CutBy(p, bar, was) \cup {p} THEN "no" ELSE parked[q]]
      /\ parks' = parks \ {q \in CutBy(p, bar, was) : parked[q] # "no"}
  BY <1>2 DEF Completed
<1>6. CASE ~done
  <2>1. state' = own /\ CutBy(p, bar, was) = {}
    BY <1>2, <1>3, <1>6
  <2>2. doc = "away" => own = state
    BY DEF Marked
  <2> QED BY <1>1, <1>4, <1>5, <1>6, <2>1, <2>2
<1>7. CASE done /\ bar
  <2>1. state' = Marked(own, CutBy(p, bar, was), "stale")
    BY <1>3, <1>7
  <2>2. /\ state' \in [Boxes -> States]
        /\ \A q \in Boxes : state'[q] = IF doc # "away" /\ q \in CutBy(p, bar, was) THEN "stale" ELSE own[q]
    BY <1>1, <2>1, Writes, StateNames
  <2>3. doc = "away" => state' = state
    BY <2>1 DEF Marked
  <2> HIDE DEF own
  <2> QED BY <1>1, <1>4, <1>5, <1>7, <2>2, <2>3
<1>8. CASE done /\ ~bar
  <2>1. state' = Marked(own, Again(p), "queued") /\ CutBy(p, bar, was) = {}
    BY <1>2, <1>3, <1>8
  <2>2. /\ state' \in [Boxes -> States]
        /\ \A q \in Boxes : state'[q] = IF doc # "away" /\ q \in Again(p) THEN "queued" ELSE own[q]
    BY <1>1, <2>1, Writes, StateNames
  <2>3. doc = "away" => state' = state
    BY <2>1 DEF Marked
  <2> HIDE DEF own
  <2> QED BY <1>0, <1>1, <1>4, <1>5, <1>8, <2>1, <2>2, <2>3
<1> QED BY <1>6, <1>7, <1>8

LEMMA Least ==
  ASSUME NEW T, T \subseteq Nat, T # {}
  PROVE  \E n \in T : \A m \in T : n <= m
<1>1. PICK n \in T : \A m \in T : ~(<<m, n>> \in OpToRel(<, Nat))
  BY NatLessThanWellFounded, WFMin
<1>2. \A m \in T : ~(m < n)
  BY <1>1 DEF OpToRel
<1>3. \A m \in T : m \in Nat /\ n \in Nat
  OBVIOUS
<1> QED BY <1>2, <1>3

\* The order of the boxes: the wires run forward in it.
LEMMA RankOrders ==
  /\ Len(Rank) \in Nat
  /\ \A i \in 1..Len(Rank) : Rank[i] \in Boxes
  /\ \A q \in Boxes : \E i \in 1..Len(Rank) : q = Rank[i]
  /\ \A i, j \in 1..Len(Rank) : <<Rank[i], Rank[j]>> \in Wires => i < j
<1>1. Rank \in Seq(Boxes)
  BY RunnerAssumption, Zenon
<1>2. {Rank[i] : i \in 1..Len(Rank)} = Boxes
  BY RunnerAssumption, Zenon
<1>3. \A i, j \in 1..Len(Rank) : <<Rank[i], Rank[j]>> \in Wires => i < j
  BY RunnerAssumption, Zenon
<1>4. Len(Rank) \in Nat
  BY <1>1
<1> QED BY <1>2, <1>3, <1>4, Zenon

\* The next box is one that may start; and there is none when none may.
LEMMA NextBox ==
  /\ Next1 # None => Next1 \in Boxes /\ Ready(Next1)
  /\ Next1 = None => \A q \in Boxes : ~Ready(q)
<1>0. /\ Len(Rank) \in Nat /\ None \notin Boxes /\ \A i \in 1..Len(Rank) : Rank[i] \in Boxes
      /\ \A q \in Boxes : \E i \in 1..Len(Rank) : q = Rank[i]
  BY RankOrders, Bounds
<1>1. CASE \E q \in Boxes : Ready(q)
  <2> DEFINE T == {i \in 1..Len(Rank) : Ready(Rank[i])}
  <2>1. T # {} /\ T \subseteq Nat
    BY <1>0, <1>1
  <2>2. PICK n \in T : \A m \in T : n <= m
    BY <2>1, Least
  <2>3. Ready(Rank[n]) /\ \A j \in 1..(n - 1) : ~Ready(Rank[j])
    <3>1. ASSUME NEW j \in 1..(n - 1), Ready(Rank[j]) PROVE FALSE
      <4>1. j \in T /\ n \in Nat /\ ~(n <= j)
        BY <1>0, <2>1, <3>1
      <4> QED BY <2>2, <4>1
    <3> QED BY <3>1
  <2>4. PICK i \in 1..Len(Rank) : Next1 = Rank[i] /\ Ready(Rank[i])
    <3> DEFINE P(i) == Ready(Rank[i]) /\ \A j \in 1..(i - 1) : ~Ready(Rank[j])
    <3>1. \E i \in 1..Len(Rank) : P(i)
      BY <2>3
    <3>2. (CHOOSE i \in 1..Len(Rank) : P(i)) \in 1..Len(Rank) /\ P(CHOOSE i \in 1..Len(Rank) : P(i))
      BY <3>1, Zenon
    <3>3. Next1 = Rank[CHOOSE i \in 1..Len(Rank) : P(i)]
      BY <1>1 DEF Next1
    <3> QED BY <3>2, <3>3
  <2> QED BY <1>0, <2>4
<1>2. CASE ~\E q \in Boxes : Ready(q)
  BY <1>2 DEF Next1
<1> QED BY <1>1, <1>2

LEMMA PersonTypes ==
  ASSUME Types, Person
  PROVE  Types'
<1> USE DEF Types
<1>1. ASSUME NEW seeds \in SUBSET Boxes, Open(seeds) PROVE Types'
  <2>1. starts' \in 0..MaxStarts
    BY <1>1, Bounds DEF Open, EndTypes
  <2> QED BY <1>1, <2>1 DEF Open, boxes, BoxTypes, RunTypes, WaveTypes, ParkTypes, EndTypes
<1>2. ASSUME NEW p \in Boxes, Press(p) PROVE Types'
  <2>1. presses' \in 0..MaxPresses
    BY <1>2, Bounds DEF Press, EndTypes
  <2>2. BoxTypes'
    BY <1>2, Writes, StateNames DEF Press, BoxTypes
  <2>3. RunTypes'
    BY <1>2 DEF Press, Woken, RunTypes, Live
  <2>4. WaveTypes'
    BY <1>2, Graph DEF Press, Later, WaveTypes
  <2>5. EndTypes' /\ ParkTypes'
    BY <1>2, <2>1 DEF Press, EndTypes, ParkTypes
  <2> QED BY <2>2, <2>3, <2>4, <2>5
<1>3. ASSUME NEW p \in Boxes, NEW a \in {"ok", "cancel"}, Answer(p, a) PROVE Types'
  <2>1. RunTypes' /\ ParkTypes'
    BY <1>3 DEF Answer, Woken, RunTypes, ParkTypes
  <2> QED BY <1>3, <2>1 DEF Answer, boxes, run, ghosts, bounds, BoxTypes, WaveTypes, EndTypes
<1>4. ASSUME NEW p \in Boxes, Edit(p) PROVE Types'
  <2>1. edits' \in 0..MaxEdits
    BY <1>4, Bounds DEF Edit, EndTypes
  <2>2. BoxTypes'
    BY <1>4, Writes, StateNames DEF Edit, BoxTypes
  <2> QED BY <1>4, <2>1, <2>2 DEF Edit, run, RunTypes, WaveTypes, ParkTypes, EndTypes
<1>5. CASE Stop \/ OpenOther
  <2>1. RunTypes' /\ ParkTypes'
    BY <1>5 DEF Stop, OpenOther, Cancelled, Woken, RunTypes, ParkTypes
  <2> QED BY <1>5, <2>1 DEF Stop, OpenOther, boxes, run, ghosts, bounds, BoxTypes, WaveTypes, EndTypes
<1>6. CASE Replaced
  BY <1>6 DEF Replaced, boxes, run, ghosts, bounds, BoxTypes, RunTypes, WaveTypes, ParkTypes, EndTypes
<1>7. CASE BackAgain
  <2>1. BoxTypes'
    BY <1>7, StateNames DEF BackAgain, BoxTypes
  <2> QED BY <1>7, <2>1 DEF BackAgain, run, ghosts, bounds, RunTypes, WaveTypes, ParkTypes, EndTypes
<1> QED BY <1>1, <1>2, <1>3, <1>4, <1>5, <1>6, <1>7 DEF Person, RunAll, Play

LEMMA CompletedTypes ==
  ASSUME Types, NEW p \in Boxes, NEW bar \in BOOLEAN, NEW was, Completed(p, bar, was)
  PROVE  /\ state' \in [Boxes -> States] /\ has' \subseteq Boxes /\ current' \subseteq Boxes
         /\ A' \subseteq Boxes /\ requeue' \subseteq Boxes /\ blocked' \subseteq Boxes /\ executed' \subseteq Boxes
         /\ parked' \in [Boxes -> {"no", "asked", "ok", "cancel"}] /\ parks' \subseteq Boxes /\ owed' \subseteq Boxes
         /\ ahead' \subseteq Boxes
<1>1. has' \subseteq Boxes /\ current' \subseteq Boxes /\ blocked' \subseteq Boxes /\ executed' \subseteq Boxes
  BY DEF Completed, Types, BoxTypes, WaveTypes
<1>2. ahead' \subseteq Boxes
  BY DEF Completed, Waiting, Types, EndTypes
<1> QED BY <1>1, <1>2, CompletedLeaves DEF Types, WaveTypes, ParkTypes, EndTypes

LEMMA FailedLeaves ==
  ASSUME Types, NEW p \in Boxes, Failed(p)
  PROVE  /\ state' \in [Boxes -> States]
         /\ \A q \in Boxes : state'[q] = IF doc # "away" /\ q = p THEN "error" ELSE state[q]
         /\ A' = A \ {p} /\ blocked' \subseteq Boxes /\ owed' = owed \ {p} /\ UNCHANGED <<has, requeue, executed, parks, ahead>>
         /\ parked' \in [Boxes -> {"no", "asked", "ok", "cancel"}]
         /\ \A q \in Boxes : parked'[q] = IF q = p THEN "no" ELSE parked[q]
<1>1. /\ state' \in [Boxes -> States]
      /\ \A q \in Boxes : state'[q] = IF doc # "away" /\ q = p THEN "error" ELSE state[q]
  BY Writes, StateNames DEF Failed, Types, BoxTypes
<1> QED BY <1>1 DEF Failed, Types, WaveTypes, ParkTypes

LEMMA LoopTypes ==
  ASSUME Types, Loop
  PROVE  Types'
<1> USE DEF Types
<1>0. state \in [Boxes -> States]
  BY DEF BoxTypes
<1>1. CASE Begin
  <2>1. A' \subseteq Boxes
    BY <1>1, Graph DEF Begin
  <2>2. BoxTypes'
    BY <1>1, Writes, StateNames DEF Begin, BoxTypes
  <2> QED BY <1>1, <2>1, <2>2 DEF Begin, ghosts, bounds, RunTypes, WaveTypes, ParkTypes, EndTypes
<1>2. CASE WallClock \/ RunEnds
  BY <1>0, <1>2, FinishTypes DEF WallClock, RunEnds, ghosts
<1>3. CASE LoopTop
  <2>1. CASE aborted
    BY <1>0, <1>3, <2>1, FinishTypes DEF LoopTop, ghosts
  <2>2. CASE ~aborted
    BY <1>3, <2>2 DEF LoopTop, run, ghosts, bounds, BoxTypes, RunTypes, WaveTypes, ParkTypes, EndTypes
  <2> QED BY <2>1, <2>2
<1>4. CASE Flushed
  <2>1. CASE late
    BY <1>0, <1>4, <2>1, FinishTypes DEF Flushed, ghosts
  <2>2. CASE ~late
    BY <1>4, <2>2 DEF Flushed, run, ghosts, bounds, BoxTypes, RunTypes, WaveTypes, ParkTypes, EndTypes
  <2> QED BY <2>1, <2>2
<1>5. CASE Suspend \/ MinuteOver
  BY <1>5 DEF Suspend, Scans, MinuteOver, boxes, run, ghosts, bounds, BoxTypes, RunTypes, WaveTypes, ParkTypes, EndTypes
<1>6. ASSUME NEW p \in Boxes, Resume(p) PROVE Types'
  BY <1>6, CompletedTypes DEF Resume, bounds, BoxTypes, RunTypes, WaveTypes, ParkTypes, EndTypes
<1>7. ASSUME NEW p \in Boxes, Skipped(p), UNCHANGED <<doc, excused, bounds>>, pc = "turn" PROVE Types'
  <2>1. BoxTypes'
    BY <1>7, Writes, StateNames DEF Skipped, BoxTypes
  <2> QED BY <1>7, <2>1 DEF Skipped, bounds, RunTypes, WaveTypes, ParkTypes, EndTypes
<1>8. ASSUME NEW p \in Boxes, TooOften(p), UNCHANGED <<doc, excused, bounds>> PROVE Types'
  <2>1. [state EXCEPT ![p] = "stale"] \in [Boxes -> States]
    BY <1>0, StateNames
  <2> QED BY <1>8, <2>1, FinishTypes DEF TooOften
<1>9. ASSUME NEW p \in Boxes, Refused(p), UNCHANGED <<doc, excused, bounds>>, pc = "turn" PROVE Types'
  BY <1>9, FailedLeaves DEF Refused, bounds, BoxTypes, RunTypes, WaveTypes, ParkTypes, EndTypes
<1>10. ASSUME NEW p \in Boxes, Started(p), UNCHANGED <<doc, excused, bounds>>, pc = "turn" PROVE Types'
  <2>1. iters' \in [Boxes -> 0..MaxIterations]
    <3>1. iters[p] + 1 \in 0..MaxIterations
      BY <1>10, Bounds DEF Started, WaveTypes
    <3> QED BY <1>10, <3>1 DEF Started, WaveTypes
  <2>2. BoxTypes'
    BY <1>10, Writes, StateNames DEF Started, BoxTypes
  <2>3. RunTypes'
    BY <1>10, Bounds DEF Started, RunTypes
  <2>4. ParkTypes'
    BY <1>10 DEF Started, ParkTypes
  <2> QED BY <1>10, <2>1, <2>2, <2>3, <2>4 DEF Started, bounds, WaveTypes, EndTypes
<1>11. ASSUME NEW p \in Boxes, Activate(p) PROVE Types'
  BY <1>7, <1>8, <1>9, <1>10, <1>11 DEF Activate, Scans
<1> QED BY <1>1, <1>2, <1>3, <1>4, <1>5, <1>6, <1>11 DEF Loop

LEMMA BackTypes ==
  ASSUME Types, Back \/ Ask \/ ClockPasses
  PROVE  Types'
<1> USE DEF Types
<1>0. state \in [Boxes -> States]
  BY DEF BoxTypes
<1>b. pc \in {"exec", "instant"} => box \in Boxes
  BY DEF RunTypes
<1>s. box \in Boxes => [state EXCEPT ![box] = "stale"] \in [Boxes -> States]
  BY <1>0, StateNames
<1>1. CASE Returns
  <2>1. PICK bar \in BOOLEAN : Completed(box, bar, "running")
    BY <1>1 DEF Returns
  <2> QED BY <1>1, <1>b, <2>1, CompletedTypes DEF Returns, bounds, BoxTypes, RunTypes, WaveTypes, ParkTypes, EndTypes
<1>2. CASE Throws
  <2>1. CASE Finish([state EXCEPT ![box] = "stale"], IF aborted THEN "stopped" ELSE "yielded") /\ UNCHANGED <<has, owed, ahead>>
    BY <1>2, <1>b, <1>s, <2>1, FinishTypes DEF Throws
  <2>2. CASE /\ Failed(box) /\ pc' = "ready" /\ box' = None
             /\ UNCHANGED <<aborted, late, first, S, iters, spent, pressed, ended>>
    BY <1>2, <1>b, <2>2, FailedLeaves DEF Throws, bounds, BoxTypes, RunTypes, WaveTypes, ParkTypes, EndTypes
  <2> QED BY <1>2, <2>1, <2>2 DEF Throws
<1>3. CASE CapReached
  BY <1>3, <1>b, <1>s, FinishTypes DEF CapReached, ghosts
<1>4. CASE Ask
  <2>1. spent' \in 0..Cap
    BY <1>4, Bounds DEF Ask, WaveTypes
  <2> QED BY <1>4, <2>1 DEF Ask, boxes, ghosts, bounds, BoxTypes, RunTypes, WaveTypes, ParkTypes, EndTypes
<1>5. CASE ClockPasses
  BY <1>5 DEF ClockPasses, boxes, run, ghosts, bounds, BoxTypes, RunTypes, WaveTypes, ParkTypes, EndTypes
<1> QED BY <1>1, <1>2, <1>3, <1>4, <1>5 DEF Back

-----------------------------------------------------------------------------
(* The invariant. *)

Inv == Types /\ DocPart /\ ParkPart /\ BusyPart /\ PressPart

LEMMA InitInv == Init => Inv
<1> SUFFICES ASSUME Init PROVE Inv
  OBVIOUS
<1>1. Types
  <2>1. 0 \in 0..MaxIterations /\ 0 \in 0..Cap /\ 0 \in 0..MaxStarts /\ 0 \in 0..MaxPresses /\ 0 \in 0..MaxEdits
    BY Bounds
  <2> QED BY <2>1, StateNames DEF Init, NoParks, Types, BoxTypes, RunTypes, WaveTypes, ParkTypes, EndTypes
<1>2. DocPart /\ ParkPart /\ PressPart
  BY DEF Init, NoParks, DocPart, InTurn, ParkPart, PressPart
<1>3. BusyPart
  BY DEF Init, BusyPart
<1> QED BY <1>1, <1>2, <1>3 DEF Inv

\* Whatever says it is busy is one the end of the run puts right.
LEMMA BusyIsMine ==
  ASSUME Types, ParkPart, BusyPart, doc # "away"
  PROVE  \A q \in Boxes : state[q] \in Busy => q \in A \cup Waiting
<1> SUFFICES ASSUME NEW q \in Boxes, state[q] \in Busy PROVE q \in A \cup Waiting
  OBVIOUS
<1>1. CASE state[q] = "queued"
  BY <1>1 DEF BusyPart
<1>2. CASE state[q] = "running"
  <2>1. q = box /\ box # None
    BY <1>2, Bounds DEF BusyPart
  <2> QED BY <2>1 DEF ParkPart
<1>3. CASE state[q] = "waiting"
  BY <1>3 DEF BusyPart, Waiting
<1> QED BY <1>1, <1>2, <1>3 DEF Busy

\* What finish() leaves: no run, no box that says it is busy, no question.
LEMMA FinishInv ==
  ASSUME Inv, NEW st \in [Boxes -> States], \A q \in Boxes : st[q] \in {state[q], "stale"},
         NEW how \in {"done", "stopped", "yielded", "capped", "limited"},
         Finish(st, how), UNCHANGED <<has, current, doc, excused, bounds>>, owed' = owed, ahead' = ahead,
         how = "done" => owed \subseteq excused
  PROVE  Inv'
<1>1. Types'
  BY FinishTypes DEF Inv
<1>2. DocPart' /\ PressPart'
  BY DEF Finish, DocPart, InTurn, PressPart
<1>3. ParkPart'
  <2>1. parks \subseteq Waiting
    BY DEF Inv, ParkPart, Types, ParkTypes, Waiting
  <2>2. parks' = {} /\ \A q \in Boxes : parked'[q] = "no"
    BY <2>1 DEF Finish, Withdrawn, NoParks
  <2> QED BY <2>2 DEF Finish, ParkPart
<1>4. BusyPart'
  <2> SUFFICES ASSUME doc # "away", NEW q \in Boxes PROVE state'[q] \notin Busy
    BY DEF BusyPart, Busy, Finish
  <2>1. state'[q] = IF q \in Leftover(st) THEN "stale" ELSE st[q]
    BY Writes, StateNames DEF Finish
  <2>2. st[q] \in Busy => q \in Leftover(st)
    BY BusyIsMine DEF Leftover, Busy, Inv
  <2> QED BY <2>1, <2>2 DEF Busy
<1> QED BY <1>1, <1>2, <1>3, <1>4 DEF Inv

\* An activation that came back: what is owed to its box, and to the others, stays owed.
LEMMA CompletedInv ==
  ASSUME Inv, NEW p \in A, NEW bar \in BOOLEAN, NEW was, Completed(p, bar, was),
         parked[p] \in {"no", "ok", "cancel"}, box \in {None, p}, box' = None,
         parked[p] = "no" => p = box,
         UNCHANGED <<doc, aborted, excused>>, pc' \in {"ready", "turn"}
  PROVE  ParkPart' /\ BusyPart' /\ (~aborted /\ doc = "here" /\ OwedPart => OwedPart')
<1> DEFINE cut == CutBy(p, bar, was)
<1>0. p \in Boxes
  BY DEF Inv, Types, WaveTypes
<1>1. /\ doc = "away" => state' = state
      /\ doc # "away" =>
               /\ state'[p] \in {"queued", "stale", "done"} /\ (p \in requeue => state'[p] = "queued")
               /\ \A q \in Boxes \ {p} : \/ state'[q] = state[q] /\ q \notin cut
                                         \/ state'[q] = "stale" /\ q \in cut
                                         \/ state'[q] = "queued" /\ q \in A /\ parked[q] = "no" /\ q \notin cut
      /\ A' = A \ cut /\ cut \subseteq A /\ p \notin cut
      /\ requeue' = requeue \ {p} /\ owed' = owed \ cut
      /\ parked' = [q \in Boxes |-> IF q \in cut \cup {p} THEN "no" ELSE parked[q]]
      /\ parks' = parks \ {q \in cut : parked[q] # "no"}
  BY <1>0, CompletedLeaves DEF Inv
<1> HIDE DEF cut
<1>2. ParkPart'
  <2>1. ASSUME NEW q \in Boxes, parked'[q] # "no" PROVE q \in A' \cap Parking /\ state'[q] # "queued"
    <3>1. q # p /\ q \notin cut /\ parked[q] # "no"
      BY <1>1, <2>1
    <3>2. q \in A \cap Parking /\ state[q] # "queued"
      BY <3>1 DEF Inv, ParkPart
    <3> QED BY <1>1, <3>1, <3>2
  <2>2. ASSUME NEW q \in parks' PROVE parked'[q] = "asked"
    <3>1. q \in parks /\ q \in Boxes /\ parked[q] = "asked" /\ q # p
      BY <1>1 DEF Inv, ParkPart, Types, ParkTypes
    <3> QED BY <1>1, <3>1
  <2> QED BY <2>1, <2>2 DEF ParkPart
<1>3. BusyPart'
  <2> SUFFICES ASSUME doc # "away", NEW q \in Boxes
               PROVE  /\ state'[q] = "queued" => q \in A'
                      /\ state'[q] = "running" => q = box'
                      /\ state'[q] = "waiting" => parked'[q] # "no"
    BY DEF BusyPart
  <2>1. CASE q = p
    BY <1>1, <2>1
  <2>2. CASE q # p
    <3>1. state[q] # "running"
      BY <1>0, <2>2, Bounds DEF Inv, BusyPart
    <3>2. state[q] = "waiting" => parked[q] # "no"
      BY DEF Inv, BusyPart
    <3>3. state[q] = "queued" => q \in A
      BY DEF Inv, BusyPart
    <3> QED BY <1>1, <2>2, <3>1, <3>2, <3>3
  <2> QED BY <2>1, <2>2
<1>4. ASSUME ~aborted, doc = "here", OwedPart PROVE OwedPart'
  <2> SUFFICES ASSUME NEW q \in owed' \ excused
               PROVE  /\ state'[q] = "queued" \/ (q \in requeue' /\ (parked'[q] # "no" \/ q = box'))
                      /\ q = box' => q \in requeue'
    BY DEF OwedPart
  <2>0. q \in owed \ excused /\ q \notin cut /\ q \in Boxes
    BY <1>1 DEF Inv, Types, EndTypes
  <2>1. q # box'
    BY <2>0, Bounds
  <2>2. CASE q = p
    <3>1. p \in requeue
      BY <1>0, <1>4, <2>0, <2>2 DEF OwedPart, Inv, ParkPart
    <3>2. state'[p] = "queued"
      BY <1>1, <1>4, <3>1
    <3> QED BY <2>1, <2>2, <3>2
  <2>3. CASE q # p
    <3>1. state[q] = "queued" \/ (q \in requeue /\ parked[q] # "no")
      BY <2>0, <2>3, <1>4, Bounds DEF OwedPart
    <3>2. state'[q] = state[q] \/ state'[q] = "queued"
      BY <1>1, <1>4, <2>0, <2>3
    <3>3. parked'[q] = parked[q] /\ (q \in requeue => q \in requeue')
      BY <1>1, <2>0, <2>3
    <3> QED BY <2>1, <3>1, <3>2, <3>3
  <2> QED BY <2>2, <2>3
<1> QED BY <1>2, <1>3, <1>4

\* An activation that failed, skipped or refused at its start, or thrown: the run goes on
\* without its box.
LEMMA DroppedInv ==
  ASSUME Inv, NEW p \in Boxes, parked[p] = "no",
         state' \in [Boxes -> States],
         NEW s \in {"error", "stale"},
         \A q \in Boxes : state'[q] = IF doc # "away" /\ q = p THEN s ELSE state[q],
         A' = A \ {p}, owed' = owed \ {p}, parks' = parks, requeue' = requeue,
         \A q \in Boxes : parked'[q] = parked[q],
         box \in {None, p}, box' = None,
         UNCHANGED <<doc, aborted, excused>>, pc' = "ready"
  PROVE  ParkPart' /\ BusyPart' /\ (~aborted /\ doc = "here" /\ OwedPart => OwedPart')
<1>1. ParkPart'
  BY DEF Inv, ParkPart, Types, ParkTypes
<1>2. BusyPart'
  BY Bounds DEF Inv, BusyPart
<1>3. ASSUME ~aborted, doc = "here", OwedPart PROVE OwedPart'
  <2> SUFFICES ASSUME NEW q \in owed' \ excused
               PROVE  /\ state'[q] = "queued" \/ (q \in requeue' /\ (parked'[q] # "no" \/ q = box'))
                      /\ q = box' => q \in requeue'
    BY DEF OwedPart
  <2>0. q \in owed \ excused /\ q # p /\ q \in Boxes
    BY DEF Inv, Types, EndTypes
  <2>1. q # box' /\ q # box
    BY <2>0, Bounds
  <2> QED BY <1>3, <2>0, <2>1 DEF OwedPart
<1> QED BY <1>1, <1>2, <1>3

\* A press, an answer, an edit, Stop, another document.
LEMMA PersonInv ==
  ASSUME Inv, Person
  PROVE  Inv'
<1>0. Types' /\ Types
  BY PersonTypes DEF Inv
<1>1. ASSUME NEW seeds \in SUBSET Boxes, Open(seeds) PROVE Inv'
  <2>1. DocPart' /\ ParkPart' /\ BusyPart'
    BY <1>1 DEF Inv, Open, boxes, DocPart, InTurn, ParkPart, BusyPart
  <2>2. PressPart'
    BY <1>1 DEF Open, PressPart
  <2> QED BY <1>0, <2>1, <2>2 DEF Inv
<1>2. ASSUME NEW p \in Boxes, Press(p) PROVE Inv'
  <2>1. DocPart'
    BY <1>2 DEF Inv, Press, DocPart, Live, InTurn, Woken
  <2>2. CASE pc = "opening"
    BY <1>0, <1>2, <2>1, <2>2 DEF Inv, Press, ParkPart, BusyPart, PressPart
  <2>3. CASE pc # "opening"
    <3> DEFINE add == ActiveSet({p})
               later == Later(add)
    <3>1. /\ pc \notin {"off", "opening"} /\ pc' \notin {"off", "opening"} /\ ~aborted /\ doc = "here"
          /\ A' = A \cup add /\ requeue' = requeue \cup later /\ owed' = owed \cup {p}
          /\ excused' = (IF p = box /\ state[p] # "running" THEN excused \cup {p} ELSE excused \ {p})
          /\ UNCHANGED <<doc, box, parked, parks, ended>>
      BY <1>2, <2>3 DEF Press, Live, InTurn, Woken
    <3>2. add \subseteq Boxes /\ p \in add
      BY Graph
    <3>3. \A q \in Boxes : state'[q] = IF q \in add \ later THEN "queued" ELSE state[q]
      <4>1. state' = Marked(state, add \ later, "queued")
        BY <1>2, <2>3 DEF Press
      <4> HIDE DEF add, later
      <4> QED BY <3>1, <4>1 DEF Marked
    <3>4. \A q \in Boxes : q \in later <=> q \in add /\ (parked[q] # "no" \/ state[q] = "running")
      BY DEF Later
    <3> HIDE DEF add, later
    <3>5. ParkPart'
      <4>1. ASSUME NEW q \in Boxes, parked'[q] # "no" PROVE q \in A' \cap Parking /\ state'[q] # "queued"
        BY <3>1, <3>3, <3>4, <4>1 DEF Inv, ParkPart
      <4> QED BY <3>1, <4>1 DEF Inv, ParkPart
    <3>6. BusyPart'
      <4> SUFFICES ASSUME NEW q \in Boxes
                   PROVE  /\ state'[q] = "queued" => q \in A'
                          /\ state'[q] = "running" => q = box'
                          /\ state'[q] = "waiting" => parked'[q] # "no"
        BY DEF BusyPart
      <4> QED BY <3>1, <3>3, <3>4 DEF Inv, BusyPart
    <3>7. OwedPart'
      <4> SUFFICES ASSUME NEW q \in owed' \ excused'
                   PROVE  /\ state'[q] = "queued" \/ (q \in requeue' /\ (parked'[q] # "no" \/ q = box'))
                          /\ q = box' => q \in requeue'
        BY DEF OwedPart
      <4>0. q \in Boxes
        BY <1>0 DEF Types, EndTypes
      <4>1. CASE q = p
        <5>1. CASE p \in later
          <6>1. parked[p] # "no" \/ p = box
            BY <3>1, <3>4, <5>1 DEF Inv, BusyPart
          <6> QED BY <3>1, <4>1, <5>1, <6>1
        <5>2. CASE p \notin later
          <6>1. state'[p] = "queued" /\ state[p] # "running"
            BY <3>2, <3>3, <3>4, <5>2
          <6>2. p # box
            BY <3>1, <4>1, <6>1
          <6> QED BY <3>1, <4>1, <6>1, <6>2
        <5> QED BY <5>1, <5>2
      <4>2. CASE q # p
        <5>1. q \in owed \ excused
          BY <3>1, <4>2
        <5>2. /\ state[q] = "queued" \/ (q \in requeue /\ (parked[q] # "no" \/ q = box))
              /\ q = box => q \in requeue
          BY <3>1, <5>1 DEF Inv, PressPart, OwedPart
        <5> QED BY <3>1, <3>3, <4>0, <5>2
      <4> QED BY <4>1, <4>2
    <3>8. PressPart'
      BY <3>1, <3>7 DEF PressPart
    <3> QED BY <1>0, <2>1, <3>5, <3>6, <3>8 DEF Inv
  <2> QED BY <2>2, <2>3
<1>3. ASSUME NEW p \in Boxes, NEW a \in {"ok", "cancel"}, Answer(p, a) PROVE Inv'
  <2>0. UNCHANGED <<state, doc, box, aborted, first, A, requeue, ended, owed, excused>>
    BY <1>3 DEF Answer, boxes, run, ghosts
  <2>1. DocPart'
    BY <1>3, <2>0 DEF Inv, Answer, DocPart, InTurn, Woken
  <2>2. \A q \in Boxes : parked'[q] # "no" <=> parked[q] # "no"
    BY <1>0, <1>3 DEF Answer, Types, ParkTypes
  <2>3. \A q \in parks' : parked'[q] = "asked"
    BY <1>0, <1>3 DEF Inv, Answer, Types, ParkTypes, ParkPart
  <2>4. pc' = pc \/ (pc = "asleep" /\ pc' = "ready")
    BY <1>3 DEF Answer, Woken
  <2>5. ParkPart' /\ BusyPart'
    BY <2>0, <2>2, <2>3, <2>4 DEF Inv, ParkPart, BusyPart
  <2>6. PressPart'
    <3>1. OwedPart => OwedPart'
      BY <1>0, <2>0, <2>2 DEF OwedPart, Types, EndTypes
    <3> QED BY <2>0, <2>4, <3>1 DEF Inv, PressPart
  <2> QED BY <1>0, <2>1, <2>5, <2>6 DEF Inv
<1>4. ASSUME NEW p \in Boxes, Edit(p) PROVE Inv'
  <2>0. /\ UNCHANGED <<doc, pc, box, aborted, first, A, requeue, parked, parks, ended, excused>> /\ doc = "here"
        /\ owed' = owed \ {q \in Touched(p) : state[q] = "queued"}
    BY <1>4 DEF Edit, run
  <2>1. \A q \in Boxes : state'[q] = IF q \in Touched(p) THEN "stale" ELSE state[q]
    BY <1>0, <1>4, Writes, StateNames DEF Edit, Types, BoxTypes
  <2>2. DocPart' /\ ParkPart' /\ BusyPart'
    BY <2>0, <2>1 DEF Inv, DocPart, InTurn, ParkPart, BusyPart
  <2>3. OwedPart => OwedPart'
    BY <1>0, <2>0, <2>1 DEF OwedPart, Types, EndTypes
  <2> QED BY <1>0, <2>0, <2>2, <2>3 DEF Inv, PressPart
<1>5. CASE Stop \/ OpenOther
  <2>0. /\ UNCHANGED <<state, box, first, A, requeue, ended, owed, excused>>
        /\ Live /\ Cancelled /\ aborted' /\ doc' \in {doc, "leaving"} /\ (doc # "here" => doc' = doc)
    BY <1>5 DEF Stop, OpenOther, Cancelled, Live, boxes, run, ghosts
  <2>1. \A q \in Boxes : parked'[q] # "no" <=> parked[q] # "no"
    BY <1>0, <2>0 DEF Cancelled, Types, ParkTypes
  <2>2. parks' = {} /\ (pc' \notin {"off", "opening"} \/ pc' = pc)
    BY <2>0 DEF Cancelled, Woken
  <2>3. DocPart' /\ ParkPart' /\ BusyPart'
    BY <1>0, <2>0, <2>1, <2>2 DEF Inv, DocPart, InTurn, Live, Cancelled, Woken, ParkPart, BusyPart, Types, BoxTypes
  <2>4. PressPart'
    BY <2>0 DEF Inv, PressPart, Cancelled, Woken, Live
  <2> QED BY <1>0, <2>3, <2>4 DEF Inv
<1>6. CASE Replaced
  BY <1>0, <1>6 DEF Inv, Replaced, boxes, run, ghosts, DocPart, InTurn, ParkPart, BusyPart, PressPart
<1>7. CASE BackAgain
  <2>0. UNCHANGED <<pc, box, aborted, first, A, requeue, parked, parks, ended, owed, excused>> /\ doc = "away"
    BY <1>7 DEF BackAgain, run, ghosts
  <2>1. \A q \in Boxes : state'[q] = IF state[q] \in Busy THEN "stale" ELSE state[q]
    BY <1>7 DEF BackAgain
  <2>2. \A q \in Boxes : state'[q] \notin Busy
    BY <2>1 DEF Busy
  <2>3. DocPart' /\ ParkPart' /\ BusyPart'
    BY <1>7, <2>0, <2>2 DEF Inv, BackAgain, DocPart, InTurn, ParkPart, BusyPart, Busy
  <2>4. PressPart'
    BY <2>0 DEF Inv, DocPart, PressPart
  <2> QED BY <1>0, <2>3, <2>4 DEF Inv
<1> QED BY <1>1, <1>2, <1>3, <1>4, <1>5, <1>6, <1>7 DEF Person, RunAll, Play

\* The run's own steps between two awaits, and the waits.
LEMMA LoopInv ==
  ASSUME Inv, Loop
  PROVE  Inv'
<1>0. Types' /\ Types /\ state \in [Boxes -> States]
  BY LoopTypes DEF Inv, Types, BoxTypes
<1>t. ASSUME pc = "turn"
      PROVE  ~aborted /\ doc = "here" /\ box = None /\ OwedPart
  BY <1>0, <1>t DEF Inv, DocPart, InTurn, PressPart, Types, RunTypes
<1>1. CASE Begin
  <2>1. pc = "opening" /\ pc' = "ready" /\ box = None /\ UNCHANGED <<doc, box, aborted, requeue, parked, parks, owed, excused>>
    BY <1>0, <1>1 DEF Begin, ghosts, Types, RunTypes
  <2>2. A' = (IF doc = "away" THEN {} ELSE ActiveSet(first)) /\ first \subseteq ActiveSet(first)
    BY <1>0, <1>1, Graph DEF Begin, Types, WaveTypes
  <2>3. \A q \in Boxes : state'[q] = IF doc # "away" /\ q \in A' THEN "queued" ELSE state[q]
    BY <1>0, <1>1, Writes, StateNames DEF Begin
  <2>4. \A q \in Boxes : parked[q] = "no"
    BY <2>1 DEF Inv, ParkPart
  <2>5. DocPart' /\ ParkPart'
    BY <2>1, <2>4 DEF Inv, DocPart, InTurn, ParkPart
  <2>6. BusyPart'
    <3>1. \A q \in Boxes : doc # "away" => state[q] # "queued"
      BY <2>1 DEF Inv, BusyPart, ParkPart
    <3> QED BY <2>1, <2>3, <3>1 DEF Inv, BusyPart
  <2>7. PressPart'
    <3>1. ASSUME doc = "here" PROVE OwedPart'
      <4> SUFFICES ASSUME NEW q \in owed \ excused PROVE state'[q] = "queued" /\ q # box'
        BY <2>1 DEF OwedPart
      <4>1. q \in first /\ q \in Boxes
        BY <1>0, <2>1 DEF Inv, PressPart, Types, EndTypes
      <4> QED BY <2>1, <2>2, <2>3, <3>1, <4>1, Bounds
    <3> QED BY <2>1, <3>1 DEF PressPart
  <2> QED BY <1>0, <2>5, <2>6, <2>7 DEF Inv
<1>2. CASE WallClock
  BY <1>0, <1>2, FinishInv DEF WallClock, ghosts
<1>3. CASE RunEnds
  <2>1. Scans /\ Next1 = None /\ Waiting = {} /\ Finish(state, "done") /\ UNCHANGED <<has, current, doc, ghosts, bounds>>
    BY <1>3 DEF RunEnds
  <2>2. ~aborted /\ doc = "here" /\ box = None /\ OwedPart
    BY <1>t, <2>1 DEF Scans
  <2>3. \A q \in Boxes : state[q] # "queued"
    <3> SUFFICES ASSUME NEW q \in Boxes, state[q] = "queued" PROVE FALSE
      OBVIOUS
    <3> DEFINE T == {i \in 1..Len(Rank) : state[Rank[i]] = "queued"}
    <3>1. PICK n \in T : \A m \in T : n <= m
      <4>1. T # {} /\ T \subseteq Nat
        BY RankOrders
      <4> QED BY <4>1, Least
    <3>2. Rank[n] \in Boxes /\ state[Rank[n]] = "queued"
      BY RankOrders
    <3>3. ASSUME NEW x \in Into(Rank[n]) \cap A PROVE state[x] \notin Busy
      <4>1. x \in Boxes /\ <<x, Rank[n]>> \in Wires
        BY DEF Into
      <4>2. state[x] # "queued"
        <5>1. PICK i \in 1..Len(Rank) : x = Rank[i]
          BY <4>1, RankOrders
        <5>2. i < n /\ i \in Nat /\ n \in Nat
          BY <4>1, <5>1, RankOrders
        <5> QED BY <3>1, <5>1, <5>2
      <4>3. state[x] # "running" /\ state[x] # "waiting"
        BY <2>1, <2>2, <4>1, Bounds DEF Inv, BusyPart, Waiting
      <4> QED BY <4>2, <4>3 DEF Busy
    <3>4. Ready(Rank[n])
      BY <2>2, <3>2, <3>3 DEF Ready, Inv, BusyPart
    <3> QED BY <2>1, <3>2, <3>4, NextBox
  <2>4. owed \subseteq excused
    <3> SUFFICES ASSUME NEW q \in owed \ excused PROVE FALSE
      OBVIOUS
    <3>1. q \in Boxes /\ parked[q] = "no"
      BY <1>0, <2>1 DEF Types, EndTypes, Waiting
    <3> QED BY <2>2, <2>3, <3>1, Bounds DEF OwedPart
  <2> QED BY <1>0, <2>1, <2>4, FinishInv DEF ghosts
<1>4. CASE LoopTop
  <2>1. CASE aborted
    BY <1>0, <1>4, <2>1, FinishInv DEF LoopTop, ghosts
  <2>2. CASE ~aborted
    <3>1. pc = "ready" /\ pc' = "turn" /\ ~aborted /\ UNCHANGED <<state, doc, box, aborted, A, requeue, parked, parks, ended, owed, excused>>
      BY <1>4, <2>2 DEF LoopTop, run, ghosts
    <3> QED BY <1>0, <3>1 DEF Inv, DocPart, InTurn, ParkPart, BusyPart, PressPart, OwedPart
  <2> QED BY <2>1, <2>2
<1>5. CASE Flushed
  <2>1. CASE late
    BY <1>0, <1>5, <2>1, FinishInv DEF Flushed, ghosts
  <2>2. CASE ~late
    <3>1. pc = "flush" /\ pc' = "asleep" /\ UNCHANGED <<state, doc, box, aborted, A, requeue, parked, parks, ended, owed, excused>>
      BY <1>5, <2>2 DEF Flushed, run, ghosts
    <3> QED BY <1>0, <3>1 DEF Inv, DocPart, InTurn, ParkPart, BusyPart, PressPart, OwedPart
  <2> QED BY <2>1, <2>2
<1>6. CASE Suspend \/ MinuteOver
  <2>1. /\ pc \in {"turn", "asleep"} /\ pc' \in {"flush", "ready"}
        /\ UNCHANGED <<state, doc, box, aborted, A, requeue, parked, parks, ended, owed, excused>>
    BY <1>6 DEF Suspend, Scans, MinuteOver, boxes, run, ghosts
  <2> QED BY <1>0, <2>1 DEF Inv, DocPart, InTurn, ParkPart, BusyPart, PressPart, OwedPart
<1>7. ASSUME NEW p \in Boxes, Resume(p) PROVE Inv'
  <2>1. /\ Completed(p, parked[p] = "cancel", "waiting") /\ p \in A /\ Settled(p)
        /\ pc = "turn" /\ UNCHANGED <<doc, pc, box, aborted, ended, excused>>
    BY <1>7 DEF Resume
  <2>2. ~aborted /\ doc = "here" /\ box = None /\ OwedPart
    BY <1>t, <2>1
  <2>3. ParkPart' /\ BusyPart' /\ OwedPart'
    BY <2>1, <2>2, CompletedInv DEF Settled
  <2> QED BY <1>0, <2>1, <2>2, <2>3 DEF Inv, DocPart, InTurn, PressPart
<1>8. ASSUME NEW p \in Boxes, Activate(p) PROVE Inv'
  <2>1. /\ pc = "turn" /\ p \in A /\ state[p] = "queued" /\ parked[p] = "no"
        /\ UNCHANGED <<doc, excused, bounds>>
    <3>1. Ready(p)
      BY <1>8, NextBox, Bounds DEF Activate
    <3> QED BY <1>8, <3>1 DEF Activate, Scans, Ready, Inv, ParkPart
  <2>2. ~aborted /\ doc = "here" /\ box = None /\ OwedPart
    BY <1>t, <2>1
  <2>3. CASE Skipped(p)
    <3>1. /\ A' = A \ {p} /\ owed' = owed \ {p} /\ pc' = "ready"
          /\ UNCHANGED <<box, aborted, requeue, parked, parks, ended>>
      BY <2>3 DEF Skipped
    <3>2. state' \in [Boxes -> States] /\ \A q \in Boxes : state'[q] = IF doc # "away" /\ q = p THEN "stale" ELSE state[q]
      BY <1>0, <2>3, Writes, StateNames DEF Skipped
    <3>3. ParkPart' /\ BusyPart' /\ OwedPart'
      BY <2>1, <2>2, <3>1, <3>2, DroppedInv
    <3> QED BY <1>0, <2>1, <2>2, <3>1, <3>3 DEF Inv, DocPart, InTurn, PressPart
  <2>4. CASE TooOften(p)
    <3>1. [state EXCEPT ![p] = "stale"] \in [Boxes -> States] /\ \A q \in Boxes : [state EXCEPT ![p] = "stale"][q] \in {state[q], "stale"}
      BY <1>0, StateNames
    <3> QED BY <2>1, <2>4, <3>1, FinishInv DEF TooOften
  <2>5. CASE Refused(p)
    <3>1. pc' = "ready" /\ Failed(p) /\ UNCHANGED <<box, aborted, ended>>
      BY <2>5 DEF Refused
    <3>2. ParkPart' /\ BusyPart' /\ OwedPart'
      BY <1>0, <2>1, <2>2, <3>1, FailedLeaves, DroppedInv
    <3> QED BY <1>0, <2>1, <2>2, <3>1, <3>2 DEF Inv, DocPart, InTurn, PressPart
  <2>6. CASE Started(p)
    <3>1. owed' = owed \ {p} /\ UNCHANGED <<aborted, A, requeue, ended>> /\ pc' \in {"ready", "exec", "instant"}
      BY <2>6 DEF Started
    <3>2. DocPart'
      BY <2>1, <2>2, <3>1 DEF DocPart
    <3>3. CASE p \in Parking
      <4>1. /\ parked' = [parked EXCEPT ![p] = "asked"] /\ parks' = parks \cup {p} /\ box' = box
            /\ \A q \in Boxes : state'[q] = IF q = p THEN "waiting" ELSE state[q]
        BY <1>0, <2>2, <2>6, <3>3, Writes, StateNames DEF Started
      <4>2. \A q \in Boxes : parked'[q] = IF q = p THEN "asked" ELSE parked[q]
        BY <1>0, <4>1 DEF Types, ParkTypes
      <4>3. ParkPart'
        BY <1>0, <2>1, <2>2, <3>1, <3>3, <4>1, <4>2 DEF Inv, ParkPart, Types, ParkTypes
      <4>4. BusyPart'
        BY <2>1, <2>2, <3>1, <4>1, <4>2 DEF Inv, BusyPart
      <4>5. OwedPart'
        BY <1>0, <2>1, <2>2, <3>1, <4>1, <4>2, Bounds DEF OwedPart, Types, EndTypes
      <4> QED BY <1>0, <2>1, <3>1, <3>2, <4>3, <4>4, <4>5 DEF Inv, PressPart
    <3>4. CASE p \notin Parking
      <4>1. /\ parked' = parked /\ parks' = parks /\ box' = p
            /\ \A q \in Boxes : state'[q] = IF q = p THEN "running" ELSE state[q]
        BY <1>0, <2>2, <2>6, <3>4, Writes, StateNames DEF Started
      <4>2. ParkPart'
        BY <2>1, <2>2, <3>1, <3>4, <4>1 DEF Inv, ParkPart
      <4>3. BusyPart'
        BY <2>1, <2>2, <3>1, <4>1, Bounds DEF Inv, BusyPart
      <4>4. OwedPart'
        BY <1>0, <2>1, <2>2, <3>1, <4>1, Bounds DEF OwedPart, Types, EndTypes
      <4> QED BY <1>0, <2>1, <3>1, <3>2, <4>2, <4>3, <4>4 DEF Inv, PressPart
    <3> QED BY <3>3, <3>4
  <2> QED BY <1>8, <2>3, <2>4, <2>5, <2>6 DEF Activate
<1> QED BY <1>1, <1>2, <1>3, <1>4, <1>5, <1>6, <1>7, <1>8 DEF Loop

\* An awaited box comes back, or throws; its asks; the clock.
LEMMA BackInv ==
  ASSUME Inv, Back \/ Ask \/ ClockPasses
  PROVE  Inv'
<1>0. Types' /\ Types /\ state \in [Boxes -> States]
  BY BackTypes DEF Inv, Types, BoxTypes
<1>b. ASSUME pc \in {"exec", "instant"}
      PROVE  box \in Boxes /\ box \in A /\ parked[box] = "no"
  BY <1>0, <1>b DEF Inv, ParkPart, Types, RunTypes
<1>s. ASSUME box \in Boxes
      PROVE  /\ [state EXCEPT ![box] = "stale"] \in [Boxes -> States]
             /\ \A q \in Boxes : [state EXCEPT ![box] = "stale"][q] \in {state[q], "stale"}
  BY <1>0, <1>s, StateNames
<1>1. CASE Returns
  <2>1. PICK bar \in BOOLEAN : Completed(box, bar, "running")
    BY <1>1 DEF Returns
  <2>2. pc \in {"exec", "instant"} /\ pc' = "ready" /\ box' = None /\ UNCHANGED <<doc, aborted, ended, excused>>
    BY <1>1 DEF Returns
  <2>3. ParkPart' /\ BusyPart' /\ (~aborted /\ doc = "here" /\ OwedPart => OwedPart')
    BY <1>b, <2>1, <2>2, CompletedInv
  <2> QED BY <1>0, <2>2, <2>3 DEF Inv, DocPart, InTurn, PressPart
<1>2. CASE Throws
  <2>0. pc = "exec" /\ UNCHANGED <<current, doc, excused, bounds>>
    BY <1>2 DEF Throws
  <2>1. CASE Finish([state EXCEPT ![box] = "stale"], IF aborted THEN "stopped" ELSE "yielded") /\ UNCHANGED <<has, owed, ahead>>
    <3> DEFINE how == IF aborted THEN "stopped" ELSE "yielded"
    <3>1. how \in {"done", "stopped", "yielded", "capped", "limited"} /\ how # "done"
      OBVIOUS
    <3> HIDE DEF how
    <3> QED BY <1>b, <1>s, <2>0, <2>1, <3>1, FinishInv
  <2>2. CASE ~aborted /\ Failed(box) /\ pc' = "ready" /\ box' = None /\ UNCHANGED <<aborted, ended>>
    <3>1. ParkPart' /\ BusyPart' /\ (~aborted /\ doc = "here" /\ OwedPart => OwedPart')
      BY <1>0, <1>b, <2>0, <2>2, FailedLeaves, DroppedInv
    <3> QED BY <1>0, <2>0, <2>2, <3>1 DEF Inv, DocPart, InTurn, PressPart
  <2> QED BY <1>2, <2>1, <2>2 DEF Throws
<1>3. CASE CapReached
  <2> DEFINE how == IF aborted THEN "stopped" ELSE "capped"
  <2>1. how \in {"done", "stopped", "yielded", "capped", "limited"} /\ how # "done"
    OBVIOUS
  <2>2. pc = "exec" /\ Finish([state EXCEPT ![box] = "stale"], how) /\ UNCHANGED <<has, current, doc, owed, ahead, excused, bounds>>
    BY <1>3 DEF CapReached, ghosts
  <2> HIDE DEF how
  <2> QED BY <1>b, <1>s, <2>1, <2>2, FinishInv
<1>4. CASE Ask \/ ClockPasses
  <2>1. UNCHANGED <<state, doc, pc, box, aborted, first, A, requeue, parked, parks, ended, owed, excused>>
    BY <1>4 DEF Ask, ClockPasses, boxes, run, ghosts
  <2> QED BY <1>0, <2>1 DEF Inv, DocPart, InTurn, ParkPart, BusyPart, PressPart, OwedPart
<1> QED BY <1>1, <1>2, <1>3, <1>4 DEF Back

LEMMA InvStep == Inv /\ [Next]_vars => Inv'
<1>1. Inv /\ Next => Inv'
  BY PersonInv, LoopInv, BackInv DEF Next
<1>2. Inv /\ UNCHANGED vars => Inv'
  <2> SUFFICES ASSUME Inv, UNCHANGED vars PROVE Inv'
    OBVIOUS
  <2>1. Types'
    BY DEF vars, boxes, run, ghosts, bounds, Inv, Types, BoxTypes, RunTypes, WaveTypes, ParkTypes, EndTypes
  <2> QED BY <2>1 DEF vars, boxes, run, ghosts, Inv, DocPart, InTurn, ParkPart, BusyPart, PressPart, OwedPart
<1> QED BY <1>1, <1>2

LEMMA InvHolds == Spec => []Inv
BY InitInv, InvStep, PTL DEF Spec

-----------------------------------------------------------------------------
(* What it gives. *)

\* What the engine's variables hold, in every state a document and its runs can reach.
THEOREM TypeCorrect == Spec => []TypeOK
<1>1. Inv => TypeOK
  BY TypeParts DEF Inv
<1> QED BY <1>1, InvHolds, PTL

\* A question on screen is awaited by the live run: no answer goes nowhere, whatever ended
\* the run or took its branch.
THEOREM NoGhosts == Spec => []NoGhostPark
<1>1. Inv => NoGhostPark
  BY DEF Inv, ParkPart, NoGhostPark, Types, ParkTypes
<1> QED BY <1>1, InvHolds, PTL

\* Once no run is live no box of the document says it is queued, running or waiting, and
\* nothing is parked: finish() reaches every box a run touched, those other documents and
\* merged presses brought in too.
THEOREM QuietAfterRuns == Spec => []QuietWhenIdle
<1>1. Inv => QuietWhenIdle
  <2> SUFFICES ASSUME Inv PROVE QuietWhenIdle
    OBVIOUS
  <2>1. TypeOK
    BY TypeParts DEF Inv
  <2>2. ASSUME pc = "off" PROVE parks = {} /\ Waiting = {} /\ A = {} /\ box = None
    BY <2>2 DEF Inv, ParkPart, Waiting, Types, ParkTypes, RunTypes
  <2>3. ASSUME pc = "off", doc = "here", NEW q \in Boxes PROVE state[q] \notin Busy
    BY <2>2, <2>3, BusyIsMine DEF Inv
  <2> QED BY <2>1, <2>2, <2>3 DEF QuietWhenIdle
<1> QED BY <1>1, InvHolds, PTL

\* A press that joins a live run is followed by an activation of its box: it stays queued,
\* or asked for again, until one does, and a run that ends by itself owes nothing.
THEOREM PressesKept == Spec => []PressKept
<1>1. Inv => PressKept
  BY DEF Inv, PressPart, OwedPart, PressKept
<1> QED BY <1>1, InvHolds, PTL

-----------------------------------------------------------------------------
(* A box that reads done is current. *)

\* What a press reaches: what hangs off a box it activates is activated too, unless that
\* box has no value yet, or what hangs off it is a Button.
LEMMA Reach ==
  ASSUME NEW seeds \in SUBSET Boxes, NEW q \in Boxes, NEW x \in Into(q), x \in ActiveSet(seeds)
  PROVE  q \in ActiveSet(seeds) \/ x \notin has \/ q \in Manual
<1>0. x \in Boxes /\ <<x, q>> \in Wires /\ Wires \subseteq Boxes \X Boxes
  BY RunnerAssumption DEF Into
<1>1. \A from : x \in Closure(from, Wires) => q \in Closure(from, Wires)
  <2> SUFFICES ASSUME NEW from, x \in Closure(from, Wires),
                      NEW K \in SUBSET Boxes, from \subseteq K, \A e \in Wires : e[1] \in K => e[2] \in K
               PROVE  q \in K
    BY DEF Closure
  <2>1. x \in K
    BY DEF Closure
  <2> QED BY <1>0, <2>1
<1>2. x \in UnrunAncestors(seeds) => x \notin has
  <2> DEFINE back == {<<w[2], w[1]>> : w \in {e \in Wires : e[1] \notin has \cup Manual}}
             K == seeds \cup (Boxes \ has)
  <2>1. K \in SUBSET Boxes /\ seeds \subseteq K
    OBVIOUS
  <2>2. \A e \in back : e[2] \in K
    BY <1>0
  <2>3. Closure(seeds, back) \subseteq K
    <3> HIDE DEF back, K
    <3> QED BY <2>1, <2>2 DEF Closure
  <2> QED BY <2>3 DEF UnrunAncestors
<1>3. CASE seeds # {}
  BY <1>1, <1>2, <1>3 DEF ActiveSet
<1>4. CASE seeds = {}
  BY <1>1, <1>4 DEF ActiveSet
<1> QED BY <1>3, <1>4

\* No box reads its own value.
LEMMA NoSelfWire == \A q \in Boxes : q \notin Into(q)
<1> SUFFICES ASSUME NEW q \in Boxes, q \in Into(q) PROVE FALSE
  OBVIOUS
<1>1. PICK i \in 1..Len(Rank) : q = Rank[i]
  BY RankOrders
<1>2. i < i /\ i \in Nat
  BY <1>1, RankOrders DEF Into
<1> QED BY <1>2

\* A step that starts nothing and queues nothing.
LEMMA Calm ==
  ASSUME CurrentPart, ahead \subseteq ahead',
         \A q \in Boxes : /\ WillRead(q)' => WillRead(q)
                          /\ Unsettled(q)' => Unsettled(q)
                          /\ q \in current /\ WillRead(q)' /\ ~Ageing(q) => q \in current'
  PROVE  CurrentPart'
<1> SUFFICES ASSUME NEW q \in Boxes, WillRead(q)', ~Ageing(q)'
             PROVE  q \in current' /\ \A p \in Into(q) : ~Unsettled(p)'
  BY DEF CurrentPart, Into
<1>1. WillRead(q) /\ ~Ageing(q)
  BY DEF Ageing, OffLoop, Into
<1>2. q \in current /\ \A p \in Into(q) : p \in Boxes /\ ~Unsettled(p)
  BY <1>1 DEF CurrentPart, Into
<1> QED BY <1>1, <1>2

LEMMA CalmValues ==
  ASSUME Types, ValuePart, has' = has,
         \A q \in Boxes : /\ state'[q] = "done" => state[q] = "done"
                          /\ UnderWay(q)' => UnderWay(q),
         ~aborted' /\ doc' = "here" /\ A' # {} =>
             ~aborted /\ doc = "here" /\ A' \subseteq A /\ \A q \in A \ A' : state'[q] # "done"
  PROVE  ValuePart'
<1>1. \A q \in has' : Into(q)' \subseteq has'
  BY DEF ValuePart, Into
<1> SUFFICES ASSUME NEW q \in Boxes
             PROVE  /\ state'[q] = "done" => q \in has'
                    /\ UnderWay(q)' => Into(q) \subseteq has' /\ state'[q] # "done"
                    /\ ~aborted' /\ doc' = "here" /\ Into(q) \cap A' # {} => q \in A' \cup Manual \/ state'[q] # "done"
  BY <1>1 DEF ValuePart, Into
<1>2. state'[q] = "done" => q \in has'
  BY DEF ValuePart
<1>3. UnderWay(q)' => Into(q) \subseteq has' /\ state'[q] # "done"
  BY DEF ValuePart
<1>4. ~aborted' /\ doc' = "here" /\ Into(q) \cap A' # {} => q \in A' \cup Manual \/ state'[q] # "done"
  BY DEF ValuePart
<1> QED BY <1>2, <1>3, <1>4

\* A step that leaves the boxes and the activations as they are.
LEMMA Still ==
  ASSUME Types, ValuePart, CurrentPart, UNCHANGED <<state, has, current, box, A, requeue, ahead>>,
         \A q \in Boxes : parked'[q] # "no" <=> parked[q] # "no",
         \/ UNCHANGED <<doc, aborted>>
         \/ aborted'
         \/ doc' # "here"
  PROVE  ValuePart' /\ CurrentPart'
<1>1. \A q \in Boxes : (UnderWay(q)' <=> UnderWay(q)) /\ (WillRead(q)' <=> WillRead(q))
  BY DEF UnderWay, WillRead
<1>2. \A q \in Boxes : Unsettled(q)' => Unsettled(q)
  BY <1>1 DEF Unsettled
<1>3. CurrentPart'
  BY <1>1, <1>2, Calm
<1>4. ValuePart'
  BY <1>1, CalmValues
<1> QED BY <1>3, <1>4

\* The boxes that join the run: at its start, or by a press.
LEMMA Joined ==
  ASSUME Inv, ValuePart, CurrentPart, NEW seeds \in SUBSET Boxes, NEW later \in SUBSET Boxes,
         A' = A \cup ActiveSet(seeds), requeue' = requeue \cup later, doc # "away",
         \A q \in Boxes : state'[q] = IF q \in ActiveSet(seeds) \ later THEN "queued" ELSE state[q],
         \A q \in Boxes : q \in later <=> q \in ActiveSet(seeds) /\ (parked[q] # "no" \/ state[q] = "running"),
         UNCHANGED <<has, current, doc, box, aborted, parked, ahead>>
  PROVE  ValuePart' /\ CurrentPart'
<1> DEFINE add == ActiveSet(seeds)
<1>0. Types /\ add \subseteq Boxes
  BY Graph DEF Inv
<1>r. ASSUME NEW q \in Boxes, NEW x \in Into(q), x \in add
      PROVE  q \in add \/ x \notin has \/ q \in Manual
  BY <1>r, Reach
<1> HIDE DEF add
<1>1. \A q \in Boxes : UnderWay(q)' <=> UnderWay(q)
  BY DEF UnderWay
<1>2. ASSUME NEW q \in Boxes, WillRead(q)' PROVE WillRead(q) /\ q \notin add
  <2>1. q \in later => state[q] # "done" /\ q \in requeue'
    BY DEF ValuePart, UnderWay
  <2>2. q \notin add
    BY <1>2, <2>1 DEF WillRead, add
  <2> QED BY <1>2, <2>2 DEF WillRead, add
<1>3. ASSUME NEW q \in Boxes, Unsettled(q)', ~Unsettled(q) PROVE q \in add
  BY <1>1, <1>3 DEF Unsettled, add
<1>4. CurrentPart'
  <2> SUFFICES ASSUME NEW q \in Boxes, WillRead(q)', ~Ageing(q)'
               PROVE  q \in current' /\ \A x \in Into(q) : ~Unsettled(x)'
    BY DEF CurrentPart, Into
  <2>1. WillRead(q) /\ ~Ageing(q) /\ q \notin add
    BY <1>2 DEF Ageing, OffLoop, Into
  <2>2. q \in current /\ \A x \in Into(q) : ~Unsettled(x)
    BY <2>1 DEF CurrentPart
  <2>3. ASSUME NEW x \in Into(q), Unsettled(x)' PROVE FALSE
    <3>1. x \in add /\ x \in Boxes
      BY <1>3, <2>2, <2>3 DEF Into
    <3>2. x \notin has
      BY <1>r, <2>1, <3>1 DEF Ageing
    <3> QED BY <2>1, <2>3, <3>2 DEF ValuePart, WillRead, UnderWay
  <2> QED BY <2>2, <2>3
<1>5. ValuePart'
  <2>1. \A q \in has' : Into(q)' \subseteq has'
    BY DEF ValuePart, Into
  <2> SUFFICES ASSUME NEW q \in Boxes
               PROVE  /\ state'[q] = "done" => q \in has'
                      /\ UnderWay(q)' => Into(q) \subseteq has' /\ state'[q] # "done"
                      /\ ~aborted' /\ doc' = "here" /\ Into(q) \cap A' # {} => q \in A' \cup Manual \/ state'[q] # "done"
    BY <2>1 DEF ValuePart, Into
  <2>2. state'[q] = "done" => state[q] = "done"
    OBVIOUS
  <2>3. (state'[q] = "done" => q \in has') /\ (UnderWay(q)' => Into(q) \subseteq has' /\ state'[q] # "done")
    BY <1>1, <2>2 DEF ValuePart
  <2>4. ASSUME ~aborted, doc = "here", NEW x \in Into(q), x \in A', q \notin A' \cup Manual, state'[q] = "done" PROVE FALSE
    <3>1. x \in add
      BY <2>2, <2>4 DEF ValuePart, add
    <3>2. x \notin has
      BY <1>r, <2>4, <3>1 DEF add
    <3> QED BY <2>2, <2>4, <3>2 DEF ValuePart
  <2> QED BY <2>3, <2>4
<1> QED BY <1>4, <1>5

\* A run that ends queues nothing and makes nothing current or old.
LEMMA FinishCurrent ==
  ASSUME Inv, Inv', ValuePart, CurrentPart, NEW st \in [Boxes -> States], \A q \in Boxes : st[q] \in {state[q], "stale"},
         NEW how, Finish(st, how), UNCHANGED <<has, current, doc, ahead>>
  PROVE  ValuePart' /\ CurrentPart'
<1>0. Types /\ pc' = "off" /\ box' = None /\ A' = {} /\ \A q \in Boxes : parked'[q] = "no"
  BY DEF Inv, Finish, NoParks
<1>1. \A q \in Boxes : ~UnderWay(q)'
  BY <1>0, Bounds DEF UnderWay
<1>2. \A q \in Boxes : state'[q] = "done" => state[q] = "done"
  <2>1. \A q \in Boxes : state'[q] = IF doc # "away" /\ q \in Leftover(st) THEN "stale" ELSE st[q]
    BY Writes, StateNames DEF Finish
  <2> QED BY <2>1
<1>3. \A q \in Boxes : WillRead(q)' => WillRead(q)
  BY <1>1, <1>2 DEF WillRead, UnderWay
<1>4. \A q \in Boxes : ~Unsettled(q)'
  <2>1. doc = "here" => \A q \in Boxes : state'[q] \notin Busy
    BY <1>0, <1>1, Bounds DEF Inv, BusyPart, Busy
  <2> QED BY <1>1, <2>1 DEF Unsettled
<1>5. CurrentPart'
  BY <1>3, <1>4, Calm
<1>6. ValuePart'
  BY <1>0, <1>1, <1>2, CalmValues
<1> QED BY <1>5, <1>6

\* An activation that came back with a value, and the loops it drives.
Drives(p, bar, was) == p \notin requeue /\ ~Edited(p, was) /\ ~bar

LEMMA CompletedDrives ==
  ASSUME Types, NEW p \in Boxes, NEW bar \in BOOLEAN, NEW was, Completed(p, bar, was)
  PROVE  /\ doc # "away" /\ state'[p] = "done" => p \notin requeue /\ state[p] = was
         /\ \A q \in Boxes \ {p} : state'[q] = "queued" =>
                state[q] = "queued" \/ (q \in Again(p) /\ Drives(p, bar, was))
         /\ doc # "away" /\ Drives(p, bar, was) => \A q \in Again(p) : state'[q] = "queued"
         /\ ahead' = IF Drives(p, bar, was) THEN ahead \cup (Looped(p) \cap (Waiting \ {p})) ELSE ahead
         /\ has' = (IF doc = "away" THEN has ELSE has \cup {p})
         /\ current' = (IF doc = "away" THEN current ELSE current \ {q \in Boxes : <<p, q>> \in Wires})
<1> DEFINE done == p \notin requeue /\ ~Edited(p, was)
           own == Marked(state, {p}, IF p \in requeue THEN "queued" ELSE IF Edited(p, was) THEN "stale" ELSE "done")
<1>0. state \in [Boxes -> States] /\ Again(p) \subseteq Boxes
  BY DEF Types, BoxTypes, WaveTypes, Again
<1>1. /\ own \in [Boxes -> States]
      /\ \A q \in Boxes : own[q] = IF doc # "away" /\ q = p
                                   THEN IF p \in requeue THEN "queued" ELSE IF Edited(p, was) THEN "stale" ELSE "done"
                                   ELSE state[q]
  BY <1>0, Writes, StateNames
<1>2. state' = IF ~done THEN own
               ELSE IF bar THEN Marked(own, Cut(p), "stale")
               ELSE Marked(own, Again(p), "queued")
  BY DEF Completed
<1>3. \A qs, s : s \in States => \A q \in Boxes : Marked(own, qs, s)[q] = IF doc # "away" /\ q \in qs THEN s ELSE own[q]
  BY <1>1, Writes
<1>4. "queued" \in States /\ "stale" \in States
  BY StateNames
<1>5. \A q \in Boxes : state'[q] =
          IF doc # "away" /\ done /\ bar /\ q \in Cut(p) THEN "stale"
          ELSE IF doc # "away" /\ done /\ ~bar /\ q \in Again(p) THEN "queued"
          ELSE own[q]
  <2> HIDE DEF own, done
  <2> QED BY <1>2, <1>3, <1>4
<1>6. doc # "away" /\ state'[p] = "done" => p \notin requeue /\ state[p] = was
  BY <1>1, <1>5 DEF Edited
<1>7. ASSUME NEW q \in Boxes \ {p}, state'[q] = "queued"
      PROVE  state[q] = "queued" \/ (q \in Again(p) /\ Drives(p, bar, was))
  BY <1>1, <1>5, <1>7 DEF Drives
<1>8. doc # "away" /\ Drives(p, bar, was) => \A q \in Again(p) : state'[q] = "queued"
  BY <1>0, <1>5 DEF Drives
<1>9. /\ ahead' = IF Drives(p, bar, was) THEN ahead \cup (Looped(p) \cap (Waiting \ {p})) ELSE ahead
      /\ has' = (IF doc = "away" THEN has ELSE has \cup {p})
      /\ current' = (IF doc = "away" THEN current ELSE current \ {q \in Boxes : <<p, q>> \in Wires})
  BY DEF Completed, Drives
<1> QED BY <1>6, <1>7, <1>8, <1>9

LEMMA CompletedCurrent ==
  ASSUME Inv, ValuePart, CurrentPart, NEW p \in A, NEW bar \in BOOLEAN, NEW was, Completed(p, bar, was),
         \/ p = box /\ was = "running"
         \/ parked[p] # "no" /\ was = "waiting",
         box \in {None, p}, box' = None, UNCHANGED <<doc, aborted>>
  PROVE  ValuePart' /\ CurrentPart'
<1> DEFINE cut == CutBy(p, bar, was)
           drives == Drives(p, bar, was)
<1>0. Types /\ p \in Boxes /\ A \subseteq Boxes /\ has \subseteq Boxes /\ UnderWay(p)
  BY DEF Inv, Types, BoxTypes, WaveTypes, UnderWay
<1>1. /\ doc = "away" => state' = state
      /\ doc # "away" =>
               /\ state'[p] \in {"queued", "stale", "done"}
               /\ \A q \in Boxes \ {p} : \/ state'[q] = state[q] /\ q \notin cut
                                         \/ state'[q] = "stale" /\ q \in cut
                                         \/ state'[q] = "queued" /\ q \in A /\ parked[q] = "no" /\ q \notin cut
      /\ A' = A \ cut /\ cut \subseteq A /\ p \notin cut /\ requeue' = requeue \ {p}
      /\ \A q \in Boxes : parked'[q] # "no" => q # p /\ parked'[q] = parked[q]
  BY <1>0, CompletedLeaves
<1>2. /\ doc # "away" /\ state'[p] = "done" => p \notin requeue /\ state[p] = was
      /\ \A q \in Boxes \ {p} : state'[q] = "queued" => state[q] = "queued" \/ (q \in Again(p) /\ drives)
      /\ doc # "away" /\ drives => \A q \in Again(p) : state'[q] = "queued"
      /\ ahead' = (IF drives THEN ahead \cup (Looped(p) \cap (Waiting \ {p})) ELSE ahead)
      /\ has' = (IF doc = "away" THEN has ELSE has \cup {p})
      /\ current' = (IF doc = "away" THEN current ELSE current \ {q \in Boxes : <<p, q>> \in Wires})
  BY <1>0, CompletedDrives
<1> HIDE DEF cut, drives
<1>3. \A q \in Boxes : UnderWay(q)' => UnderWay(q) /\ q # p
  BY <1>0, <1>1, Bounds DEF UnderWay
<1>4. ASSUME NEW q \in Boxes, WillRead(q)' PROVE WillRead(q)
  <2>1. CASE q = p
    <3>1. state'[p] = "done"
      BY <1>3, <1>4, <2>1 DEF WillRead, UnderWay
    <3> QED BY <1>1, <1>2, <2>1, <3>1 DEF WillRead
  <2>2. CASE q # p
    <3>1. state'[q] = "done" => state[q] = "done"
      BY <1>1, <2>2
    <3>2. (q \in requeue' <=> q \in requeue) /\ q # box'
      BY <1>0, <1>1, <2>2, Bounds
    <3>3. state'[q] = "waiting" => state[q] = "waiting"
      BY <1>1, <2>2
    <3> QED BY <1>1, <1>4, <3>1, <3>2, <3>3 DEF WillRead
  <2> QED BY <2>1, <2>2
<1>5. ASSUME NEW x \in Boxes, Unsettled(x)', ~Unsettled(x)
      PROVE  doc = "here" /\ ~aborted /\ x \in Again(p) /\ drives /\ x # p
  <2>1. x # p /\ ~UnderWay(x)'
    BY <1>0, <1>3, <1>5 DEF Unsettled
  <2>2. doc = "here" /\ ~aborted /\ state'[x] \in Busy /\ state[x] \notin Busy
    BY <1>5, <2>1 DEF Unsettled
  <2>3. state'[x] = "queued" /\ state[x] # "queued"
    BY <1>1, <2>1, <2>2 DEF Busy
  <2> QED BY <1>2, <2>1, <2>2, <2>3
<1>6. CurrentPart'
  <2> SUFFICES ASSUME NEW q \in Boxes, WillRead(q)', ~Ageing(q)'
               PROVE  q \in current' /\ \A x \in Into(q) : ~Unsettled(x)'
    BY DEF CurrentPart, Into
  <2>1. WillRead(q) /\ ~Ageing(q) /\ q \notin Manual /\ q \notin ahead' /\ ~OffLoop(q)
    BY <1>2, <1>4 DEF Ageing, OffLoop, Into
  <2>2. q \in current /\ \A x \in Into(q) : x \in Boxes /\ ~Unsettled(x)
    BY <2>1 DEF CurrentPart, Into
  <2>3. p \notin Into(q)
    BY <1>0, <2>2 DEF Unsettled
  <2>4. q \in current'
    BY <1>0, <1>2, <2>2, <2>3 DEF Into
  <2>5. ASSUME NEW x \in Into(q), Unsettled(x)' PROVE FALSE
    <3>1. doc = "here" /\ ~aborted /\ x \in Again(p) /\ drives /\ x # p /\ x \in Boxes
      BY <1>5, <2>2, <2>5
    <3>2. x \in Looped(p) /\ x \in A
      BY <3>1 DEF Again
    <3>3. q \in Looped(p)
      <4>1. PICK b \in Backs : b[1] = p /\ x \in Walk[b]
        BY <3>2 DEF Looped
      <4>2. q \in Walk[b]
        BY <2>1, <4>1 DEF OffLoop
      <4> QED BY <4>1, <4>2 DEF Looped
    <3>4. q \notin Again(p)
      <4>1. q \in Again(p) => state'[q] = "queued"
        BY <1>2, <3>1
      <4> QED BY <2>5, <4>1 DEF WillRead
    <3>5. q # p /\ parked[q] # "no" => q \in ahead'
      BY <1>2, <3>1, <3>3 DEF Waiting
    <3>6. q \notin A
      BY <2>1, <3>3, <3>4, <3>5 DEF Again
    <3>7. ~UnderWay(q)
      BY <1>0, <3>6, Bounds DEF UnderWay, Inv, ParkPart
    <3>8. state[q] # "done"
      BY <2>1, <2>5, <3>1, <3>2, <3>6 DEF ValuePart
    <3> QED BY <2>1, <3>7, <3>8 DEF WillRead, UnderWay
  <2> QED BY <2>4, <2>5
<1>7. ValuePart'
  <2>1. \A q \in has' : Into(q)' \subseteq has'
    <3>1. \A q \in Boxes : Into(q)' = Into(q)
      BY DEF Into
    <3>2. Into(p) \subseteq has
      BY <1>0 DEF ValuePart
    <3> QED BY <1>0, <1>2, <3>1, <3>2 DEF ValuePart
  <2> SUFFICES ASSUME NEW q \in Boxes
               PROVE  /\ state'[q] = "done" => q \in has'
                      /\ UnderWay(q)' => Into(q) \subseteq has' /\ state'[q] # "done"
                      /\ ~aborted' /\ doc' = "here" /\ Into(q) \cap A' # {} => q \in A' \cup Manual \/ state'[q] # "done"
    BY <2>1 DEF ValuePart, Into
  <2>2. q # p /\ state'[q] = "done" => state[q] = "done" /\ (doc # "away" => q \notin cut)
    BY <1>1
  <2>3. state'[q] = "done" => q \in has'
    BY <1>0, <1>1, <1>2, <2>2 DEF ValuePart
  <2>4. UnderWay(q)' => Into(q) \subseteq has' /\ state'[q] # "done"
    BY <1>2, <1>3, <2>2 DEF ValuePart
  <2>5. ~aborted' /\ doc' = "here" /\ Into(q) \cap A' # {} => q \in A' \cup Manual \/ state'[q] # "done"
    BY <1>1, <2>2 DEF ValuePart
  <2> QED BY <2>3, <2>4, <2>5
<1> QED BY <1>6, <1>7

\* A box the run goes on without.
LEMMA DroppedCurrent ==
  ASSUME Inv, ValuePart, CurrentPart, NEW p \in Boxes, NEW s \in {"error", "stale"},
         \A q \in Boxes : state'[q] = IF doc # "away" /\ q = p THEN s ELSE state[q],
         A' = A \ {p}, requeue' = requeue, \A q \in Boxes : parked'[q] \in {parked[q], "no"},
         box' = None, UNCHANGED <<has, current, doc, aborted, ahead>>
  PROVE  ValuePart' /\ CurrentPart'
<1>1. \A q \in Boxes : /\ UnderWay(q)' => UnderWay(q) /\ parked'[q] = parked[q]
                       /\ state'[q] = "done" => state[q] = "done"
  BY Bounds DEF UnderWay
<1>2. \A q \in Boxes : WillRead(q)' => WillRead(q)
  BY <1>1, Bounds DEF WillRead, UnderWay
<1>3. \A q \in Boxes : Unsettled(q)' => Unsettled(q)
  BY <1>1 DEF Unsettled, Busy
<1>4. CurrentPart'
  BY <1>2, <1>3, Calm
<1>5. ValuePart'
  BY <1>1, CalmValues DEF Inv
<1> QED BY <1>4, <1>5

\* An activation that starts: nothing before it is still to change, or it runs ahead.
LEMMA StartedCurrent ==
  ASSUME Inv, Inv', ValuePart, CurrentPart, NEW p \in Boxes, Ready(p), Started(p), UNCHANGED doc,
         pc = "turn"
  PROVE  ValuePart' /\ CurrentPart'
<1>0. /\ Types /\ doc = "here" /\ ~aborted /\ box = None /\ p \in A /\ state[p] = "queued" /\ parked[p] = "no"
      /\ state \in [Boxes -> States] /\ parked \in [Boxes -> {"no", "asked", "ok", "cancel"}]
  BY DEF Inv, DocPart, InTurn, ParkPart, Types, BoxTypes, RunTypes, ParkTypes, Ready
<1>1. /\ UNCHANGED <<has, A, requeue, aborted>> /\ Into(p) \subseteq has /\ current' = current \cup {p}
      /\ ahead' = IF Into(p) \cap Waiting # {} THEN ahead \cup {p} ELSE ahead \ {p}
  BY <1>0 DEF Started
<1>2. \A q \in Boxes : /\ state'[q] = IF q = p THEN IF p \in Parking THEN "waiting" ELSE "running" ELSE state[q]
                       /\ q # p => parked'[q] = parked[q]
  <2>1. CASE p \in Parking
    <3>1. state' = Marked(state, {p}, "waiting") /\ parked' = [parked EXCEPT ![p] = "asked"]
      BY <2>1 DEF Started
    <3> QED BY <1>0, <2>1, <3>1 DEF Marked
  <2>2. CASE p \notin Parking
    <3>1. state' = Marked(state, {p}, "running") /\ parked' = parked
      BY <2>2 DEF Started
    <3> QED BY <1>0, <2>2, <3>1 DEF Marked
  <2> QED BY <2>1, <2>2
<1>3. box' \in {None, p}
  BY <1>0 DEF Started
<1>4. \A q \in Boxes \ {p} : (UnderWay(q)' <=> UnderWay(q)) /\ (WillRead(q)' <=> WillRead(q)) /\ (Unsettled(q)' <=> Unsettled(q))
  BY <1>0, <1>1, <1>2, <1>3, Bounds DEF UnderWay, WillRead, Unsettled
<1>5. Unsettled(p)
  BY <1>0 DEF Unsettled, Busy
<1>6. CurrentPart'
  <2> SUFFICES ASSUME NEW q \in Boxes, WillRead(q)', ~Ageing(q)'
               PROVE  q \in current' /\ \A x \in Into(q) : ~Unsettled(x)'
    BY DEF CurrentPart, Into
  <2>1. CASE q = p
    <3>1. ASSUME NEW x \in Into(p) PROVE ~Unsettled(x)'
      <4>1. x \in Boxes \ {p}
        BY NoSelfWire DEF Into
      <4>2. parked[x] = "no"
        BY <1>1, <2>1, <4>1 DEF Ageing, Waiting
      <4>3. state[x] \notin Busy
        <5>1. state[x] \in Busy => x \in A \cup Waiting
          BY <1>0, <4>1, BusyIsMine DEF Inv
        <5> QED BY <4>2, <5>1 DEF Ready, Waiting
      <4> QED BY <1>0, <1>4, <4>1, <4>2, <4>3, Bounds DEF Unsettled, UnderWay
    <3> QED BY <1>1, <2>1, <3>1
  <2>2. CASE q # p
    <3>1. WillRead(q) /\ ~Ageing(q)
      BY <1>1, <1>4, <2>2 DEF Ageing, OffLoop, Into
    <3>2. q \in current /\ \A x \in Into(q) : x \in Boxes /\ ~Unsettled(x)
      BY <3>1 DEF CurrentPart, Into
    <3> QED BY <1>1, <1>4, <1>5, <3>2
  <2> QED BY <2>1, <2>2
<1>7. ValuePart'
  <2>1. \A q \in Boxes : Into(q)' = Into(q)
    BY DEF Into
  <2>2. \A q \in Boxes : state'[q] = "done" => state[q] = "done" /\ q # p
    BY <1>2
  <2>3. \A q \in Boxes : UnderWay(q)' => Into(q) \subseteq has /\ state'[q] # "done"
    BY <1>1, <1>2, <1>4 DEF ValuePart
  <2> QED BY <1>0, <1>1, <2>1, <2>2, <2>3 DEF ValuePart, Types, BoxTypes
<1> QED BY <1>6, <1>7

LEMMA InitCurrent == Init => ValuePart /\ CurrentPart
<1> SUFFICES ASSUME Init PROVE ValuePart /\ CurrentPart
  OBVIOUS
<1>1. has \subseteq Boxes /\ \A q \in has : Into(q) \subseteq has
  BY DEF Init
<1>2. \A q \in Boxes : ~UnderWay(q) /\ (state[q] = "done" <=> q \in has) /\ state[q] \in {"idle", "done"} /\ current = has
  BY Bounds DEF Init, NoParks, UnderWay
<1>3. \A q \in Boxes : ~Unsettled(q)
  BY <1>2 DEF Unsettled, Busy
<1>4. CurrentPart
  BY <1>1, <1>2, <1>3 DEF CurrentPart, WillRead, UnderWay, Into
<1>5. ValuePart
  BY <1>1, <1>2 DEF ValuePart, Init
<1> QED BY <1>4, <1>5

\* Each step keeps it.
LEMMA StepCurrent ==
  ASSUME Inv, Inv', ValuePart, CurrentPart, Next
  PROVE  ValuePart' /\ CurrentPart'
<1>0. Types /\ state \in [Boxes -> States]
  BY DEF Inv, Types, BoxTypes
<1>b. ASSUME pc \in {"exec", "instant"}
      PROVE  box \in Boxes /\ box \in A /\ parked[box] = "no"
  BY <1>0, <1>b DEF Inv, ParkPart, Types, RunTypes
<1>s. ASSUME NEW p \in Boxes
      PROVE  /\ [state EXCEPT ![p] = "stale"] \in [Boxes -> States]
             /\ \A q \in Boxes : [state EXCEPT ![p] = "stale"][q] \in {state[q], "stale"}
  BY <1>0, <1>s, StateNames
<1>1. ASSUME NEW seeds \in SUBSET Boxes, Open(seeds) PROVE ValuePart' /\ CurrentPart'
  <2>1. UNCHANGED <<state, has, current, box, A, requeue, ahead, doc, aborted, parked>>
    BY <1>1 DEF Open, boxes
  <2> QED BY <1>0, <2>1, Still
<1>2. ASSUME NEW p \in Boxes, Press(p) PROVE ValuePart' /\ CurrentPart'
  <2>1. CASE pc = "opening"
    <3>1. UNCHANGED <<state, has, current, box, A, requeue, ahead, doc, aborted, parked>>
      BY <1>2, <2>1 DEF Press
    <3> QED BY <1>0, <3>1, Still
  <2>2. CASE pc # "opening"
    <3> DEFINE add == ActiveSet({p})
               later == Later(add)
    <3>1. /\ doc = "here" /\ A' = A \cup add /\ requeue' = requeue \cup later
          /\ state' = Marked(state, add \ later, "queued")
          /\ UNCHANGED <<has, current, doc, box, aborted, parked, ahead>>
      BY <1>2, <2>2 DEF Press
    <3>2. later \in SUBSET Boxes /\ \A q \in Boxes : q \in later <=> q \in add /\ (parked[q] # "no" \/ state[q] = "running")
      BY Graph DEF Later
    <3> HIDE DEF later
    <3>3. \A q \in Boxes : state'[q] = IF q \in add \ later THEN "queued" ELSE state[q]
      <4> HIDE DEF add
      <4> QED BY <3>1 DEF Marked
    <3> QED BY <3>1, <3>2, <3>3, Joined
  <2> QED BY <2>1, <2>2
<1>3. ASSUME NEW p \in Boxes, NEW a \in {"ok", "cancel"}, Answer(p, a) PROVE ValuePart' /\ CurrentPart'
  <2>1. UNCHANGED <<state, has, current, box, A, requeue, ahead, doc, aborted>>
    BY <1>3 DEF Answer, boxes, run, ghosts
  <2>2. \A q \in Boxes : parked'[q] # "no" <=> parked[q] # "no"
    BY <1>0, <1>3 DEF Answer, Types, ParkTypes
  <2> QED BY <1>0, <2>1, <2>2, Still
<1>4. ASSUME NEW p \in Boxes, Edit(p) PROVE ValuePart' /\ CurrentPart'
  <2>1. UNCHANGED <<has, doc, box, aborted, A, requeue, parked, ahead>> /\ current' = current \ {p} /\ p \in Touched(p)
    BY <1>4, Graph DEF Edit, run, Touched
  <2>2. \A q \in Boxes : state'[q] = IF q \in Touched(p) THEN "stale" ELSE state[q]
    BY <1>0, <1>4, Writes, StateNames DEF Edit
  <2>3. \A q \in Boxes : /\ UnderWay(q)' <=> UnderWay(q)
                         /\ state'[q] = "done" => state[q] = "done"
                         /\ WillRead(q)' => WillRead(q) /\ q # p
                         /\ Unsettled(q)' => Unsettled(q)
    BY <2>1, <2>2 DEF UnderWay, WillRead, Unsettled, Busy
  <2>4. CurrentPart'
    BY <2>1, <2>3, Calm
  <2>5. ValuePart'
    BY <1>0, <2>1, <2>3, CalmValues
  <2> QED BY <2>4, <2>5
<1>5. CASE Stop \/ OpenOther
  <2>1. UNCHANGED <<state, has, current, box, A, requeue, ahead>> /\ aborted'
    BY <1>5 DEF Stop, OpenOther, Cancelled, Live, boxes, run, ghosts
  <2>2. \A q \in Boxes : parked'[q] # "no" <=> parked[q] # "no"
    BY <1>0, <1>5 DEF Stop, OpenOther, Cancelled, Types, ParkTypes
  <2> QED BY <1>0, <2>1, <2>2, Still
<1>6. CASE Replaced
  <2>1. UNCHANGED <<state, has, current, box, A, requeue, ahead, parked>> /\ doc' # "here"
    BY <1>6 DEF Replaced, boxes, run, ghosts
  <2> QED BY <1>0, <2>1, Still
<1>7. CASE BackAgain
  <2>1. UNCHANGED <<has, current, box, aborted, A, requeue, parked, ahead, pc>> /\ (aborted \/ pc = "off")
    BY <1>7 DEF BackAgain, run, ghosts, Inv, DocPart
  <2>2. \A q \in Boxes : state'[q] = IF state[q] \in Busy THEN "stale" ELSE state[q]
    BY <1>7 DEF BackAgain
  <2>3. \A q \in Boxes : /\ UnderWay(q)' <=> UnderWay(q)
                         /\ state'[q] = "done" => state[q] = "done"
                         /\ WillRead(q)' => WillRead(q)
                         /\ Unsettled(q)' => Unsettled(q)
    BY <2>1, <2>2 DEF UnderWay, WillRead, Unsettled, Busy
  <2>4. CurrentPart'
    BY <2>1, <2>3, Calm
  <2>5. ~aborted => A' = {}
    BY <2>1 DEF Inv, ParkPart
  <2>6. ValuePart'
    BY <1>0, <2>1, <2>3, <2>5, CalmValues
  <2> QED BY <2>4, <2>6
<1>8. CASE Begin
  <2>1. /\ pc = "opening" /\ first \subseteq Boxes /\ A = {} /\ box = None /\ \A q \in Boxes : parked[q] = "no"
        /\ UNCHANGED <<has, current, doc, box, aborted, requeue, parked, ahead>>
        /\ A' = IF doc = "away" THEN {} ELSE ActiveSet(first)
        /\ state' = Marked(state, A', "queued")
    BY <1>0, <1>8 DEF Begin, ghosts, Inv, ParkPart, Types, RunTypes, WaveTypes
  <2>2. CASE doc = "away"
    <3>1. state' = state /\ A' = A
      BY <2>1, <2>2 DEF Marked
    <3> QED BY <1>0, <2>1, <3>1, Still
  <2>3. CASE doc # "away"
    <3>1. \A q \in Boxes : state[q] # "running"
      BY <2>1, <2>3, Bounds DEF Inv, BusyPart
    <3>2. A' = A \cup ActiveSet(first) /\ \A q \in Boxes : state'[q] = IF q \in ActiveSet(first) \ {} THEN "queued" ELSE state[q]
      BY <1>0, <2>1, <2>3, Writes, StateNames
    <3> QED BY <2>1, <2>3, <3>1, <3>2, Joined
  <2> QED BY <2>2, <2>3
<1>9. CASE WallClock \/ RunEnds
  <2>1. PICK how \in {"limited", "done"} : Finish(state, how) /\ UNCHANGED <<has, current, doc, ahead>>
    BY <1>9 DEF WallClock, RunEnds, ghosts
  <2> QED BY <1>0, <2>1, FinishCurrent
<1>10. CASE LoopTop \/ Flushed
  <2>1. CASE \E how \in {"stopped", "limited"} : Finish(state, how) /\ UNCHANGED <<has, current, doc, ahead>>
    BY <1>0, <2>1, FinishCurrent
  <2>2. CASE UNCHANGED <<state, has, current, box, A, requeue, ahead, doc, aborted, parked>>
    BY <1>0, <2>2, Still
  <2> QED BY <1>10, <2>1, <2>2 DEF LoopTop, Flushed, run, ghosts
<1>11. CASE Suspend \/ MinuteOver \/ Ask \/ ClockPasses
  <2>1. UNCHANGED <<state, has, current, box, A, requeue, ahead, doc, aborted, parked>>
    BY <1>11 DEF Suspend, MinuteOver, Ask, ClockPasses, boxes, run, ghosts
  <2> QED BY <1>0, <2>1, Still
<1>12. ASSUME NEW p \in Boxes, Resume(p) PROVE ValuePart' /\ CurrentPart'
  <2>1. /\ Completed(p, parked[p] = "cancel", "waiting") /\ p \in A /\ parked[p] # "no" /\ (parked[p] = "cancel") \in BOOLEAN
        /\ UNCHANGED <<doc, box, aborted>> /\ box = None
    BY <1>0, <1>12 DEF Resume, Settled, Types, RunTypes
  <2> QED BY <2>1, CompletedCurrent
<1>13. ASSUME NEW p \in Boxes, Activate(p) PROVE ValuePart' /\ CurrentPart'
  <2>1. /\ pc = "turn" /\ Ready(p) /\ UNCHANGED <<doc, excused, bounds>> /\ box = None
    BY <1>0, <1>13, NextBox, Bounds DEF Activate, Scans, Types, RunTypes
  <2>2. CASE Skipped(p)
    <3>1. \A q \in Boxes : state'[q] = IF doc # "away" /\ q = p THEN "stale" ELSE state[q]
      BY <1>0, <2>2, Writes, StateNames DEF Skipped
    <3>2. A' = A \ {p} /\ UNCHANGED <<has, current, box, aborted, requeue, parked, ahead>>
      BY <2>2 DEF Skipped
    <3> QED BY <2>1, <3>1, <3>2, DroppedCurrent
  <2>3. CASE TooOften(p)
    BY <1>s, <2>1, <2>3, FinishCurrent DEF TooOften
  <2>4. CASE Refused(p)
    <3>1. Failed(p) /\ UNCHANGED <<current, box, aborted>>
      BY <2>4 DEF Refused
    <3> QED BY <1>0, <2>1, <3>1, FailedLeaves, DroppedCurrent
  <2>5. CASE Started(p)
    BY <2>1, <2>5, StartedCurrent
  <2> QED BY <1>13, <2>2, <2>3, <2>4, <2>5 DEF Activate
<1>14. CASE Returns
  <2>1. PICK bar \in BOOLEAN : Completed(box, bar, "running")
    BY <1>14 DEF Returns
  <2>2. pc \in {"exec", "instant"} /\ box' = None /\ UNCHANGED <<doc, aborted>>
    BY <1>14 DEF Returns
  <2> QED BY <1>b, <2>1, <2>2, CompletedCurrent
<1>15. CASE Throws
  <2>1. pc = "exec" /\ UNCHANGED <<current, doc>>
    BY <1>15 DEF Throws
  <2>2. ASSUME NEW how, Finish([state EXCEPT ![box] = "stale"], how), UNCHANGED <<has, owed, ahead>> PROVE ValuePart' /\ CurrentPart'
    BY <1>b, <1>s, <2>1, <2>2, FinishCurrent
  <2>3. CASE Failed(box) /\ box' = None /\ UNCHANGED aborted
    BY <1>0, <1>b, <2>1, <2>3, FailedLeaves, DroppedCurrent
  <2> QED BY <1>15, <2>2, <2>3 DEF Throws
<1>16. CASE CapReached
  <2>1. ASSUME NEW how, pc = "exec", Finish([state EXCEPT ![box] = "stale"], how), UNCHANGED <<has, current, doc, ahead>> PROVE ValuePart' /\ CurrentPart'
    BY <1>b, <1>s, <2>1, FinishCurrent
  <2> QED BY <1>16, <2>1 DEF CapReached, ghosts
<1> QED BY <1>1, <1>2, <1>3, <1>4, <1>5, <1>6, <1>7, <1>8, <1>9, <1>10, <1>11, <1>12, <1>13, <1>14, <1>15, <1>16
        DEF Next, Person, RunAll, Play, Loop, Back

\* A box that reads `done` was made from what its settings and its inputs are now, in any
\* document, with any loops, but for what Ageing names.
THEOREM DoneIsTrue == Spec => []DoneIsCurrent
<1> DEFINE All == Inv /\ ValuePart /\ CurrentPart
<1>1. Init => All
  BY InitInv, InitCurrent
<1>2. All /\ [Next]_vars => All'
  <2>1. Inv /\ [Next]_vars => Inv'
    BY InvStep
  <2>2. All /\ Inv' /\ Next => All'
    BY StepCurrent
  <2>3. All /\ UNCHANGED vars => All'
    <3> SUFFICES ASSUME All, UNCHANGED vars PROVE ValuePart' /\ CurrentPart'
      BY <2>1
    <3>1. UNCHANGED <<state, has, current, box, A, requeue, ahead, doc, aborted, parked>>
      BY DEF vars, boxes, run, ghosts
    <3> QED BY <3>1, Still DEF Inv
  <2> QED BY <2>1, <2>2, <2>3
<1>3. All => DoneIsCurrent
  BY DEF CurrentPart, WillRead, DoneIsCurrent
<1> QED BY <1>1, <1>2, <1>3, PTL DEF Spec

=============================================================================
