---------------------------- MODULE GraphRunner ----------------------------
(* The Computer's run engine (chat/graph/runner.mjs) with what it leans on: the *)
(* active set and the staleness of topo.mjs, the park registry                  *)
(* (parts/control-bus.mjs), the Button's presses (parts/button.mjs) and the     *)
(* host that starts, stops and switches documents (computer/host.mjs).          *)
(*                                                                              *)
(* A run is one coroutine. `pc` is where it stands: each value but "turn" is an *)
(* await, and only there can a person, an answer or the clock come between.     *)
(* Values are not modelled: what matters of them is whether a box has one and   *)
(* whether it was made from what its inputs are now (`current`).                *)
EXTENDS Naturals, FiniteSets, Sequences

CONSTANTS
    Boxes,          \* the parts of one document
    Rank,           \* their topological order over the forward wires
    Wires,          \* the forward wires, pairs <<from, to>>
    Backs,          \* the declared back edges
    Walk,           \* the boxes on the closed walk each back edge completes
    Asking,         \* boxes that ask the farm
    Parking,        \* Dialogs, Confirms, Timers: boxes that wait for an answer
    Manual,         \* Buttons
    Gating,         \* Conditions and Toggles: working boxes that may bar
    Repeats,        \* activations a box asks for by itself (a Timer)
    None,           \* no box
    Cap,            \* generations one run may spend
    MaxIterations,  \* activations of one box in one run
    MaxStarts, MaxPresses, MaxEdits   \* bounds: what the person does

ASSUME RunnerAssumption ==
    /\ None \notin Boxes /\ IsFiniteSet(Boxes)
    /\ Rank \in Seq(Boxes) /\ {Rank[i] : i \in 1..Len(Rank)} = Boxes
    /\ Wires \subseteq Boxes \X Boxes /\ Backs \subseteq Boxes \X Boxes
    /\ \A i, j \in 1..Len(Rank) : <<Rank[i], Rank[j]>> \in Wires => i < j
    /\ Walk \in [Backs -> SUBSET Boxes]
    /\ Asking \subseteq Boxes /\ Parking \subseteq Boxes /\ Manual \subseteq Boxes
    /\ Gating \subseteq Boxes \ (Parking \cup Manual)
    /\ Asking \cap (Parking \cup Manual) = {} /\ Parking \cap Manual = {}
    /\ Repeats \in [Boxes -> Nat \ {0}]
    /\ {Cap, MaxIterations, MaxStarts, MaxPresses, MaxEdits} \subseteq Nat

VARIABLES
    state,     \* the state each box shows
    has,       \* the boxes that hold a value
    current,   \* the boxes whose last reading of settings and inputs is still true
    doc,       \* the open document: "here" the run's, "leaving" it, "away"
    pc,        \* where the run stands
    box,       \* the box whose run() is awaited
    aborted,   \* was Stop pressed on this run?
    late,      \* is maxWallMs over?
    first, S,  \* the seeds of the press that started the run ({}: Run all), and all since
    A,         \* the active set
    parked,    \* `waiting`: each parked activation, and its answer once it settled
    requeue, blocked, executed, iters, spent,
    parks,     \* control-bus: the boxes that show a question
    pressed,   \* button.mjs: presses no activation has spent
    ended,     \* how the last run ended
    owed,      \* boxes whose last press no activation has followed yet
    excused,   \* of these, the presses that met one of the two holes (see PressKept)
    ahead,     \* boxes activated ahead of an input (see DoneIsCurrent)
    starts, presses, edits

boxes == <<state, has, current>>
run == <<first, S, A, requeue, blocked, executed, iters, spent>>
ghosts == <<owed, excused, ahead>>
bounds == <<starts, presses, edits>>
vars == <<boxes, doc, pc, box, aborted, late, run, parked, parks, pressed, ended, ghosts, bounds>>

\* The stretches of the run no other event can interrupt.
InTurn == pc \in {"turn", "instant"}
Live == pc # "off" /\ ~InTurn

States == {"idle", "stale", "queued", "running", "waiting", "done", "error"}
Busy == {"queued", "running", "waiting"}
NoParks == [q \in Boxes |-> "no"]
Settled(q) == parked[q] \in {"ok", "cancel"}
Waiting == {q \in Boxes : parked[q] # "no"}

-----------------------------------------------------------------------------
(* The graph. *)

Into(q) == {x \in Boxes : <<x, q>> \in Wires}

\* The smallest set that holds `from` and is closed under `step`.
Closure(from, step) ==
    {q \in Boxes : \A K \in SUBSET Boxes :
        (from \subseteq K /\ \A e \in step : e[1] \in K => e[2] \in K) => q \in K}

\* What an edit of p makes stale: p and everything after it, around the loops too.
Touched(p) == Closure({p}, Wires \cup Backs)

\* The prologue: ancestors without a value, up to a Button.
UnrunAncestors(seeds) ==
    Closure(seeds, {<<w[2], w[1]>> : w \in {e \in Wires : e[1] \notin has \cup Manual}}) \ seeds

\* The boxes a run, or a press that joins one, has to activate.
ActiveSet(seeds) ==
    IF seeds # {}
    THEN Closure(seeds, Wires) \cup UnrunAncestors(seeds)
    ELSE Closure({q \in Boxes : state[q] \in {"idle", "stale", "error"}}, Wires) \ Manual

\* Every write goes to the open document, and only if it is the run's own.
Marked(st, qs, s) == IF doc = "away" THEN st ELSE [q \in Boxes |-> IF q \in qs THEN s ELSE st[q]]

\* The first queued box nothing upstream of which may still change.
Ready(q) ==
    /\ q \in A /\ state[q] = "queued"
    /\ \A x \in Into(q) \cap A : state[x] \notin Busy
Next1 == IF \E q \in Boxes : Ready(q)
         THEN Rank[CHOOSE i \in 1..Len(Rank) :
                    Ready(Rank[i]) /\ \A j \in 1..(i - 1) : ~Ready(Rank[j])]
         ELSE None

-----------------------------------------------------------------------------
\* A document some of whose boxes ran before, the ones they read among them.
Init ==
    /\ has \in {d \in SUBSET Boxes : \A q \in d : Into(q) \subseteq d}
    /\ state = [q \in Boxes |-> IF q \in has THEN "done" ELSE "idle"] /\ current = has
    /\ doc = "here" /\ pc = "off" /\ box = None /\ aborted = FALSE /\ late = FALSE
    /\ first = {} /\ S = {} /\ A = {} /\ parked = NoParks
    /\ requeue = {} /\ blocked = {} /\ executed = {}
    /\ iters = [q \in Boxes |-> 0] /\ spent = 0
    /\ parks = {} /\ pressed = {} /\ ended = "none"
    /\ owed = {} /\ excused = {} /\ ahead = {}
    /\ starts = 0 /\ presses = 0 /\ edits = 0

\* What a run that ends leaves: boxes it never finished, and its questions withdrawn.
Leftover_Queued(st) == {q \in A \cup Waiting : st[q] = "queued"}
Leftover(st) == {q \in A \cup Waiting : st[q] \in Busy}
Withdrawn_Kept == parks
Withdrawn == parks \ Waiting

\* finish(); and the host forgets the presses the run was started by.
Finish(st, how) ==
    /\ state' = Marked(st, Leftover(st), "stale")
    /\ parks' = Withdrawn /\ parked' = NoParks
    /\ pressed' = pressed \ first
    /\ pc' = "off" /\ box' = None /\ aborted' = FALSE /\ late' = FALSE /\ ended' = how
    /\ first' = {} /\ S' = {} /\ A' = {} /\ requeue' = {} /\ blocked' = {} /\ executed' = {}
    /\ iters' = [q \in Boxes |-> 0] /\ spent' = 0

\* What a barrier at p keeps: what the run's sources and seeds reach without p.
Kept(p) ==
    LET roots == {x \in A : Into(x) \cap A = {}} \cup (S \cap A)
    IN  Closure(roots, {w \in Wires : w[1] # p /\ w[2] \in A})
\* What it cuts: finished work stays, unless it was queued to run again.
Cut(p) == {q \in A \ (Kept(p) \cup {p}) : q \in executed => state[q] = "queued"}

\* What runs again after p: the walks of its back edges, and p when it repeats.
Looped(p) == UNION {Walk[b] : b \in {e \in Backs : e[1] = p}}
Again(p) ==
    {q \in Looped(p) : q \in A /\ (q = p \/ parked[q] = "no")}
        \cup (IF iters[p] < Repeats[p] /\ iters[p] < MaxIterations THEN {p} ELSE {})

\* The box no longer shows the state its activation left it in: an edit came between.
Edited_Unseen(p, was) == FALSE
Edited(p, was) == doc # "away" /\ state[p] # was

\* complete(): an activation of p came back with a value.
Completed(p, bar, was) ==
    LET done == p \notin requeue /\ ~Edited(p, was)
        cut == IF done /\ bar THEN Cut(p) ELSE {}
    IN  /\ executed' = executed \cup {p}
        /\ requeue' = requeue \ {p}
        /\ A' = A \ cut
        /\ parked' = [q \in Boxes |-> IF q \in cut \cup {p} THEN "no" ELSE parked[q]]
        /\ parks' = parks \ {q \in cut : parked[q] # "no"}
        /\ state' = LET own == Marked(state, {p}, IF p \in requeue THEN "queued"
                                               ELSE IF Edited(p, was) THEN "stale" ELSE "done")
                    IN  IF ~done THEN own
                        ELSE IF bar THEN Marked(own, cut, "stale")
                        ELSE Marked(own, Again(p), "queued")
        /\ has' = IF doc = "away" THEN has ELSE has \cup {p}
        /\ current' = IF doc = "away" THEN current ELSE current \ {q \in Boxes : <<p, q>> \in Wires}
        /\ owed' = owed \ cut
        /\ ahead' = IF done /\ ~bar THEN ahead \cup (Looped(p) \cap (Waiting \ {p})) ELSE ahead
        /\ UNCHANGED blocked

\* failPart(): p goes to error, and the run carries on without it.
Failed(p) ==
    /\ state' = Marked(state, {p}, "error")
    /\ blocked' = blocked \cup {p} /\ A' = A \ {p}
    /\ parked' = [parked EXCEPT ![p] = "no"]
    /\ owed' = owed \ {p}
    /\ UNCHANGED <<has, requeue, executed, parks, ahead>>

-----------------------------------------------------------------------------
(* The person: Run all, a press of a box, an answer, an edit, Stop, another     *)
(* document. Between two awaits the run has the thread, so none of these falls  *)
(* in a "turn".                                                                 *)

Open(seeds) ==
    /\ pc = "off" /\ doc = "here" /\ starts < MaxStarts
    /\ starts' = starts + 1
    /\ pc' = "opening" /\ first' = seeds /\ S' = seeds
    /\ pressed' = pressed \cup (seeds \cap Manual)
    /\ owed' = seeds /\ excused' = {} /\ ended' = "none"
    /\ UNCHANGED <<boxes, doc, box, aborted, late, A, requeue, blocked, executed, iters, spent,
                   parked, parks, ahead, presses, edits>>
RunAll == Open({})
Play(p) == Open({p})

\* A press while a run is live joins it (addToRun); before mergeInto is set it
\* joins nothing.
Woken == IF pc = "asleep" THEN "ready" ELSE pc
\* The boxes of a press that run already: they run again when they come back.
Later_None(add) == {}
Later(add) == {q \in add : parked[q] # "no" \/ state[q] = "running"}
Press(p) ==
    /\ Live /\ doc = "here" /\ ~aborted /\ presses < MaxPresses
    /\ presses' = presses + 1
    /\ pressed' = pressed \cup ({p} \cap Manual)
    /\ owed' = owed \cup {p}
    /\ IF pc = "opening"
       THEN /\ excused' = excused \cup {p}
            /\ UNCHANGED <<state, S, A, blocked, requeue, pc>>
       ELSE LET add == ActiveSet({p})
                later == Later(add)
            IN  /\ S' = S \cup {p} /\ A' = A \cup add
                /\ requeue' = requeue \cup later
                /\ blocked' = blocked \ (add \ later)
                /\ state' = Marked(state, add \ later, "queued")
                /\ pc' = Woken
                /\ excused' = IF p = box /\ state[p] # "running" THEN excused \cup {p}
                              ELSE excused \ {p}
    /\ UNCHANGED <<has, current, doc, box, aborted, late, first, executed, iters, spent,
                   parked, parks, ended, ahead, starts, edits>>

\* OK or Cancel on a box, a Dialog's Send, a Timer's own timeout.
Answer(p, a) ==
    /\ p \in parks /\ ~InTurn
    /\ parks' = parks \ {p}
    /\ parked' = IF parked[p] = "asked" THEN [parked EXCEPT ![p] = a] ELSE parked
    /\ pc' = Woken
    /\ UNCHANGED <<boxes, doc, box, aborted, late, run, pressed, ended, ghosts, bounds>>

\* setSettings(): the box and everything downstream go stale, running or not.
Edit(p) ==
    /\ doc = "here" /\ ~InTurn /\ edits < MaxEdits
    /\ edits' = edits + 1
    /\ state' = Marked(state, Touched(p), "stale")
    /\ current' = current \ {p}
    /\ owed' = owed \ {q \in Touched(p) : state[q] = "queued"}
    /\ UNCHANGED <<has, doc, pc, box, aborted, late, run, parked, parks, pressed, ended,
                   excused, ahead, starts, presses>>

\* stop(): abort the request in flight and cancel every park.
Cancelled ==
    /\ aborted' = (pc # "off")
    /\ parks' = {}
    /\ parked' = [q \in Boxes |-> IF q \in parks /\ parked[q] = "asked" THEN "cancel" ELSE parked[q]]
    /\ pc' = Woken
Stop ==
    /\ Live /\ ~aborted /\ Cancelled
    /\ UNCHANGED <<boxes, doc, box, late, run, pressed, ended, ghosts, bounds>>

\* openDoc() stops the run and forgets the presses; the other document replaces
\* this one an await later, and comes back with nothing in flight (normaliseDoc).
OpenOther ==
    /\ doc = "here" /\ Live /\ Cancelled
    /\ doc' = "leaving" /\ pressed' = {}
    /\ UNCHANGED <<boxes, box, late, run, ended, ghosts, bounds>>
Replaced ==
    /\ doc = "leaving" /\ ~InTurn /\ doc' = "away"
    /\ UNCHANGED <<boxes, pc, box, aborted, late, run, parked, parks, pressed, ended, ghosts, bounds>>
BackAgain ==
    /\ doc = "away" /\ ~InTurn /\ doc' = "here"
    /\ state' = [q \in Boxes |-> IF state[q] \in Busy THEN "stale" ELSE state[q]]
    /\ UNCHANGED <<has, current, pc, box, aborted, late, run, parked, parks, pressed, ended,
                   ghosts, bounds>>

\* maxWallMs passes, parked time included.
ClockPasses_Unparked ==
    /\ pc \notin {"off", "asleep"} /\ ~late /\ late' = TRUE
    /\ UNCHANGED <<boxes, doc, pc, box, aborted, run, parked, parks, pressed, ended, ghosts, bounds>>
ClockPasses ==
    /\ pc # "off" /\ ~late /\ late' = TRUE
    /\ UNCHANGED <<boxes, doc, pc, box, aborted, run, parked, parks, pressed, ended, ghosts, bounds>>

-----------------------------------------------------------------------------
(* The run. *)

\* The cap and the think box are read: the active set is queued, the door for
\* presses opens.
Begin ==
    /\ pc = "opening" /\ pc' = "ready"
    /\ A' = IF doc = "away" THEN {} ELSE ActiveSet(first)
    /\ state' = Marked(state, A', "queued")
    /\ UNCHANGED <<has, current, doc, box, aborted, late, first, S, requeue, blocked, executed,
                   iters, spent, parked, parks, pressed, ended, ghosts, bounds>>

LoopTop ==
    /\ pc = "ready"
    /\ IF aborted
       THEN Finish(state, "stopped")
       ELSE /\ pc' = "turn"
            /\ UNCHANGED <<state, box, aborted, late, run, parked, parks, pressed, ended>>
    /\ UNCHANGED <<has, current, doc, ghosts, bounds>>

\* Parks that settled finish first. (One a barrier took has left `waiting` with A.)
Resume(p) ==
    /\ pc = "turn" /\ Settled(p) /\ p \in A
    /\ Completed(p, parked[p] = "cancel", "waiting")
    /\ UNCHANGED <<doc, pc, box, aborted, late, first, S, iters, spent, pressed, ended, excused, bounds>>

Scans == pc = "turn" /\ \A q \in Boxes : ~Settled(q)

WallClock ==
    /\ Scans /\ late /\ Finish(state, "limited")
    /\ UNCHANGED <<has, current, doc, ghosts, bounds>>

\* execute(), up to its first await. A Button and a box that parks get there and
\* back without one.
Held(p) == Into(p) \cap blocked # {} \/ \E x \in Into(p) : x \in Manual \ (A \cup has)
Skipped(p) ==
    /\ Held(p)
    /\ blocked' = blocked \cup {p} /\ A' = A \ {p}
    /\ state' = Marked(state, {p}, "stale") /\ owed' = owed \ {p} /\ pc' = "ready"
    /\ UNCHANGED <<has, current, box, aborted, late, first, S, requeue, executed, iters, spent,
                   parked, parks, pressed, ended, ahead>>
TooOften(p) ==
    /\ ~Held(p) /\ iters[p] >= MaxIterations
    /\ Finish([state EXCEPT ![p] = "stale"], "limited")
    /\ UNCHANGED <<has, current, owed, ahead>>
\* gather() and planFan(): an input is missing (a port nothing is wired to, too),
\* of the wrong kind, or two of them are lists. (For a box that asks: see Throws.)
Refused(p) ==
    /\ ~Held(p) /\ iters[p] < MaxIterations
    /\ p \in Manual \cup Asking => ~(Into(p) \subseteq has)
    /\ Failed(p) /\ pc' = "ready"
    /\ UNCHANGED <<current, box, aborted, late, first, S, iters, spent, pressed, ended>>
Started(p) ==
    /\ ~Held(p) /\ iters[p] < MaxIterations /\ Into(p) \subseteq has
    /\ iters' = [iters EXCEPT ![p] = @ + 1]
    /\ current' = IF doc = "away" THEN current ELSE current \cup {p}
    /\ owed' = owed \ {p}
    /\ ahead' = IF Into(p) \cap Waiting # {} THEN ahead \cup {p} ELSE ahead \ {p}
    /\ IF p \in Parking
       THEN /\ state' = Marked(state, {p}, "waiting")
            /\ parked' = [parked EXCEPT ![p] = "asked"] /\ parks' = parks \cup {p}
            /\ pc' = "ready" /\ UNCHANGED box
       ELSE /\ state' = Marked(state, {p}, "running")
            /\ box' = p /\ pc' = IF p \in Manual THEN "instant" ELSE "exec"
            /\ UNCHANGED <<parked, parks>>
    /\ UNCHANGED <<has, aborted, late, first, S, A, requeue, blocked, executed, spent, pressed, ended>>
Activate(p) ==
    /\ Scans /\ ~late /\ p = Next1
    /\ Skipped(p) \/ TooOften(p) \/ Refused(p) \/ Started(p)
    /\ UNCHANGED <<doc, excused, bounds>>

Ask ==
    /\ pc = "exec" /\ box \in Asking /\ spent < Cap
    /\ spent' = spent + 1
    /\ UNCHANGED <<boxes, doc, pc, box, aborted, late, first, S, A, requeue, blocked, executed,
                   iters, parked, parks, pressed, ended, ghosts, bounds>>
CapReached ==
    /\ pc = "exec" /\ box \in Asking /\ spent >= Cap
    /\ Finish([state EXCEPT ![box] = "stale"], IF aborted THEN "stopped" ELSE "capped")
    /\ UNCHANGED <<has, current, doc, ghosts, bounds>>

\* A box comes back with a value; a Button bars the wave nobody pressed it for.
Returns ==
    /\ pc \in {"exec", "instant"} /\ pc' = "ready" /\ box' = None
    /\ \E bar \in (IF box \in Manual THEN {Into(box) # {} /\ box \notin pressed}
                   ELSE IF box \in Gating THEN BOOLEAN ELSE {FALSE}) :
           Completed(box, bar, "running")
    /\ pressed' = pressed \ {box}
    /\ UNCHANGED <<doc, aborted, late, first, S, iters, spent, ended, excused, bounds>>

\* Or it throws: because of Stop, because a person took the farm, or by itself.
Throws ==
    /\ pc = "exec"
    /\ \/ /\ aborted \/ box \in Asking
          /\ Finish([state EXCEPT ![box] = "stale"], IF aborted THEN "stopped" ELSE "yielded")
          /\ UNCHANGED <<has, owed, ahead>>
       \/ /\ ~aborted /\ Failed(box) /\ pc' = "ready" /\ box' = None
          /\ UNCHANGED <<aborted, late, first, S, iters, spent, pressed, ended>>
    /\ UNCHANGED <<current, doc, excused, bounds>>

\* Nothing can start and a box still waits: the journal is written, then the run
\* sleeps until it is woken, a minute at most.
Suspend ==
    /\ Scans /\ ~late /\ Next1 = None /\ Waiting # {} /\ pc' = "flush"
    /\ UNCHANGED <<boxes, doc, box, aborted, late, run, parked, parks, pressed, ended, ghosts, bounds>>
Flushed ==
    /\ pc = "flush"
    /\ IF late
       THEN Finish(state, "limited")
       ELSE /\ pc' = "asleep"
            /\ UNCHANGED <<state, box, aborted, late, run, parked, parks, pressed, ended>>
    /\ UNCHANGED <<has, current, doc, ghosts, bounds>>
MinuteOver ==
    /\ pc = "asleep" /\ pc' = "ready"
    /\ UNCHANGED <<boxes, doc, box, aborted, late, run, parked, parks, pressed, ended, ghosts, bounds>>

RunEnds ==
    /\ Scans /\ ~late /\ Next1 = None /\ Waiting = {} /\ Finish(state, "done")
    /\ UNCHANGED <<has, current, doc, ghosts, bounds>>

-----------------------------------------------------------------------------
Person == \/ RunAll \/ Stop \/ OpenOther \/ Replaced \/ BackAgain
          \/ \E p \in Boxes : Play(p) \/ Press(p) \/ Edit(p) \/ \E a \in {"ok", "cancel"} : Answer(p, a)
Loop == \/ Begin \/ LoopTop \/ WallClock \/ Suspend \/ Flushed \/ MinuteOver \/ RunEnds
        \/ \E p \in Boxes : Resume(p) \/ Activate(p)
Back == Returns \/ Throws \/ CapReached
Next == Person \/ Loop \/ Back \/ Ask \/ ClockPasses

Spec == Init /\ [][Next]_vars
\* The runtime serves the run's own awaits, a box comes back (asks have their
\* own timeouts), and the wall clock runs.
LiveSpec == Spec /\ WF_vars(Loop \/ Back) /\ WF_vars(ClockPasses)

-----------------------------------------------------------------------------
TypeOK ==
    /\ state \in [Boxes -> States] /\ has \subseteq Boxes /\ current \subseteq Boxes
    /\ doc \in {"here", "leaving", "away"}
    /\ pc \in {"off", "opening", "ready", "turn", "instant", "exec", "flush", "asleep"}
    /\ box \in Boxes \cup {None} /\ (box = None <=> pc \notin {"exec", "instant"})
    /\ aborted \in BOOLEAN /\ late \in BOOLEAN
    /\ first \subseteq S /\ S \subseteq Boxes /\ A \subseteq Boxes
    /\ parked \in [Boxes -> {"no", "asked", "ok", "cancel"}]
    /\ requeue \subseteq Boxes /\ blocked \subseteq Boxes /\ executed \subseteq Boxes
    /\ iters \in [Boxes -> 0..MaxIterations] /\ spent \in 0..Cap
    /\ parks \subseteq Boxes /\ pressed \subseteq Manual
    /\ ended \in {"none", "done", "stopped", "yielded", "capped", "limited"}
    /\ owed \subseteq Boxes /\ excused \subseteq Boxes /\ ahead \subseteq Boxes
    /\ starts \in 0..MaxStarts /\ presses \in 0..MaxPresses /\ edits \in 0..MaxEdits

\* No run, no spinner and no question: when no run is live, no box of the open
\* document says it is queued, running or waiting, and no park asks for an answer
\* nobody awaits (finish(), runner.mjs). The types are part of it.
QuietWhenIdle ==
    /\ TypeOK
    /\ pc = "off" => /\ doc = "here" => \A q \in Boxes : state[q] \notin Busy
                     /\ parks = {} /\ Waiting = {}

\* A question on a box is the question of a live run: what is parked in the
\* registry is awaited by this run, and its box is in the active set.
NoGhostPark == parks \subseteq {q \in A : parked[q] = "asked"}

\* A box that reads `done` was made from what its settings and its inputs are now,
\* whatever was edited, pressed or stopped while it ran. A box that hangs off a
\* loop without being on it keeps what an earlier iteration gave it, and a Button
\* keeps what it was last pressed with. The one hole is a box that was activated
\* ahead of an input: an edit of a parked box takes it out of `waiting`, so that a
\* press starts what comes after it at once, and its own answer comes later; and a
\* loop that goes round does not queue the boxes of its walk that are parked.
OffLoop(q) == \E b \in Backs : q \notin Walk[b] /\ Into(q) \cap Walk[b] # {}
Ageing(q) == OffLoop(q) \/ q \in Manual \/ q \in ahead
DoneIsCurrent ==
    doc = "here" => \A q \in Boxes : state[q] = "done" => q \in current \/ Ageing(q)

\* A press that joined a run is not forgotten: until an activation follows it, its
\* box is queued or will queue itself when it comes back. Two presses are not
\* kept: one made while the cap is still being read, and one on a box edited
\* since it started.
PressKept ==
    /\ pc \notin {"off", "opening"} /\ ~aborted /\ doc = "here" =>
           \A q \in owed \ excused : q \in requeue \/ state[q] = "queued"
    /\ ended = "done" /\ pc = "off" => owed \subseteq excused

\* Every run ends: what is asked is answered, or the wall clock stops it.
RunTerminates == pc # "off" ~> pc = "off"
=============================================================================
