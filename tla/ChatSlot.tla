------------------------------ MODULE ChatSlot ------------------------------
(***************************************************************************)
(* Who may talk to the farm from one chat window: the governor's single    *)
(* foreground slot (net/governor.mjs), the controller's generate()         *)
(* coroutines that stream into it (app/controller.mjs), and the seat wait  *)
(* that keeps it while the farm is full (app/seat-wait.mjs).               *)
(*                                                                         *)
(* The window is one thread of JavaScript: an action is the code from one  *)
(* await to the next, and the interleavings are those of the awaits. A     *)
(* store operation takes effect when it is called (the store runs its      *)
(* operations in call order), its answer is read when the coroutine        *)
(* resumes, so a coroutine may act on an answer that is no longer true.    *)
(*                                                                         *)
(* Abstractions: a message is the one reply of a thread of its own; what   *)
(* the farm says (seats, busy, the end of a stream) and what the reader's  *)
(* window shows is chosen anew whenever the code reads it; texts, painting *)
(* and checkpoints are left out (ChatStore has the checkpoints).           *)
(***************************************************************************)
EXTENDS Integers, FiniteSets

CONSTANTS
    Msgs,            \* reply rows, one per thread
    Continuable,     \* replies the reader may press Continue on
    Calls,           \* generate() coroutines that may be under way at once
    MaxAttempts,     \* MAX_ATTEMPTS: refusals after which the reader decides
    TailOverlap,     \* whether a call may get the slot between the awaits that end another
    None             \* nothing, nobody

ASSUME ChatSlotAssumption ==
    /\ IsFiniteSet(Msgs) /\ IsFiniteSet(Calls)
    /\ Continuable \subseteq Msgs
    /\ MaxAttempts \in Nat \ {0}
    /\ TailOverlap \in BOOLEAN
    /\ None \notin Msgs \cup Calls
    /\ {"send", "none"} \cap Msgs = {} /\ "snap" \notin Calls

VARIABLES
    gov,        \* the governor: [fg, holder]
    background, \* whether an ask runs in the background lane
    thread,     \* thread[m]: "new", "live" or "deleted" in the store
    row,        \* row[m]: m's record is in the store
    status,     \* status[m] of the message object all coroutines share: "settled" is
                \* done, error or aborted
    dead,       \* deadThreads: what the controller knows to be deleted
    active,     \* the call whose generation Stop would abort
    inflight,   \* the call whose settling abortThread() waits for
    call,       \* call[k]: the coroutine k
    wait,       \* the one seat wait, or None
    snap,       \* onSnapshot(): the farm snapshot being handled
    notes,      \* stopWaiting() continuations: rows about to be repainted
    deletion    \* the sidebar's delete: what it is waiting for

vars == <<gov, background, thread, row, status, dead, active, inflight, call,
          wait, snap, notes, deletion>>

Acquired == {"path", "note", "stream", "painting", "observe", "final", "refresh", "failed"}
Tail == {"painting", "observe", "final", "refresh"}

Off == [pc |-> "off", msg |-> None, want |-> "none", into |-> FALSE, cont |-> FALSE,
        there |-> FALSE, gen |-> "none", dead |-> FALSE, tick |-> FALSE]

Quiet == [pc |-> "idle", there |-> FALSE]

\* A seat wait: what the governor was refused for, how often, and who refers to it.
Waits == [msg : Msgs, attempts : 1 .. MaxAttempts, cont : BOOLEAN,
          scheduled : BOOLEAN, resending : BOOLEAN, old : BOOLEAN,
          refs : SUBSET (Calls \cup {"snap"})]

ASSUME NoWaitAssumption == None \notin Waits

TypeOK ==
    /\ gov \in [fg : {"idle", "streaming", "held"}, holder : Msgs \cup {"send", "none"}]
    /\ background \in BOOLEAN
    /\ thread \in [Msgs -> {"new", "live", "deleted"}]
    /\ row \in [Msgs -> BOOLEAN]
    /\ status \in [Msgs -> {"none", "streaming", "waiting", "settled"}]
    /\ dead \subseteq Msgs
    /\ active \in Calls \cup {None}
    /\ inflight \in Calls \cup {None}
    /\ call \in [Calls ->
                   [pc : Acquired \cup {"off", "check", "thread"},
                    msg : Msgs \cup {None}, want : Msgs \cup {"send", "none"},
                    into : BOOLEAN, cont : BOOLEAN,
                    there : BOOLEAN, gen : {"none", "running", "aborted"},
                    dead : BOOLEAN, tick : BOOLEAN]]
    /\ wait \in Waits \cup {None}
    /\ snap \in [pc : {"idle", "check", "resend", "stop"}, there : BOOLEAN]
    /\ notes \subseteq [msg : Msgs, there : BOOLEAN, tick : BOOLEAN]
    /\ deletion \in [pc : {"off", "settle", "gone"}, msg : Msgs \cup {None}, on : Calls \cup {None}]

Init ==
    /\ gov = [fg |-> "idle", holder |-> "none"]
    /\ background = FALSE
    /\ thread = [m \in Msgs |-> "new"]
    /\ row = [m \in Msgs |-> FALSE]
    /\ status = [m \in Msgs |-> "none"]
    /\ dead = {}
    /\ active = None
    /\ inflight = None
    /\ call = [k \in Calls |-> Off]
    /\ wait = None
    /\ snap = Quiet
    /\ notes = {}
    /\ deletion = [pc |-> "off", msg |-> None, on |-> None]

-----------------------------------------------------------------------------
(* The governor, as functions of its state. *)

IdleGov == [fg |-> "idle", holder |-> "none"]

\* acquire('foreground', {holder: want}) is not refused.
CanAcquire(want) ==
    /\ gov.fg # "streaming"
    /\ gov.fg = "held" => gov.holder = want

\* A granted acquire: the slot streams and the background lane is aborted.
Acquire(want) ==
    /\ gov' = [fg |-> "streaming", holder |-> want]
    /\ background' = FALSE

\* The release closure of an acquire for `want`.
ReleaseStream(g, want) ==
    IF g.fg = "streaming" /\ g.holder = want THEN IdleGov ELSE g

\* Mutant: a release with the right name frees a stream too.
ReleaseHold_AnySlot(g, who) == IF g.holder = who THEN IdleGov ELSE g

\* release(who): drops a hold, never a stream.
ReleaseHold(g, who) ==
    IF g.holder = who /\ g.fg # "streaming" THEN IdleGov ELSE g

\* A call that was refused a seat ends in a row of awaits with the slot already
\* released to the hold. Unless TailOverlap, no other call gets the slot meanwhile.
Calm == TailOverlap \/ \A k \in Calls : call[k].pc \notin Tail

-----------------------------------------------------------------------------
(* The end of a coroutine. *)

\* `waiting === w` for the w that coroutine k, or the snapshot, holds on to: the
\* wait knows who refers to it, and a wait armed anew is another object.
Refers(r, w) == w # None /\ r \in w.refs

\* What resend()'s own finally does to the wait it was started for.
WaitAfter(w, k) ==
    IF Refers(k, w) THEN [w EXCEPT !.resending = FALSE, !.refs = @ \ {k}] ELSE w

\* The snapshot that awaited this call goes on to its own end.
SnapAfter(k) == IF call[k].tick THEN Quiet ELSE snap

\* generate() returned before it acquired anything.
ReturnEarly(k) ==
    /\ call' = [call EXCEPT ![k] = Off]
    /\ wait' = WaitAfter(wait, k)
    /\ snap' = SnapAfter(k)

\* Mutant: the wait is dropped, the hold is not.
Abandon_KeepsHold(r) ==
    IF Refers(r, wait)
    THEN UNCHANGED gov /\ wait' = None
    ELSE UNCHANGED <<gov, wait>>

\* abandon(): the row of the wait r refers to is gone, so the wait goes and its hold with it.
Abandon(r) ==
    IF Refers(r, wait)
    THEN gov' = ReleaseHold(gov, wait.msg) /\ wait' = None
    ELSE UNCHANGED <<gov, wait>>

\* STREAM_END as the seat wait hears it: a message that no longer waits has no
\* waiter. The governor g and the wait it leaves.
Ended(m) == wait # None /\ wait.msg = m /\ status[m] # "waiting"

\* generate()'s finally, from governor g and wait w: the slot is handed back, and
\* the promise abortThread() may be awaiting is resolved.
Finally(k, g, w) ==
    /\ active' = None
    /\ gov' = ReleaseStream(g, call[k].want)
    /\ inflight' = None
    /\ deletion' = IF deletion.pc = "settle" /\ deletion.on = inflight
                   THEN [deletion EXCEPT !.on = None] ELSE deletion
    /\ call' = [call EXCEPT ![k] = Off]
    /\ wait' = WaitAfter(w, k)
    /\ snap' = SnapAfter(k)
    /\ UNCHANGED background

\* ... straight after STREAM_END.
FinallyAfterEnd(k) ==
    LET m == call[k].msg IN
    IF Ended(m) THEN Finally(k, ReleaseHold(gov, m), None)
    ELSE Finally(k, gov, wait)

-----------------------------------------------------------------------------
(* generate(), from await to await. *)

\* send(), or a scheduled message: a new reply. getThread() is asked.
Submit(k, m) ==
    /\ call[k] = Off
    /\ status[m] = "none" /\ thread[m] # "deleted"
    /\ \A j \in Calls : call[j].msg # m
    /\ thread' = [thread EXCEPT ![m] = "live"]
    /\ call' = [call EXCEPT ![k] = [Off EXCEPT !.pc = "thread", !.msg = m,
                                               !.want = "send", !.there = TRUE]]
    /\ UNCHANGED <<gov, background, row, status, dead, active, inflight, wait, snap, notes, deletion>>

\* Continue on a settled reply: generate({into, mode: 'continue'}).
Continue(k, m) ==
    /\ m \in Continuable
    /\ call[k] = Off
    /\ status[m] = "settled" /\ row[m] /\ thread[m] = "live"
    /\ call' = [call EXCEPT ![k] = [Off EXCEPT !.pc = "thread", !.msg = m, !.want = "send",
                                               !.into = TRUE, !.cont = TRUE, !.there = TRUE]]
    /\ UNCHANGED <<gov, background, thread, row, status, dead, active, inflight, wait, snap, notes, deletion>>

\* No such thread any more, or the slot is taken.
TurnedAway(k) ==
    /\ call[k].pc = "thread"
    /\ ~call[k].there \/ ~CanAcquire(call[k].want)
    /\ ReturnEarly(k)
    /\ UNCHANGED <<gov, background, thread, row, status, dead, active, inflight, notes, deletion>>

\* The slot is ours. A new reply gets its row; getPath() and the request follow.
Accepted(k) ==
    LET m == call[k].msg IN
    /\ Calm
    /\ call[k].pc = "thread" /\ call[k].there /\ CanAcquire(call[k].want)
    /\ Acquire(call[k].want)
    /\ inflight' = k
    /\ IF call[k].into THEN UNCHANGED <<row, status>>
       ELSE /\ row' = [row EXCEPT ![m] = TRUE]
            /\ status' = [status EXCEPT ![m] = "streaming"]
    /\ call' = [call EXCEPT ![k].pc = "path", ![k].there = FALSE, ![k].into = FALSE]
    /\ UNCHANGED <<thread, dead, active, wait, snap, notes, deletion>>

\* The farm is busy, absent or wants its password: localNote() settles the row
\* with the reason and writes it ...
LocalNote(k) ==
    LET m == call[k].msg IN
    /\ Calm
    /\ call[k].pc = "thread" /\ call[k].there /\ CanAcquire(call[k].want)
    /\ ~(call[k].cont /\ status[m] # "waiting")
    /\ Acquire(call[k].want)
    /\ inflight' = k
    /\ row' = [row EXCEPT ![m] = TRUE]
    /\ status' = [status EXCEPT ![m] = "settled"]
    /\ call' = [call EXCEPT ![k].pc = "note", ![k].there = FALSE, ![k].into = FALSE]
    /\ UNCHANGED <<thread, dead, active, wait, snap, notes, deletion>>

NoteWritten(k) ==
    /\ call[k].pc = "note"
    /\ FinallyAfterEnd(k)
    /\ UNCHANGED <<thread, row, status, dead, notes>>

\* ... or leaves a Continue as it is and says why in a toast. The slot was taken
\* and is free again before anybody else runs.
ContinueDeclined(k) ==
    /\ Calm
    /\ call[k].pc = "thread" /\ call[k].there /\ CanAcquire(call[k].want)
    /\ call[k].cont /\ status[call[k].msg] # "waiting"
    /\ gov' = IdleGov
    /\ background' = FALSE
    /\ active' = None
    /\ inflight' = None
    /\ ReturnEarly(k)
    /\ UNCHANGED <<thread, row, status, dead, notes, deletion>>

\* The request is built: the stream starts, and only now can Stop reach it.
StartGeneration(k) ==
    /\ call[k].pc = "path"
    /\ status' = [status EXCEPT ![call[k].msg] = "streaming"]
    /\ active' = k
    /\ call' = [call EXCEPT ![k].pc = "stream", ![k].gen = "running"]
    /\ UNCHANGED <<gov, background, thread, row, dead, inflight, wait, snap, notes, deletion>>

\* Building the request threw: the row is settled and written, unless the thread
\* is known to be deleted.
PipelineThrows(k) ==
    LET m == call[k].msg IN
    /\ call[k].pc = "path"
    /\ status' = [status EXCEPT ![m] = "settled"]
    /\ row' = [row EXCEPT ![m] = @ \/ m \notin dead]
    /\ call' = [call EXCEPT ![k].pc = "failed"]
    /\ UNCHANGED <<gov, background, thread, dead, active, inflight, wait, snap, notes, deletion>>

FailureWritten(k) ==
    /\ call[k].pc = "failed"
    /\ FinallyAfterEnd(k)
    /\ UNCHANGED <<thread, row, status, dead, notes>>

IsDead(k) == call[k].dead \/ call[k].msg \in dead

\* generation.done for a thread deleted meanwhile: nothing is written.
StreamEndsDead(k) ==
    /\ call[k].pc = "stream"
    /\ IsDead(k)
    /\ Finally(k, gov, wait)
    /\ UNCHANGED <<thread, row, status, dead, notes>>

\* generation.done with an answer, an error or an abort.
StreamEnds(k) ==
    /\ call[k].pc = "stream"
    /\ ~IsDead(k)
    /\ active' = None
    /\ status' = [status EXCEPT ![call[k].msg] = "settled"]
    /\ call' = [call EXCEPT ![k].pc = "observe", ![k].gen = "none", ![k].cont = FALSE]
    /\ UNCHANGED <<gov, background, thread, row, dead, inflight, wait, snap, notes, deletion>>

\* The wait a 429 arms: the same message keeps its start and counts one more.
Armed(k) ==
    LET m == call[k].msg
        again == wait # None /\ wait.msg = m
    IN  [msg |-> m, refs |-> {},
         attempts |-> IF again /\ wait.attempts < MaxAttempts THEN wait.attempts + 1
                      ELSE IF again THEN wait.attempts ELSE 1,
         cont |-> call[k].cont \/ (again /\ wait.cont),
         scheduled |-> FALSE, resending |-> FALSE,
         old |-> again /\ wait.old]

\* generation.done with 429 lol_seats_full: the handler turns the row into the
\* waiting row, holds the slot on it, and repaints.
SeatsFull(k) ==
    LET m == call[k].msg IN
    /\ call[k].pc = "stream" /\ call[k].gen = "running"
    /\ ~IsDead(k)
    /\ active' = None
    /\ wait' = Armed(k)
    /\ status' = [status EXCEPT ![m] = "waiting"]
    /\ gov' = [fg |-> "held", holder |-> m]
    /\ row' = [row EXCEPT ![m] = TRUE]
    /\ call' = [call EXCEPT ![k].pc = "painting", ![k].gen = "none", ![k].cont = FALSE]
    /\ UNCHANGED <<background, thread, dead, inflight, snap, notes, deletion>>

Painted(k) ==
    /\ call[k].pc = "painting"
    /\ call' = [call EXCEPT ![k].pc = "observe"]
    /\ UNCHANGED <<gov, background, thread, row, status, dead, active, inflight, wait, snap, notes, deletion>>

\* Mutant: the last write does not ask whether the thread is deleted.
Observed_WritesAnyway(k) ==
    /\ call[k].pc = "observe"
    /\ row' = [row EXCEPT ![call[k].msg] = TRUE]
    /\ call' = [call EXCEPT ![k].pc = "final"]
    /\ UNCHANGED <<gov, background, thread, status, dead, active, inflight, wait, snap, notes, deletion>>

\* Every observer's onDone was awaited: the row is finalized.
Observed(k) ==
    LET m == call[k].msg IN
    /\ call[k].pc = "observe"
    /\ row' = [row EXCEPT ![m] = @ \/ m \notin dead]
    /\ call' = [call EXCEPT ![k].pc = "final"]
    /\ UNCHANGED <<gov, background, thread, status, dead, active, inflight, wait, snap, notes, deletion>>

\* STREAM_END, then the view is refreshed.
Finalized(k) ==
    LET m == call[k].msg IN
    /\ call[k].pc = "final"
    /\ IF Ended(m) THEN /\ gov' = ReleaseHold(gov, m)
                        /\ wait' = None
       ELSE UNCHANGED <<gov, wait>>
    /\ call' = [call EXCEPT ![k].pc = "refresh"]
    /\ UNCHANGED <<background, thread, row, status, dead, active, inflight, snap, notes, deletion>>

Refreshed(k) ==
    /\ call[k].pc = "refresh"
    /\ Finally(k, gov, wait)
    /\ UNCHANGED <<thread, row, status, dead, notes>>

-----------------------------------------------------------------------------
(* The seat wait. *)

\* The claim that keeps a second resend of the same wait out.
Claimed(w) == [w EXCEPT !.resending = TRUE]

\* resend(): claims the wait before its first await, and asks the store whether
\* the row is still there.
Resend(k, w, there, byTick) ==
    /\ call' = [call EXCEPT ![k] = [Off EXCEPT !.pc = "check", !.msg = w.msg, !.want = w.msg,
                                               !.into = TRUE, !.cont = w.cont,
                                               !.there = there, !.tick = byTick]]
    /\ wait' = [Claimed(w) EXCEPT !.refs = (@ \cup {k}) \ {"snap"}]

\* The button on the waiting row, in a thread the reader can still open.
TryNow(k) ==
    /\ wait # None /\ ~wait.resending
    /\ status[wait.msg] = "waiting" /\ thread[wait.msg] = "live"
    /\ call[k] = Off
    /\ Resend(k, wait, row[wait.msg], FALSE)
    /\ UNCHANGED <<gov, background, thread, row, status, dead, active, inflight, snap, notes, deletion>>

ResendGone(k) ==
    /\ call[k].pc = "check" /\ ~call[k].there
    /\ Abandon(k)
    /\ call' = [call EXCEPT ![k] = Off]
    /\ snap' = SnapAfter(k)
    /\ UNCHANGED <<background, thread, row, status, dead, active, inflight, notes, deletion>>

\* The row is there: generate({into, holder}) begins.
ResendChecked(k) ==
    /\ call[k].pc = "check" /\ call[k].there
    /\ call' = [call EXCEPT ![k].pc = "thread", ![k].there = (thread[call[k].msg] = "live")]
    /\ wait' = IF Refers(k, wait) THEN [wait EXCEPT !.scheduled = FALSE] ELSE wait
    /\ UNCHANGED <<gov, background, thread, row, status, dead, active, inflight, snap, notes, deletion>>

\* A farm snapshot arrives: one pass at a time, the store is asked first.
SnapStart ==
    /\ snap = Quiet
    /\ wait # None /\ ~wait.resending
    /\ snap' = [pc |-> "check", there |-> row[wait.msg]]
    /\ wait' = [wait EXCEPT !.refs = @ \cup {"snap"}]
    /\ UNCHANGED <<gov, background, thread, row, status, dead, active, inflight, call, notes, deletion>>

SnapGone ==
    /\ snap.pc = "check" /\ ~snap.there
    /\ Abandon("snap")
    /\ snap' = Quiet
    /\ UNCHANGED <<background, thread, row, status, dead, active, inflight, call, notes, deletion>>

\* refreshNote() may rewrite the row of a wait that is nobody's resend.
NoteRefreshed ==
    \/ UNCHANGED row
    \/ /\ status[wait.msg] = "waiting"
       /\ row' = [row EXCEPT ![wait.msg] = TRUE]

\* The current wait when onTick() decides; it may not be the one that was checked.
Deciding == snap.pc = "check" /\ snap.there /\ wait # None /\ ~wait.resending

NothingToDecide ==
    /\ snap.pc = "check" /\ snap.there
    /\ wait # None => wait.resending
    /\ snap' = Quiet
    /\ wait' = IF wait = None THEN None ELSE [wait EXCEPT !.refs = @ \ {"snap"}]
    /\ UNCHANGED <<gov, background, thread, row, status, dead, active, inflight, call, notes, deletion>>

\* stopWaiting(): the wait is over, its row says how; before the row is painted
\* the store is asked whether it is still there.
StopWaiting ==
    /\ wait' = None
    /\ status' = [status EXCEPT ![wait.msg] = "settled"]
    /\ gov' = ReleaseHold(gov, wait.msg)

\* Mutant: too many refusals are looked at before the clock.
GiveUpDue_AfterManual(w) == w.old /\ w.attempts < MaxAttempts

\* 'giveup' comes before everything else.
GiveUpDue(w) == w.old

GiveUp ==
    /\ Deciding /\ GiveUpDue(wait)
    /\ NoteRefreshed
    /\ StopWaiting
    /\ notes' = notes \cup {[msg |-> wait.msg, there |-> row'[wait.msg], tick |-> TRUE]}
    /\ snap' = [Quiet EXCEPT !.pc = "stop"]
    /\ UNCHANGED <<background, thread, dead, active, inflight, call, deletion>>

\* 'manual', 'wait' and 'schedule': at most the schedule changes. Whether the
\* seats are known, one is free and somebody is looking is the farm's and the
\* reader's to say.
KeepWaiting ==
    /\ Deciding /\ ~GiveUpDue(wait)
    /\ NoteRefreshed
    /\ \E s \in IF wait.attempts >= MaxAttempts THEN {FALSE} ELSE BOOLEAN :
          wait' = [wait EXCEPT !.scheduled = s, !.refs = @ \ {"snap"}]
    /\ snap' = Quiet
    /\ UNCHANGED <<gov, background, thread, status, dead, active, inflight, call, notes, deletion>>

\* 'resend': a seat is free, and the schedule is due.
SnapResend(k) ==
    /\ Deciding /\ ~GiveUpDue(wait)
    /\ wait.attempts < MaxAttempts /\ wait.scheduled
    /\ call[k] = Off
    /\ NoteRefreshed
    /\ Resend(k, wait, row'[wait.msg], TRUE)
    /\ snap' = [Quiet EXCEPT !.pc = "resend"]
    /\ UNCHANGED <<gov, background, thread, status, dead, active, inflight, notes, deletion>>

\* The row of a stopped wait is repainted, and so written, if it was there.
NoteRepainted(n) ==
    /\ n \in notes
    /\ row' = [row EXCEPT ![n.msg] = @ \/ n.there]
    /\ notes' = notes \ {n}
    /\ snap' = IF n.tick THEN Quiet ELSE snap
    /\ UNCHANGED <<gov, background, thread, status, dead, active, inflight, call, wait, deletion>>

\* Fifteen minutes have gone by since the first refusal.
Age ==
    /\ wait # None /\ ~wait.old
    /\ wait' = [wait EXCEPT !.old = TRUE]
    /\ UNCHANGED <<gov, background, thread, row, status, dead, active, inflight, call, snap, notes, deletion>>

-----------------------------------------------------------------------------
(* The reader: Stop, Cancel, and deleting a thread; and the background lane. *)

\* stop(): a running generation is aborted ...
StopStream ==
    /\ active # None /\ call[active].gen = "running"
    /\ call' = [call EXCEPT ![active].gen = "aborted"]
    /\ UNCHANGED <<gov, background, thread, row, status, dead, active, inflight, wait, snap, notes, deletion>>

\* ... with nothing streaming the wait is cancelled; so does Cancel on its row.
CancelWait ==
    /\ wait # None
    /\ active = None \/ status[wait.msg] = "waiting"
    /\ StopWaiting
    /\ notes' = notes \cup {[msg |-> wait.msg, there |-> row[wait.msg], tick |-> FALSE]}
    /\ UNCHANGED <<background, thread, row, dead, active, inflight, call, snap, deletion>>

\* deleteThread()'s cascade.
DeleteRows(m) ==
    /\ thread' = [thread EXCEPT ![m] = "deleted"]
    /\ row' = [row EXCEPT ![m] = FALSE]
    /\ deletion' = [pc |-> "gone", msg |-> m, on |-> None]

StreamsInto(m) == active # None /\ call[active].msg = m

\* The sidebar deletes a thread nothing streams into, as far as `active` knows.
Delete(m) ==
    /\ deletion.pc = "off" /\ thread[m] = "live" /\ ~StreamsInto(m)
    /\ DeleteRows(m)
    /\ UNCHANGED <<gov, background, status, dead, active, inflight, call, wait, snap, notes>>

\* abortThread(): the stream is aborted and its settling awaited ...
DeleteAborts(m) ==
    /\ deletion.pc = "off" /\ thread[m] = "live" /\ StreamsInto(m)
    /\ call' = [call EXCEPT ![active].gen = "aborted"]
    /\ deletion' = [pc |-> "settle", msg |-> m, on |-> inflight]
    /\ UNCHANGED <<gov, background, thread, row, status, dead, active, inflight, wait, snap, notes>>

\* ... before the cascade.
DeleteSettled ==
    /\ deletion.pc = "settle" /\ deletion.on = None
    /\ DeleteRows(deletion.msg)
    /\ UNCHANGED <<gov, background, status, dead, active, inflight, call, wait, snap, notes>>

\* THREADS_CHANGED{delete} reaches the controller.
DeleteHeard ==
    LET m == deletion.msg IN
    /\ deletion.pc = "gone"
    /\ dead' = dead \cup {m}
    /\ call' = IF StreamsInto(m)
               THEN [call EXCEPT ![active].dead = TRUE, ![active].gen = "aborted"]
               ELSE call
    /\ deletion' = [pc |-> "off", msg |-> None, on |-> None]
    /\ UNCHANGED <<gov, background, thread, row, status, active, inflight, wait, snap, notes>>

\* acquire('background') with a seat to spare, and its release.
AskStarts ==
    /\ gov.fg = "idle" /\ ~background
    /\ background' = TRUE
    /\ UNCHANGED <<gov, thread, row, status, dead, active, inflight, call, wait, snap, notes, deletion>>

AskEnds ==
    /\ background
    /\ background' = FALSE
    /\ UNCHANGED <<gov, thread, row, status, dead, active, inflight, call, wait, snap, notes, deletion>>

-----------------------------------------------------------------------------

\* What the coroutine k does of itself once it has begun.
Run(k) ==
    \/ ResendGone(k) \/ ResendChecked(k)
    \/ TurnedAway(k) \/ Accepted(k) \/ LocalNote(k) \/ ContinueDeclined(k) \/ NoteWritten(k)
    \/ StartGeneration(k) \/ PipelineThrows(k) \/ FailureWritten(k)
    \/ StreamEnds(k) \/ StreamEndsDead(k) \/ SeatsFull(k)
    \/ Painted(k) \/ Observed(k) \/ Finalized(k) \/ Refreshed(k)

SnapStep == SnapGone \/ NothingToDecide \/ GiveUp \/ KeepWaiting \/ \E k \in Calls : SnapResend(k)

Deleting == DeleteSettled \/ DeleteHeard

Next ==
    \/ \E k \in Calls, m \in Msgs : Submit(k, m) \/ Continue(k, m)
    \/ \E k \in Calls : TryNow(k) \/ Run(k)
    \/ SnapStart \/ SnapStep
    \/ \E n \in notes : NoteRepainted(n)
    \/ Age \/ StopStream \/ CancelWait
    \/ \E m \in Msgs : Delete(m) \/ DeleteAborts(m)
    \/ Deleting \/ AskStarts \/ AskEnds

Spec == Init /\ [][Next]_vars

\* Awaits resume, streams end (the farm ends them, or the network layer's own
\* timeouts do), farm snapshots keep coming and the clock goes on. Nothing is
\* asked of the reader.
Fairness ==
    /\ \A k \in Calls : WF_vars(Run(k))
    /\ WF_vars(SnapStart) /\ WF_vars(SnapStep)
    /\ WF_vars(\E n \in notes : NoteRepainted(n))
    /\ WF_vars(Age) /\ WF_vars(Deleting)

LiveSpec == Spec /\ Fairness

-----------------------------------------------------------------------------
(* Safety. *)

Talking == {"path", "note", "stream", "failed"}

\* A coroutine between its acquire() and the end of its stream owns the streaming
\* slot under its own holder: nothing (a cancelled wait, an abandoned one, another
\* coroutine's finally) hands the slot on while it runs. And there is one at most.
SlotOwned ==
    /\ \A k \in Calls : call[k].pc \in Talking => gov = [fg |-> "streaming", holder |-> call[k].want]
    /\ \A j, k \in Calls : call[j].pc \in Talking /\ call[k].pc \in Talking => j = k

\* A held slot and the seat wait agree. The hold has the wait it is held for, so
\* somebody will retry, give up or cancel, and the composer is not refused for
\* ever; and while a row says it waits, the slot is kept in its name, so no later
\* send jumps in front. (Not always as a hold: its own resend streams in its name.)
HoldIsTheWaits ==
    /\ gov.fg = "held" => wait # None /\ wait.msg = gov.holder
    /\ wait # None /\ status[wait.msg] = "waiting" => gov.holder = wait.msg

\* A row of a thread that still exists only says "waiting" while there is a wait
\* behind it: its two buttons do something.
WaitingRowHasWait ==
    \A m \in Msgs :
        status[m] = "waiting" /\ row[m] /\ thread[m] = "live" => wait # None /\ wait.msg = m

\* Snapshots and the button never send the same turn twice.
OneResend == wait # None => Cardinality(wait.refs \ {"snap"}) <= 1

\* What the controller may not do once it knows a thread is deleted: let an
\* answer that was already streaming write the row back.
StreamStaysDeleted ==
    [][\A k \in Calls : /\ call[k].pc \in {"stream", "observe", "failed"} /\ call[k].msg \in dead
                        /\ call'[k] # call[k]
        => row'[call[k].msg] = row[call[k].msg]]_vars

\* The seat wait keeps its three promises at once (and the types hold).
WaitHonest == TypeOK /\ HoldIsTheWaits /\ WaitingRowHasWait /\ OneResend

(* Liveness. *)

\* A hold ends by itself, whatever the farm says and whether or not anybody is
\* looking: a seat is asked for again, or the wait gives up.
HoldEnds == (gov.fg = "held") ~> (gov.fg # "held")

\* A streaming slot is handed back or becomes a hold.
StreamSettles == (gov.fg = "streaming") ~> (gov.fg # "streaming")

\* Deleting a thread always comes to an end, however its stream does.
DeleteEnds == (deletion.pc # "off") ~> (deletion.pc = "off")

\* Nothing hangs: neither the hold, nor the stream, nor a deletion that waits for one.
NothingHangs == HoldEnds /\ StreamSettles /\ DeleteEnds

=============================================================================
