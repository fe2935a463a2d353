------------------------------ MODULE SeatGate ------------------------------
(***************************************************************************)
(* The seat gate of a farm (farm/src/seats.js): the public listener in     *)
(* front of LiteLLM. A caller (one LAN address) takes a seat with its      *)
(* first generation request, keeps it while any of its replies is open,    *)
(* and loses it one idle window after the last one. Every HTTP request is  *)
(* a little machine of its own: the reader's side (res), the model         *)
(* server's side (up), and the releaseOnce closure that ties both to the   *)
(* seat registry. Their events arrive in any order.                        *)
(*                                                                         *)
(* Abstractions: a route is either gated (a generation) or not; the        *)
(* allowlist answers (400, 404) touch no state and are left out. Time is   *)
(* an age per seat, in ticks, that saturates one tick past the longest     *)
(* window: no guard tells two larger ages apart. Retry-After is therefore  *)
(* in ticks too, and a tick is a second of the code. Of the statistics     *)
(* only the peak, and who was counted as having stopped a reply, are kept. *)
(***************************************************************************)
EXTENDS Integers, FiniteSets

CONSTANTS
    Callers,     \* the addresses on the LAN, normalised (normIp)
    Requests,    \* slots for HTTP requests the gate has in hand at once
    Slots,       \* the slot counts the panel may set; 0 is "unknown"
    Windows,     \* the idle windows the panel may set, in ticks
    NoCaller     \* not an address

ASSUME CallersAssumption == IsFiniteSet(Callers) /\ NoCaller \notin Callers
ASSUME RequestsAssumption == IsFiniteSet(Requests)
ASSUME SlotsAssumption == Slots # {} /\ Slots \subseteq Nat
ASSUME WindowsAssumption ==
    /\ Windows # {} /\ Windows \subseteq Nat \ {0}
    /\ \E w \in Windows : \A v \in Windows : v <= w

VARIABLES
    held,        \* the keys of the Map `seats`: the callers that hold a seat
    inFlight,    \* inFlight[c]: open generations counted on c's seat
    age,         \* age[c]: ticks since c's seat was last active
    slots,       \* what the capacity() thunk answers
    window,      \* what windowMs() answers
    locked,      \* a farm password is set
    down,        \* unavailable() answers a sentence
    req,         \* req[r]: the request in slot r
    peak         \* peakSeats of the gate's statistics since start

registry == <<held, inFlight, age>>
settings == <<slots, window, locked, down>>
vars == <<held, inFlight, age, slots, window, locked, down, req, peak>>

LongestWindow == CHOOSE w \in Windows : \A v \in Windows : v <= w
MaxAge == LongestWindow + 1

UpStates == {"asked", "answered", "ended", "failed", "cut", "destroyed"}
ResStates == {"open", "headers", "ended", "destroyed", "closed"}

Request == [caller : Callers \cup {NoCaller}, gated : BOOLEAN, up : UpStates, res : ResStates,
            released : BOOLEAN, upFailed : BOOLEAN, left : BOOLEAN, stopped : BOOLEAN]

Free == [caller |-> NoCaller, gated |-> FALSE, up |-> "ended", res |-> "closed",
         released |-> TRUE, upFailed |-> FALSE, left |-> FALSE, stopped |-> FALSE]

InUse(r) == req[r].caller # NoCaller

\* The requests whose generation is counted on c's seat.
Generating(c) == {r \in Requests : /\ req[r].caller = c
                                   /\ req[r].gated
                                   /\ ~req[r].released}

-----------------------------------------------------------------------------
(* The registry: createSeats. *)

\* Mutant: the idle window is applied to a seat that is generating.
Pruned_ReapsStreams == {c \in held : age[c] <= window}

\* prune(): the seats left once idle ones past the window are deleted.
Pruned == {c \in held : inFlight[c] > 0 \/ age[c] <= window}

Cap == IF slots = 0 THEN 1 ELSE slots

\* Mutant: the most recently active idle seat is taken for the soonest.
NextFree_Latest(S) ==
    LET idle == {c \in S : inFlight[c] = 0}
    IN  IF idle = {} THEN 0
        ELSE LET newest == CHOOSE c \in idle : \A d \in idle : age[d] >= age[c]
             IN  IF window - age[newest] > 1 THEN window - age[newest] ELSE 1

\* nextFreeSec() over a set of seats: ticks until the soonest idle one is past
\* the window; 0 stands for null (every seat is generating).
NextFree(S) ==
    LET idle == {c \in S : inFlight[c] = 0}
    IN  IF idle = {} THEN 0
        ELSE LET oldest == CHOOSE c \in idle : \A d \in idle : age[d] <= age[c]
             IN  IF window - age[oldest] > 1 THEN window - age[oldest] ELSE 1

CanAdmit(c) == c \in Pruned \/ Cardinality(Pruned) < Cap

\* admit(ip) when it answers ok: the seat is new or refreshed.
TakeSeat(c) ==
    /\ held' = Pruned \cup {c}
    /\ inFlight' = [d \in Callers |->
                       IF d = c THEN (IF c \in Pruned THEN inFlight[c] ELSE 0) + 1
                       ELSE IF d \in Pruned THEN inFlight[d] ELSE 0]
    /\ age' = [d \in Callers |-> IF d \in Pruned \ {c} THEN age[d] ELSE 0]

\* prune() alone: the registry after a refusal or a view().
PruneSeats ==
    /\ held' = Pruned
    /\ inFlight' = [d \in Callers |-> IF d \in Pruned THEN inFlight[d] ELSE 0]
    /\ age' = [d \in Callers |-> IF d \in Pruned THEN age[d] ELSE 0]

\* Mutant: the end of one reply hands the seat back.
Release_HandsBack(c) ==
    /\ held' = held \ {c}
    /\ inFlight' = [inFlight EXCEPT ![c] = IF c \in held /\ @ > 0 THEN @ - 1 ELSE @]
    /\ age' = [age EXCEPT ![c] = 0]

\* release(ip)
Release(c) ==
    /\ held' = held
    /\ inFlight' = [inFlight EXCEPT ![c] = IF c \in held /\ @ > 0 THEN @ - 1 ELSE @]
    /\ age' = [age EXCEPT ![c] = IF c \in held THEN 0 ELSE @]

\* seated(): the peak only moves when a generation asks.
Seated(used) == peak' = IF used >= peak THEN used ELSE peak

\* Mutants: every event of a request releases; and with no floor either.
ReleaseOnce_Twice(r) == IF req[r].gated THEN Release(req[r].caller) ELSE UNCHANGED registry

\* releaseOnce(): the closure every request keeps.
ReleaseOnce(r) ==
    IF req[r].gated /\ ~req[r].released THEN Release(req[r].caller)
    ELSE UNCHANGED registry

-----------------------------------------------------------------------------
(* The gate: startSeatGate. *)

Init ==
    /\ held = {}
    /\ inFlight = [c \in Callers |-> 0]
    /\ age = [c \in Callers |-> 0]
    /\ slots \in Slots
    /\ window \in Windows
    /\ locked \in BOOLEAN
    /\ down \in BOOLEAN
    /\ req = [r \in Requests |-> Free]
    /\ peak = 0

Forwarded(c, gated) ==
    [caller |-> c, gated |-> gated, up |-> "asked", res |-> "open",
     released |-> FALSE, upFailed |-> FALSE, left |-> FALSE, stopped |-> FALSE]

\* A generation the gate lets in: right key, engine there, a seat.
Admit(r, c, key) ==
    /\ ~InUse(r)
    /\ locked => key
    /\ ~down
    /\ CanAdmit(c)
    /\ TakeSeat(c)
    /\ Seated(Cardinality(Pruned \cup {c}))
    /\ req' = [req EXCEPT ![r] = Forwarded(c, TRUE)]
    /\ UNCHANGED settings

\* 429: no seat left. prune() has run.
RefuseFull(c, key) ==
    /\ locked => key
    /\ ~down
    /\ ~CanAdmit(c)
    /\ PruneSeats
    /\ Seated(Cardinality(Pruned))
    /\ UNCHANGED <<settings, req>>

\* A catalogue read: forwarded with neither key nor seat.
PassThrough(r, c) ==
    /\ ~InUse(r)
    /\ req' = [req EXCEPT ![r] = Forwarded(c, FALSE)]
    /\ UNCHANGED <<registry, settings, peak>>

Answered(q) == [q EXCEPT !.up = "answered", !.res = "headers"]

\* The model server's answer starts: writeHead and pipe.
UpAnswers(r) ==
    /\ InUse(r)
    /\ req[r].up = "asked"
    /\ req[r].res = "open"
    /\ req' = [req EXCEPT ![r] = Answered(req[r])]
    /\ UNCHANGED <<registry, settings, peak>>

Ended(q) ==
    [q EXCEPT !.up = "ended", !.res = IF q.res = "headers" THEN "ended" ELSE q.res]

\* The answer is complete: pipe ends the response.
UpEnds(r) ==
    /\ InUse(r)
    /\ req[r].up = "answered"
    /\ req' = [req EXCEPT ![r] = Ended(req[r])]
    /\ UNCHANGED <<registry, settings, peak>>

\* Mutant: once the headers went out, an upstream error is only noted.
UpError_OnlyNoted(r) ==
    /\ InUse(r)
    /\ req[r].up \in {"asked", "answered", "destroyed"}
    /\ IF req[r].res = "open" THEN ReleaseOnce(r) ELSE UNCHANGED registry
    /\ req' = [req EXCEPT ![r].up = "failed",
                          ![r].upFailed = TRUE,
                          ![r].released = @ \/ req[r].res = "open",
                          ![r].res = IF @ = "open" THEN "ended" ELSE @]
    /\ UNCHANGED <<settings, peak>>

Failed(q) ==
    [q EXCEPT !.up = "failed",
              !.upFailed = TRUE,
              !.released = TRUE,
              !.res = IF q.res = "open" THEN "ended"
                      ELSE IF q.res = "headers" THEN "destroyed" ELSE q.res]

\* 'error' on the upstream request: refused, reset, or the hang-up that a
\* destroy() of ours raises later.
UpError(r) ==
    /\ InUse(r)
    /\ req[r].up \in {"asked", "answered", "destroyed"}
    /\ ReleaseOnce(r)
    /\ req' = [req EXCEPT ![r] = Failed(req[r])]
    /\ UNCHANGED <<settings, peak>>

Cut(q) == [q EXCEPT !.up = "cut"]

\* The model server closes its socket in the middle of an answer, without a
\* reset: node tells the response object ('aborted'), on which the gate has no
\* listener, and pipe ends nothing.
UpCut(r) ==
    /\ InUse(r)
    /\ req[r].up = "answered"
    /\ req' = [req EXCEPT ![r] = Cut(req[r])]
    /\ UNCHANGED <<registry, settings, peak>>

Closed(q, left) ==
    [q EXCEPT !.res = "closed",
              !.released = TRUE,
              !.stopped = q.res # "ended" /\ q.gated /\ ~q.upFailed,
              !.up = IF q.res # "ended" /\ q.up \in {"asked", "answered"}
                     THEN "destroyed" ELSE q.up,
              !.left = left]

\* 'close' on the response; `left` records that it was the reader's doing.
ResClose(r, left) ==
    /\ ReleaseOnce(r)
    /\ req' = [req EXCEPT ![r] = Closed(req[r], left)]
    /\ UNCHANGED <<settings, peak>>

\* The reader goes: Stop, a closed window, a lost network.
ClientLeaves(r) ==
    /\ InUse(r)
    /\ req[r].res \in {"open", "headers"}
    /\ ResClose(r, TRUE)

\* The response was ended or destroyed by the gate: its socket closes.
ResFinishes(r) ==
    /\ InUse(r)
    /\ req[r].res \in {"ended", "destroyed"}
    /\ ResClose(r, FALSE)

\* Both sides are over: the closures are collected and the slot is free.
Collect(r) ==
    /\ InUse(r)
    /\ req[r].res = "closed"
    /\ req' = [req EXCEPT ![r] = Free]
    /\ UNCHANGED <<registry, settings, peak>>

\* view(): the beacon and the panel read the seats, pruning as they do.
View ==
    /\ PruneSeats
    /\ UNCHANGED <<settings, req, peak>>

Tick ==
    /\ age' = [c \in Callers |-> IF c \in held /\ age[c] < MaxAge THEN age[c] + 1 ELSE age[c]]
    /\ UNCHANGED <<held, inFlight, settings, req, peak>>

\* The panel changes a thunk's answer, or the engine starts and stops.
Configure ==
    /\ \/ slots' \in Slots /\ UNCHANGED <<window, locked, down>>
       \/ window' \in Windows /\ UNCHANGED <<slots, locked, down>>
       \/ locked' \in BOOLEAN /\ UNCHANGED <<slots, window, down>>
       \/ down' \in BOOLEAN /\ UNCHANGED <<slots, window, locked>>
    /\ UNCHANGED <<registry, req, peak>>

RequestEvent(r) ==
    \/ UpAnswers(r)
    \/ UpEnds(r)
    \/ UpError(r)
    \/ UpCut(r)
    \/ ClientLeaves(r)
    \/ ResFinishes(r)
    \/ Collect(r)

Next ==
    \/ \E r \in Requests, c \in Callers, key \in BOOLEAN : Admit(r, c, key)
    \/ \E c \in Callers, key \in BOOLEAN : RefuseFull(c, key)
    \/ \E r \in Requests, c \in Callers : PassThrough(r, c)
    \/ \E r \in Requests : RequestEvent(r)
    \/ View
    \/ Tick
    \/ Configure

Spec == Init /\ [][Next]_vars

\* The model server's socket always comes to an event of its own, a socket the
\* gate ended or destroyed closes, the clock runs and the beacon reads the seats.
\* Nothing makes a reader leave or an operator act.
Fairness ==
    /\ \A r \in Requests : /\ WF_vars(UpAnswers(r) \/ UpError(r))
                           /\ WF_vars(UpEnds(r) \/ UpError(r) \/ UpCut(r))
                           /\ WF_vars(ResFinishes(r))
    /\ WF_vars(Tick)
    /\ WF_vars(View)

FairSpec == Spec /\ Fairness

-----------------------------------------------------------------------------
(* Properties. *)

\* Every variable keeps its shape.
TypeOK ==
    /\ held \subseteq Callers
    /\ inFlight \in [Callers -> Nat]
    /\ age \in [Callers -> 0 .. MaxAge]
    /\ slots \in Slots
    /\ window \in Windows
    /\ locked \in BOOLEAN
    /\ down \in BOOLEAN
    /\ req \in [Requests -> Request]
    /\ peak \in Nat

\* The counter on a seat is the number of its generations that are still open,
\* whatever order the two sockets of each request end in: releaseOnce() never
\* counts a request twice (one idle seat too soon) nor forgets one (a seat that
\* is never given back).
SeatAccounting == \A c \in Callers : inFlight[c] = Cardinality(Generating(c))

\* "Never reap a seat mid-generation, however long it streams" (prune), even when
\* the operator shortens the window or lowers the slots meanwhile.
GeneratingKeepsSeat == \A c \in Callers : Generating(c) # {} => c \in held

\* A new seat is only given while fewer than the current slots are taken, and by a
\* gate whose engine answers. Lowering the slots evicts nobody, so the seats
\* themselves may exceed them.
NewSeatOnlyBelowCap ==
    [][held' \ held # {} => /\ Cardinality(held') <= Cap
                            /\ ~down]_vars

\* The statistics' peak covers every moment, though it is only read when a
\* generation asks.
PeakCoversSeats == Cardinality(held) <= peak

\* A reply counts as stopped by its reader only when the reader did leave: a gate
\* that destroyed the response because the model server failed does not count.
StoppedOnlyByReader == \A r \in Requests : req[r].stopped => req[r].left

\* The Retry-After of a 429 names the tick the soonest idle seat is reclaimed if
\* its holder stays quiet: one tick later it is, one tick earlier none was. No
\* number is given only when every seat is generating.
RetryAfterHonest ==
    \A c \in Callers : ~CanAdmit(c) =>
        LET n == NextFree(Pruned)
            ReclaimedIn(k) == {d \in Pruned : inFlight[d] = 0 /\ age[d] + k > window}
        IN  IF n = 0 THEN \A d \in Pruned : Generating(d) # {}
            ELSE ReclaimedIn(n + 1) # {} /\ ReclaimedIn(n - 1) = {}

\* A generation gives its seat back, however the model server ends it, except
\* when that server closes its socket mid-answer (UpCut): then the reader's
\* leaving is what frees it.
EventuallyReleased ==
    \A r \in Requests : (req[r].gated /\ ~req[r].released)
                          ~> (req[r].released \/ req[r].up = "cut")

\* A caller who stops asking loses the seat in the end.
QuietSeatReclaimed ==
    \A c \in Callers : (<>[](Generating(c) = {})) => []<>(c \notin held)
\* Both: a seat taken, for an answer or by a caller, comes back.
SeatsComeBack == EventuallyReleased /\ QuietSeatReclaimed

\* The gate implements the pool of seats it promises (SeatPool): `seated` is the
\* registry's keys, `busy` the callers with a generation open.
Pool == INSTANCE SeatPool WITH seated <- held,
                               busy <- {c \in Callers : Generating(c) # {}},
                               capacity <- Cap
PoolSpec == Pool!Spec

\* The numbers the gate gives its callers and its owner are true.
NumbersAreTrue == RetryAfterHonest /\ PeakCoversSeats /\ StoppedOnlyByReader
=============================================================================
