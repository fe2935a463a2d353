-------------------------- MODULE FarmDoors_proofs --------------------------
(***************************************************************************)
(* Proofs about the farm's two doors.                                      *)
(*                                                                         *)
(* The seat gate, for any number of callers and requests and any settings: *)
(* the accounting of seats against open generations, that a generating     *)
(* seat is never reclaimed, that a new seat is only given below the        *)
(* capacity, that the numbers the gate gives its readers and its owner are *)
(* true, and that it implements the pool of seats.                         *)
(*                                                                         *)
(* The message bus and the service that runs it, for any number of         *)
(* connections, client ids, passwords and processes.                       *)
(***************************************************************************)
EXTENDS SeatGate, FarmBus, FiniteSetTheorems, WellFoundedInduction, TLAPS

LEMMA MaxAgeType == LongestWindow \in Nat /\ MaxAge \in Nat /\ MaxAge > 0
<1>1. LongestWindow \in Windows
  BY WindowsAssumption, Zenon DEF LongestWindow
<1> QED
  BY <1>1, WindowsAssumption DEF MaxAge

LEMMA CapType == TypeOK => Cap \in Nat \ {0}
  BY SlotsAssumption DEF TypeOK, Cap

LEMMA GeneratingFinite == \A c : IsFiniteSet(Generating(c)) /\ Cardinality(Generating(c)) \in Nat
  BY RequestsAssumption, FS_Subset, FS_CardinalityType DEF Generating

LEMMA InUseCaller ==
    ASSUME TypeOK, NEW r \in Requests, InUse(r)
    PROVE  req[r].caller \in Callers
  BY DEF TypeOK, Request, InUse

-----------------------------------------------------------------------------
(* Type correctness. *)

LEMMA ReleaseType ==
    ASSUME TypeOK, NEW c \in Callers, Release(c)
    PROVE  /\ held' \subseteq Callers
           /\ inFlight' \in [Callers -> Nat]
           /\ age' \in [Callers -> 0 .. MaxAge]
<1>1. inFlight' \in [Callers -> Nat]
  BY DEF TypeOK, Release
<1>2. age' \in [Callers -> 0 .. MaxAge]
  BY MaxAgeType DEF TypeOK, Release
<1> QED
  BY <1>1, <1>2 DEF TypeOK, Release

LEMMA ReleaseOnceType ==
    ASSUME TypeOK, NEW r \in Requests, InUse(r), ReleaseOnce(r)
    PROVE  /\ held' \subseteq Callers
           /\ inFlight' \in [Callers -> Nat]
           /\ age' \in [Callers -> 0 .. MaxAge]
<1>1. CASE req[r].gated /\ ~req[r].released
  BY <1>1, InUseCaller, ReleaseType DEF ReleaseOnce
<1>2. CASE ~(req[r].gated /\ ~req[r].released)
  BY <1>2 DEF ReleaseOnce, registry, TypeOK
<1> QED
  BY <1>1, <1>2

LEMMA PruneSeatsType ==
    ASSUME TypeOK, PruneSeats
    PROVE  /\ held' \subseteq Callers
           /\ inFlight' \in [Callers -> Nat]
           /\ age' \in [Callers -> 0 .. MaxAge]
  BY MaxAgeType DEF TypeOK, PruneSeats, Pruned

LEMMA TakeSeatType ==
    ASSUME TypeOK, NEW c \in Callers, TakeSeat(c)
    PROVE  /\ held' \subseteq Callers
           /\ inFlight' \in [Callers -> Nat]
           /\ age' \in [Callers -> 0 .. MaxAge]
<1>1. inFlight' \in [Callers -> Nat]
  BY DEF TypeOK, TakeSeat, Pruned
<1>2. age' \in [Callers -> 0 .. MaxAge]
  BY MaxAgeType DEF TypeOK, TakeSeat, Pruned
<1> QED
  BY <1>1, <1>2 DEF TypeOK, TakeSeat, Pruned

LEMMA PrunedCount ==
    ASSUME TypeOK, NEW S, S \subseteq Callers
    PROVE  Cardinality(S) \in Nat
  BY CallersAssumption, FS_Subset, FS_CardinalityType

LEMMA RequestSteps ==
    /\ Free \in Request
    /\ \A c \in Callers, gated \in BOOLEAN : Forwarded(c, gated) \in Request
    /\ \A q \in Request : /\ Answered(q) \in Request
                          /\ Ended(q) \in Request
                          /\ Failed(q) \in Request
                          /\ Cut(q) \in Request
    /\ \A q \in Request, left \in BOOLEAN : Closed(q, left) \in Request
<1>1. Free \in Request /\ \A c \in Callers, gated \in BOOLEAN : Forwarded(c, gated) \in Request
  BY DEF Free, Forwarded, Request, UpStates, ResStates
<1>2. \A q \in Request : Answered(q) \in Request /\ Cut(q) \in Request
  BY DEF Answered, Cut, Request, UpStates, ResStates
<1>3. \A q \in Request : Ended(q) \in Request /\ Failed(q) \in Request
  BY ZenonT(60) DEF Ended, Failed, Request, UpStates, ResStates
<1>4. ASSUME NEW q \in Request, NEW left \in BOOLEAN
      PROVE  Closed(q, left) \in Request
  <2> DEFINE stopped == q.res # "ended" /\ q.gated /\ ~q.upFailed
             conn == IF q.res # "ended" /\ q.up \in {"asked", "answered"}
                   THEN "destroyed" ELSE q.up
  <2>1. stopped \in BOOLEAN
    OBVIOUS
  <2>2. conn \in UpStates
    BY DEF Request, UpStates
  <2>3. Closed(q, left) = [q EXCEPT !.res = "closed", !.released = TRUE,
                                    !.stopped = stopped, !.up = conn, !.left = left]
    BY Zenon DEF Closed
  <2> HIDE DEF stopped, conn
  <2> QED
    BY <2>1, <2>2, <2>3 DEF Request, ResStates
<1> QED
  BY <1>1, <1>2, <1>3, <1>4

\* The fields of a request that its own events leave alone.
Same(p, q) == p.caller = q.caller /\ p.gated = q.gated /\ p.released = q.released

LEMMA RequestFields ==
    ASSUME NEW q \in Request
    PROVE  /\ Same(Answered(q), q) /\ Answered(q).res # "closed"
           /\ Same(Ended(q), q) /\ (Ended(q).res = "closed" => q.res = "closed")
           /\ Same(Cut(q), q) /\ Cut(q).res = q.res
           /\ Failed(q).caller = q.caller /\ Failed(q).released = TRUE
           /\ \A left \in BOOLEAN : /\ Closed(q, left).caller = q.caller
                                    /\ Closed(q, left).released = TRUE
<1>1. Same(Answered(q), q) /\ Answered(q).res # "closed"
  BY DEF Same, Answered, Request
<1>2. Same(Ended(q), q) /\ (Ended(q).res = "closed" => q.res = "closed")
  BY DEF Same, Ended, Request
<1>3. Same(Cut(q), q) /\ Cut(q).res = q.res
  BY DEF Same, Cut, Request
<1>4. Failed(q).caller = q.caller /\ Failed(q).released = TRUE
  BY DEF Failed, Request
<1>5. ASSUME NEW left \in BOOLEAN
      PROVE  Closed(q, left).caller = q.caller /\ Closed(q, left).released = TRUE
  BY DEF Closed, Request
<1> QED
  BY <1>1, <1>2, <1>3, <1>4, <1>5

LEMMA InitType == Init => TypeOK
  BY RequestSteps, MaxAgeType DEF Init, TypeOK

LEMMA NextType == TypeOK /\ [Next]_vars => TypeOK'
<1> SUFFICES ASSUME TypeOK, [Next]_vars PROVE TypeOK'
  OBVIOUS
<1>1. ASSUME NEW r \in Requests, NEW c \in Callers, NEW key \in BOOLEAN, Admit(r, c, key)
      PROVE  TypeOK'
  <2>2. req' \in [Requests -> Request]
    BY <1>1, RequestSteps DEF Admit, TypeOK
  <2>3. peak' \in Nat
    BY <1>1, PrunedCount, Pruned \cup {c} \subseteq Callers DEF Admit, Seated, TypeOK, Pruned
  <2> QED
    BY <1>1, <2>2, <2>3, TakeSeatType DEF Admit, settings, TypeOK
<1>2. ASSUME NEW c \in Callers, NEW key \in BOOLEAN, RefuseFull(c, key)
      PROVE  TypeOK'
  <2>1. peak' \in Nat
    BY <1>2, PrunedCount, Pruned \subseteq Callers DEF RefuseFull, Seated, TypeOK, Pruned
  <2> QED
    BY <1>2, <2>1, PruneSeatsType DEF RefuseFull, settings, TypeOK
<1>3. ASSUME NEW r \in Requests, NEW c \in Callers, PassThrough(r, c)
      PROVE  TypeOK'
    BY <1>3, RequestSteps DEF PassThrough, registry, settings, TypeOK
<1>4. ASSUME NEW r \in Requests, RequestEvent(r)
      PROVE  TypeOK'
  <2>1. req[r] \in Request
    BY DEF TypeOK
  <2>2. CASE UpAnswers(r)
    BY <2>1, <2>2, RequestSteps DEF UpAnswers, registry, settings, TypeOK
  <2>3. CASE UpEnds(r)
    BY <2>1, <2>3, RequestSteps DEF UpEnds, registry, settings, TypeOK
  <2>4. CASE UpError(r)
    BY <2>1, <2>4, RequestSteps, ReleaseOnceType DEF UpError, settings, TypeOK
  <2>5. CASE UpCut(r)
    BY <2>1, <2>5, RequestSteps DEF UpCut, registry, settings, TypeOK
  <2>6. ASSUME NEW left \in BOOLEAN, InUse(r), ResClose(r, left)
        PROVE  TypeOK'
    BY <2>1, <2>6, RequestSteps, ReleaseOnceType DEF ResClose, settings, TypeOK
  <2>7. CASE ClientLeaves(r)
    BY <2>6, <2>7 DEF ClientLeaves
  <2>8. CASE ResFinishes(r)
    BY <2>6, <2>8 DEF ResFinishes
  <2>9. CASE Collect(r)
    BY <2>9, RequestSteps DEF Collect, registry, settings, TypeOK
  <2> QED
    BY <1>4, <2>2, <2>3, <2>4, <2>5, <2>7, <2>8, <2>9 DEF RequestEvent
<1>5. CASE View
  BY <1>5, PruneSeatsType DEF View, settings, TypeOK
<1>6. CASE Tick
  BY <1>6, MaxAgeType DEF Tick, settings, TypeOK
<1>7. CASE Configure
  BY <1>7 DEF Configure, registry, TypeOK
<1>8. CASE UNCHANGED vars
  BY <1>8 DEF vars, TypeOK
<1> QED
  BY <1>1, <1>2, <1>3, <1>4, <1>5, <1>6, <1>7, <1>8 DEF Next

\* The gate's state keeps its shape, for every number of callers and requests.
THEOREM TypeCorrect == Spec => []TypeOK
  BY InitType, NextType, PTL DEF Spec

-----------------------------------------------------------------------------
(* The accounting of seats. It is inductive once it is said that a caller   *)
(* without a seat counts nothing, which is what a fresh entry of the Map    *)
(* starts from, and that a closed response has been released, without which *)
(* collecting its closures would lose a count.                              *)

Unseated == \A c \in Callers \ held : inFlight[c] = 0

Settled == \A r \in Requests : req[r].res = "closed" => req[r].released

IInv == TypeOK /\ SeatAccounting /\ Unseated /\ Settled

Counts(q, c) == q.caller = c /\ q.gated /\ ~q.released

\* What one request's step does to the set of generations counted on a seat.
LEMMA GeneratingUpdate ==
    ASSUME TypeOK, NEW r \in Requests, NEW q \in Request, NEW c \in Callers,
           req' = [req EXCEPT ![r] = q]
    PROVE  Generating(c)' = IF Counts(q, c) THEN Generating(c) \cup {r}
                                            ELSE Generating(c) \ {r}
  BY DEF TypeOK, Generating, Counts

\* A step that keeps caller, gate and release of its request changes no count.
LEMMA GeneratingKept ==
    ASSUME TypeOK, NEW r \in Requests, NEW q \in Request, NEW c \in Callers,
           req' = [req EXCEPT ![r] = q], Same(q, req[r])
    PROVE  Generating(c)' = Generating(c)
<1>1. Counts(q, c) <=> r \in Generating(c)
  BY Zenon DEF Counts, Generating, Same
<1>2. CASE Counts(q, c)
  <2>1. Generating(c)' = Generating(c) \cup {r}
    BY <1>2, GeneratingUpdate
  <2> QED
    BY <1>1, <1>2, <2>1
<1>3. CASE ~Counts(q, c)
  <2>1. Generating(c)' = Generating(c) \ {r}
    BY <1>3, GeneratingUpdate
  <2> QED
    BY <1>1, <1>3, <2>1
<1> QED
  BY <1>2, <1>3

LEMMA ReleaseAccounting ==
    ASSUME IInv, NEW r \in Requests, InUse(r), ReleaseOnce(r),
           NEW q \in Request, req' = [req EXCEPT ![r] = q],
           q.caller = req[r].caller, q.released = TRUE
    PROVE  SeatAccounting' /\ Unseated'
<1> DEFINE d == req[r].caller
<1>1. d \in Callers
  BY InUseCaller DEF IInv
<1>2. \A c \in Callers : Generating(c)' = Generating(c) \ {r}
  BY GeneratingUpdate, Zenon DEF IInv, Counts
<1>3. \A c \in Callers \ {d} : r \notin Generating(c)
  BY DEF Generating
<1>4. CASE req[r].gated /\ ~req[r].released
  <2>1. r \in Generating(d)
    BY <1>4 DEF Generating
  <2>2. Cardinality(Generating(d) \ {r}) = Cardinality(Generating(d)) - 1
    BY <2>1, GeneratingFinite, FS_RemoveElement
  <2>3. inFlight[d] = Cardinality(Generating(d)) /\ inFlight[d] > 0
    <3>1. Cardinality(Generating(d)) # 0
      BY <2>1, GeneratingFinite, FS_EmptySet
    <3> QED
      BY <3>1, <1>1, GeneratingFinite DEF IInv, SeatAccounting
  <2>4. d \in held
    BY <2>3, <1>1 DEF IInv, Unseated
  <2>5. inFlight' = [inFlight EXCEPT ![d] = inFlight[d] - 1] /\ held' = held
    BY <1>4, <2>3, <2>4 DEF ReleaseOnce, Release
  <2>6. ASSUME NEW c \in Callers
        PROVE  inFlight'[c] = Cardinality(Generating(c)')
    <3>1. CASE c = d
      BY <3>1, <1>2, <2>2, <2>3, <2>5 DEF IInv, TypeOK
    <3>2. CASE c # d
      BY <3>2, <1>2, <1>3, <2>5 DEF IInv, TypeOK, SeatAccounting
    <3> QED
      BY <3>1, <3>2
  <2> QED
    BY <2>4, <2>5, <2>6 DEF IInv, TypeOK, SeatAccounting, Unseated
<1>5. CASE ~(req[r].gated /\ ~req[r].released)
  <2>1. \A c \in Callers : Generating(c)' = Generating(c)
    BY <1>5, <1>2 DEF Generating
  <2> QED
    BY <1>5, <2>1 DEF ReleaseOnce, registry, IInv, SeatAccounting, Unseated
<1> QED
  BY <1>4, <1>5

LEMMA PruneAccounting ==
    ASSUME IInv, PruneSeats, UNCHANGED req
    PROVE  SeatAccounting' /\ Unseated'
<1>1. \A c \in Callers : inFlight'[c] = inFlight[c]
  BY DEF IInv, TypeOK, Unseated, PruneSeats, Pruned
<1> QED
  BY <1>1 DEF IInv, SeatAccounting, Unseated, PruneSeats, Pruned, Generating, TypeOK

LEMMA AdmitAccounting ==
    ASSUME IInv, NEW r \in Requests, NEW c \in Callers, NEW key \in BOOLEAN,
           Admit(r, c, key)
    PROVE  SeatAccounting' /\ Unseated'
<1> DEFINE q == Forwarded(c, TRUE)
<1>1. q \in Request /\ q.caller = c /\ q.gated /\ ~q.released
  BY RequestSteps DEF Forwarded
<1>2. req' = [req EXCEPT ![r] = q] /\ TakeSeat(c)
  BY DEF Admit
<1>3. \A d \in Callers : r \notin Generating(d)
  BY CallersAssumption DEF Admit, InUse, Generating
<1> HIDE DEF q
<1>4. \A d \in Callers : Generating(d)' = IF d = c THEN Generating(d) \cup {r}
                                                   ELSE Generating(d)
  <2> TAKE d \in Callers
  <2>1. Counts(q, d) <=> d = c
    BY <1>1, Zenon DEF Counts
  <2>2. Generating(d) \ {r} = Generating(d)
    BY <1>3
  <2>3. TypeOK
    BY DEF IInv
  <2> QED
    BY <1>1, <1>2, <2>1, <2>2, <2>3, GeneratingUpdate
<1>5. Cardinality(Generating(c) \cup {r}) = Cardinality(Generating(c)) + 1
  BY <1>3, GeneratingFinite, FS_AddElement
<1>6. \A d \in Callers : inFlight'[d] = IF d = c THEN inFlight[d] + 1 ELSE inFlight[d]
  BY <1>2 DEF IInv, TypeOK, Unseated, TakeSeat, Pruned
<1>7. SeatAccounting'
  BY <1>4, <1>5, <1>6 DEF IInv, SeatAccounting
<1>8. Unseated'
  BY <1>2, <1>6 DEF IInv, TypeOK, Unseated, TakeSeat, Pruned
<1> QED
  BY <1>7, <1>8

LEMMA InitIInv == Init => IInv
<1> SUFFICES ASSUME Init PROVE IInv
  OBVIOUS
<1>1. \A c \in Callers : Generating(c) = {}
  BY CallersAssumption DEF Init, Generating, Free
<1>2. Settled
  BY DEF Init, Settled, Free
<1>3. SeatAccounting /\ Unseated
  BY <1>1, FS_EmptySet DEF Init, SeatAccounting, Unseated
<1> QED
  BY <1>2, <1>3, InitType DEF IInv

LEMMA NextSettled == TypeOK /\ Settled /\ [Next]_vars => Settled'
<1> SUFFICES ASSUME TypeOK, Settled, [Next]_vars PROVE Settled'
  OBVIOUS
<1>1. ASSUME NEW r \in Requests, NEW q \in Request, req' = [req EXCEPT ![r] = q],
             q.res = "closed" => q.released
      PROVE  Settled'
  BY <1>1 DEF TypeOK, Settled
<1>2. ASSUME NEW r \in Requests, NEW c \in Callers, NEW gated \in BOOLEAN,
             req' = [req EXCEPT ![r] = Forwarded(c, gated)]
      PROVE  Settled'
  BY <1>1, <1>2, RequestSteps DEF Forwarded
<1>3. ASSUME NEW r \in Requests, RequestEvent(r)
      PROVE  Settled'
  <2>1. /\ req[r] \in Request
        /\ req[r].res = "closed" => req[r].released
    BY DEF TypeOK, Settled
  <2>2. CASE UpAnswers(r)
    BY <2>1, <2>2, <1>1, RequestSteps, RequestFields DEF UpAnswers
  <2>3. CASE UpEnds(r)
    BY <2>1, <2>3, <1>1, RequestSteps, RequestFields DEF UpEnds, Same
  <2>4. CASE UpError(r)
    BY <2>1, <2>4, <1>1, RequestSteps, RequestFields DEF UpError
  <2>5. CASE UpCut(r)
    BY <2>1, <2>5, <1>1, RequestSteps, RequestFields DEF UpCut, Same
  <2>6. ASSUME NEW left \in BOOLEAN, ResClose(r, left)
        PROVE  Settled'
    BY <2>1, <2>6, <1>1, RequestSteps, RequestFields DEF ResClose
  <2>7. CASE ClientLeaves(r)
    BY <2>6, <2>7 DEF ClientLeaves
  <2>8. CASE ResFinishes(r)
    BY <2>6, <2>8 DEF ResFinishes
  <2>9. CASE Collect(r)
    BY <2>9, <1>1, RequestSteps DEF Collect, Free
  <2> QED
    BY <1>3, <2>2, <2>3, <2>4, <2>5, <2>7, <2>8, <2>9 DEF RequestEvent
<1>4. CASE UNCHANGED req
  BY <1>4 DEF Settled
<1> QED
  BY <1>2, <1>3, <1>4
  DEF Next, Admit, RefuseFull, PassThrough, View, Tick, Configure, vars

LEMMA NextIInv == IInv /\ [Next]_vars => IInv'
<1> SUFFICES ASSUME IInv, [Next]_vars PROVE SeatAccounting' /\ Unseated'
  BY NextType, NextSettled DEF IInv
<1>a. TypeOK
  BY DEF IInv
<1>1. ASSUME NEW r \in Requests, NEW c \in Callers, NEW key \in BOOLEAN, Admit(r, c, key)
      PROVE  SeatAccounting' /\ Unseated'
  BY <1>1, AdmitAccounting
<1>2. ASSUME NEW c \in Callers, NEW key \in BOOLEAN, RefuseFull(c, key)
      PROVE  SeatAccounting' /\ Unseated'
  BY <1>2, PruneAccounting DEF RefuseFull
<1>3. ASSUME \A c \in Callers : Generating(c)' = Generating(c),
             UNCHANGED <<held, inFlight>>
      PROVE  SeatAccounting' /\ Unseated'
  BY <1>3 DEF IInv, SeatAccounting, Unseated
<1>4. ASSUME NEW r \in Requests, NEW c \in Callers, PassThrough(r, c)
      PROVE  SeatAccounting' /\ Unseated'
  <2>1. \A d \in Callers : Generating(d)' = Generating(d)
    BY <1>4, <1>a, CallersAssumption DEF PassThrough, Forwarded, TypeOK, Generating, InUse
  <2> QED
    BY <1>3, <1>4, <2>1 DEF PassThrough, registry
<1>5. ASSUME NEW r \in Requests, RequestEvent(r)
      PROVE  SeatAccounting' /\ Unseated'
  <2>0. req[r] \in Request
    BY <1>a DEF TypeOK
  <2>1. CASE UpAnswers(r)
    <3>1. Answered(req[r]) \in Request /\ Same(Answered(req[r]), req[r])
      BY <2>0, RequestSteps, RequestFields
    <3>2. \A d \in Callers : Generating(d)' = Generating(d)
      BY <2>1, <3>1, <1>a, GeneratingKept DEF UpAnswers
    <3> QED
      BY <1>3, <2>1, <3>2 DEF UpAnswers, registry
  <2>2. CASE UpEnds(r)
    <3>1. Ended(req[r]) \in Request /\ Same(Ended(req[r]), req[r])
      BY <2>0, RequestSteps, RequestFields
    <3>2. \A d \in Callers : Generating(d)' = Generating(d)
      BY <2>2, <3>1, <1>a, GeneratingKept DEF UpEnds
    <3> QED
      BY <1>3, <2>2, <3>2 DEF UpEnds, registry
  <2>3. CASE UpCut(r)
    <3>1. Cut(req[r]) \in Request /\ Same(Cut(req[r]), req[r])
      BY <2>0, RequestSteps, RequestFields
    <3>2. \A d \in Callers : Generating(d)' = Generating(d)
      BY <2>3, <3>1, <1>a, GeneratingKept DEF UpCut
    <3> QED
      BY <1>3, <2>3, <3>2 DEF UpCut, registry
  <2>4. CASE UpError(r)
    <3>1. /\ Failed(req[r]) \in Request
          /\ Failed(req[r]).caller = req[r].caller
          /\ Failed(req[r]).released = TRUE
      BY <2>0, RequestSteps, RequestFields
    <3> QED
      BY <2>4, <3>1, ReleaseAccounting DEF UpError
  <2>5. ASSUME NEW left \in BOOLEAN, InUse(r), ResClose(r, left)
        PROVE  SeatAccounting' /\ Unseated'
    <3>1. /\ Closed(req[r], left) \in Request
          /\ Closed(req[r], left).caller = req[r].caller
          /\ Closed(req[r], left).released = TRUE
      BY <2>0, RequestSteps, RequestFields
    <3> QED
      BY <2>5, <3>1, ReleaseAccounting DEF ResClose
  <2>6. CASE ClientLeaves(r)
    BY <2>5, <2>6 DEF ClientLeaves
  <2>7. CASE ResFinishes(r)
    BY <2>5, <2>7 DEF ResFinishes
  <2>8. CASE Collect(r)
    <3>1. req[r].released
      BY <2>8 DEF Collect, IInv, Settled
    <3>2. \A d \in Callers : Generating(d)' = Generating(d)
      BY <2>8, <3>1, <1>a DEF Collect, Free, TypeOK, Generating
    <3> QED
      BY <1>3, <2>8, <3>2 DEF Collect, registry
  <2> QED
    BY <1>5, <2>1, <2>2, <2>3, <2>4, <2>6, <2>7, <2>8 DEF RequestEvent
<1>6. CASE View
  BY <1>6, PruneAccounting DEF View
<1>7. CASE Tick
  BY <1>3, <1>7 DEF Tick, Generating
<1>8. CASE Configure
  BY <1>3, <1>8 DEF Configure, Generating, registry
<1>9. CASE UNCHANGED vars
  BY <1>3, <1>9 DEF vars, Generating
<1> QED
  BY <1>1, <1>2, <1>4, <1>5, <1>6, <1>7, <1>8, <1>9 DEF Next

\* The counter on a seat equals the number of its open generations, for any
\* number of callers and requests, whatever order their sockets end in.
THEOREM Accounting == Spec => []SeatAccounting
<1>1. Spec => []IInv
  BY InitIInv, NextIInv, PTL DEF Spec
<1>2. IInv => SeatAccounting
  BY DEF IInv
<1> QED
  BY <1>1, <1>2, PTL

LEMMA IInvKeepsSeat == IInv => GeneratingKeepsSeat
<1> SUFFICES ASSUME IInv, NEW c \in Callers, Generating(c) # {}
             PROVE  c \in held
  BY DEF GeneratingKeepsSeat
<1>1. Cardinality(Generating(c)) # 0
  BY GeneratingFinite, FS_EmptySet
<1> QED
  BY <1>1 DEF IInv, SeatAccounting, Unseated

\* A caller with an open generation holds a seat: no pruning, shorter window or
\* lowered slot count takes it away mid-stream.
THEOREM NeverReaped == Spec => []GeneratingKeepsSeat
  BY InitIInv, NextIInv, IInvKeepsSeat, PTL DEF Spec

-----------------------------------------------------------------------------
(* New seats. *)

LEMMA AdmitBelowCap ==
    ASSUME TypeOK, NEW r \in Requests, NEW c \in Callers, NEW key \in BOOLEAN,
           Admit(r, c, key), held' \ held # {}
    PROVE  Cardinality(held') <= Cap /\ ~down
<1>1. held' = Pruned \cup {c} /\ Pruned \subseteq held
  BY DEF Admit, TakeSeat, Pruned
<1>2. c \notin Pruned /\ Cardinality(Pruned) < Cap
  BY <1>1 DEF Admit, CanAdmit
<1>3. IsFiniteSet(Pruned) /\ Cardinality(Pruned) \in Nat
  BY <1>1, CallersAssumption, FS_Subset, FS_CardinalityType DEF TypeOK
<1>4. Cardinality(Pruned \cup {c}) = Cardinality(Pruned) + 1
  BY <1>2, <1>3, FS_AddElement
<1> QED
  BY <1>1, <1>2, <1>3, <1>4, CapType DEF Admit

LEMMA NextBelowCap ==
    TypeOK /\ [Next]_vars => [held' \ held # {} => Cardinality(held') <= Cap /\ ~down]_vars
<1> SUFFICES ASSUME TypeOK, [Next]_vars, held' \ held # {}
             PROVE  Cardinality(held') <= Cap /\ ~down
  OBVIOUS
<1>1. \A r \in Requests : ~RequestEvent(r)
  BY DEF RequestEvent, UpAnswers, UpEnds, UpError, UpCut, ClientLeaves, ResFinishes,
         ResClose, Collect, ReleaseOnce, Release, registry
<1>2. \E r \in Requests, c \in Callers, key \in BOOLEAN : Admit(r, c, key)
  BY <1>1 DEF Next, RefuseFull, PassThrough, View, Tick, Configure, PruneSeats, Pruned,
              registry, vars
<1> QED
  BY <1>2, AdmitBelowCap

\* A seat is only ever added while fewer than the current slots are taken and the
\* engine answers, for every history of the operator's settings.
THEOREM NewSeats == Spec => NewSeatOnlyBelowCap
  BY InitType, NextType, NextBelowCap, PTL DEF Spec, NewSeatOnlyBelowCap

-----------------------------------------------------------------------------
(* The gate implements the pool of seats.                                   *)

Busy == {c \in Callers : Generating(c) # {}}

LEMMA PoolCardinality == \A S : Pool!Cardinality(S) = Cardinality(S)
  BY DEF Pool!Cardinality, Cardinality

LEMMA ReapedIdle == IInv => held \ Pruned \subseteq held \ Busy
<1> SUFFICES ASSUME IInv, NEW c \in held, c \notin Pruned
             PROVE  c \notin Busy
  OBVIOUS
<1>1. c \in Callers /\ inFlight[c] \in Nat /\ ~(inFlight[c] > 0)
  BY DEF IInv, TypeOK, Pruned
<1>2. Cardinality(Generating(c)) = 0
  BY <1>1 DEF IInv, SeatAccounting
<1> QED
  BY <1>2, GeneratingFinite, FS_EmptySet DEF Busy

LEMMA ReclaimStep ==
    ASSUME IInv, PruneSeats, UNCHANGED <<settings, req>>
    PROVE  Pool!Reclaim
<1>1. held' = held \ (held \ Pruned)
  BY DEF PruneSeats, Pruned
<1>2. held \ Pruned \in SUBSET (held \ Busy)
  BY ReapedIdle
<1>3. Busy' = Busy /\ Cap' = Cap
  BY DEF Busy, Generating, settings, Cap
<1> QED
  BY <1>1, <1>2, <1>3 DEF Pool!Reclaim, Busy

LEMMA SeatStep ==
    ASSUME IInv, NEW r \in Requests, NEW c \in Callers, NEW key \in BOOLEAN,
           Admit(r, c, key)
    PROVE  Pool!Seat(c)
<1> DEFINE gone == held \ Pruned
<1>1. Pruned \subseteq held /\ held \ gone = Pruned
  BY DEF Pruned
<1>2. gone \in SUBSET (held \ Busy)
  BY ReapedIdle
<1>3. c \in held \ gone \/ Cardinality(held \ gone) < Cap
  BY <1>1 DEF Admit, CanAdmit
<1>4. held' = (held \ gone) \cup {c}
  BY <1>1 DEF Admit, TakeSeat
<1>5. Busy' = Busy \cup {c}
  <2>1. \A d \in Callers \ {c} : Generating(d)' = Generating(d)
    BY CallersAssumption DEF Admit, Forwarded, InUse, Generating, IInv, TypeOK
  <2>2. r \in Generating(c)'
    BY DEF Admit, Forwarded, Generating, IInv, TypeOK
  <2> QED
    BY <2>1, <2>2 DEF Busy
<1>6. Cap' = Cap
  BY DEF Admit, settings, Cap
<1> HIDE DEF gone
<1>7. \E g \in SUBSET (held \ Busy) : /\ c \in held \ g \/ Cardinality(held \ g) < Cap
                                      /\ held' = (held \ g) \cup {c}
                                      /\ Busy' = Busy \cup {c}
                                      /\ Cap' = Cap
  BY <1>2, <1>3, <1>4, <1>5, <1>6
<1> QED
  BY <1>7, PoolCardinality, Zenon DEF Pool!Seat, Busy

\* The end of a request is either the end of its caller's last generation or
\* nothing the pool can see.
LEMMA FinishStep ==
    ASSUME IInv, NEW r \in Requests, InUse(r), ReleaseOnce(r), UNCHANGED settings,
           NEW q \in Request, req' = [req EXCEPT ![r] = q],
           q.caller = req[r].caller, q.released = TRUE
    PROVE  Pool!Finish(req[r].caller) \/ UNCHANGED <<held, Busy, Cap>>
<1> DEFINE d == req[r].caller
<1>1. \A c \in Callers : Generating(c)' = Generating(c) \ {r}
  BY GeneratingUpdate, Zenon DEF IInv, Counts
<1>2. \A c \in Callers \ {d} : r \notin Generating(c)
  BY DEF Generating
<1>3. Busy' = Busy \/ Busy' = Busy \ {d}
  BY <1>1, <1>2 DEF Busy
<1>4. held' = held /\ Cap' = Cap
  BY DEF ReleaseOnce, Release, registry, settings, Cap
<1> QED
  BY <1>3, <1>4 DEF Pool!Finish, Busy

LEMMA PoolInit == Init => Pool!Init
<1> SUFFICES ASSUME Init PROVE Pool!Init
  OBVIOUS
<1>1. \A c \in Callers : Generating(c) = {}
  BY CallersAssumption DEF Init, Generating, Free
<1>2. Cap \in Nat \ {0}
  BY CapType, InitType
<1> QED
  BY <1>1, <1>2 DEF Init, Pool!Init

LEMMA PoolNext == IInv /\ [Next]_vars => [Pool!Next]_(Pool!poolVars)
<1> SUFFICES ASSUME IInv, [Next]_vars
             PROVE  Pool!Next \/ UNCHANGED <<held, Busy, Cap>>
  BY DEF Pool!poolVars, Busy
<1>1. ASSUME NEW r \in Requests, NEW c \in Callers, NEW key \in BOOLEAN, Admit(r, c, key)
      PROVE  Pool!Next
  BY <1>1, SeatStep DEF Pool!Next
<1>2. ASSUME NEW c \in Callers, NEW key \in BOOLEAN, RefuseFull(c, key)
      PROVE  Pool!Next
  BY <1>2, ReclaimStep DEF RefuseFull, Pool!Next
<1>3. ASSUME \A c \in Callers : Generating(c)' = Generating(c), UNCHANGED <<held, settings>>
      PROVE  UNCHANGED <<held, Busy, Cap>>
  BY <1>3 DEF Busy, Cap, settings
<1>4. ASSUME NEW r \in Requests, NEW c \in Callers, PassThrough(r, c)
      PROVE  UNCHANGED <<held, Busy, Cap>>
  <2>1. \A d \in Callers : Generating(d)' = Generating(d)
    BY <1>4, CallersAssumption
    DEF IInv, TypeOK, PassThrough, Forwarded, Generating, InUse
  <2> QED
    BY <1>3, <1>4, <2>1 DEF PassThrough, registry
<1>5. ASSUME NEW r \in Requests, RequestEvent(r)
      PROVE  Pool!Next \/ UNCHANGED <<held, Busy, Cap>>
  <2>0. req[r] \in Request /\ TypeOK
    BY DEF IInv, TypeOK
  <2>1. ASSUME NEW q \in Request, req' = [req EXCEPT ![r] = q], Same(q, req[r]),
               UNCHANGED <<registry, settings>>
        PROVE  UNCHANGED <<held, Busy, Cap>>
    BY <2>0, <2>1, <1>3, GeneratingKept DEF registry
  <2>2. ASSUME NEW q \in Request, InUse(r), req' = [req EXCEPT ![r] = q],
               ReleaseOnce(r), UNCHANGED settings,
               q.caller = req[r].caller, q.released = TRUE
        PROVE  Pool!Next \/ UNCHANGED <<held, Busy, Cap>>
    BY <2>0, <2>2, FinishStep, InUseCaller DEF Pool!Next
  <2>3. CASE UpAnswers(r)
    BY <2>0, <2>1, <2>3, RequestSteps, RequestFields DEF UpAnswers
  <2>4. CASE UpEnds(r)
    BY <2>0, <2>1, <2>4, RequestSteps, RequestFields DEF UpEnds
  <2>5. CASE UpCut(r)
    BY <2>0, <2>1, <2>5, RequestSteps, RequestFields DEF UpCut
  <2>6. CASE UpError(r)
    BY <2>0, <2>2, <2>6, RequestSteps, RequestFields DEF UpError
  <2>7. ASSUME NEW left \in BOOLEAN, InUse(r), ResClose(r, left)
        PROVE  Pool!Next \/ UNCHANGED <<held, Busy, Cap>>
    BY <2>0, <2>2, <2>7, RequestSteps, RequestFields DEF ResClose
  <2>8. CASE ClientLeaves(r)
    BY <2>7, <2>8 DEF ClientLeaves
  <2>9. CASE ResFinishes(r)
    BY <2>7, <2>9 DEF ResFinishes
  <2>10. CASE Collect(r)
    <3>1. req[r].released
      BY <2>10 DEF Collect, IInv, Settled
    <3>2. \A d \in Callers : Generating(d)' = Generating(d)
      BY <2>0, <2>10, <3>1 DEF Collect, Free, TypeOK, Generating
    <3> QED
      BY <1>3, <2>10, <3>2 DEF Collect, registry
  <2> QED
    BY <1>5, <2>3, <2>4, <2>5, <2>6, <2>8, <2>9, <2>10 DEF RequestEvent
<1>6. CASE View
  BY <1>6, ReclaimStep DEF View, Pool!Next
<1>7. CASE Tick
  BY <1>3, <1>7 DEF Tick, Generating
<1>8. CASE Configure
  <2>1. Cap' \in Nat \ {0}
    <3>1. slots' \in Slots
      BY NextType DEF IInv, TypeOK
    <3> QED
      BY <3>1, SlotsAssumption DEF Cap
  <2>2. UNCHANGED <<held, Busy>>
    BY <1>8 DEF Configure, registry, Busy, Generating
  <2> QED
    BY <2>1, <2>2 DEF Pool!Next, Pool!Resize, Busy
<1>9. CASE UNCHANGED vars
  BY <1>3, <1>9 DEF vars, settings, Generating
<1> QED
  BY <1>1, <1>2, <1>4, <1>5, <1>6, <1>7, <1>8, <1>9 DEF Next

\* Every behaviour of the gate, seen through its keys and its open generations,
\* is a behaviour of the pool of seats.
THEOREM Implements == Spec => PoolSpec
  BY InitIInv, NextIInv, PoolInit, PoolNext, PTL DEF Spec, PoolSpec, Pool!Spec

-----------------------------------------------------------------------------
(* The numbers the gate gives: Retry-After, the peak, the stopped replies.   *)

\* Of a non-empty set of seats, one has been idle the longest: the one with the
\* fewest older than itself.
LEMMA OldestExists ==
    ASSUME TypeOK, NEW S \in SUBSET Callers, S # {}
    PROVE  \E c \in S : \A d \in S : age[d] <= age[c]
<1> DEFINE Older(c) == {d \in S : age[d] > age[c]}
           T == {Older(c) : c \in S}
           R == StrictSubsetOrdering(Callers)
<1>1. \A c \in S : age[c] \in Nat
  BY MaxAgeType DEF TypeOK
<1>2. T \subseteq FiniteSubsetsOf(Callers) /\ T # {}
  <2> SUFFICES ASSUME NEW c \in S PROVE Older(c) \in FiniteSubsetsOf(Callers)
    OBVIOUS
  <2>1. Older(c) \subseteq Callers
    OBVIOUS
  <2>2. IsFiniteSet(Older(c))
    BY <2>1, CallersAssumption, FS_Subset
  <2> QED
    BY <2>1, <2>2 DEF FiniteSubsetsOf
<1>3. \E X \in T : \A Y \in T : <<Y, X>> \notin R
  <2> HIDE DEF T, R
  <2>1. IsWellFoundedOn(R, FiniteSubsetsOf(Callers))
    BY FS_StrictSubsetOrderingWellFounded DEF R
  <2> QED
    BY <1>2, <2>1, WFMin
<1>4. PICK c \in S : \A d \in S : <<Older(d), Older(c)>> \notin R
  BY <1>3
<1>5. ASSUME NEW d \in S, age[d] > age[c]
      PROVE  FALSE
  <2>1. Older(d) \subseteq Older(c)
    BY <1>1, <1>5
  <2>2. d \in Older(c) \ Older(d)
    BY <1>1, <1>5
  <2>3. Older(d) \in SUBSET Callers /\ Older(c) \in SUBSET Callers
    OBVIOUS
  <2> HIDE DEF Older
  <2>4. <<Older(d), Older(c)>> \in R
    BY <2>1, <2>2, <2>3 DEF StrictSubsetOrdering
  <2> QED
    BY <1>4, <2>4
<1> QED
  BY <1>1, <1>5

LEMMA RetryHonest == IInv => RetryAfterHonest
<1> DEFINE ReclaimedIn(k) == {d \in Pruned : inFlight[d] = 0 /\ age[d] + k > window}
           idle == {d \in Pruned : inFlight[d] = 0}
           n == NextFree(Pruned)
<1> SUFFICES ASSUME IInv
             PROVE  IF n = 0 THEN \A d \in Pruned : Generating(d) # {}
                    ELSE ReclaimedIn(n + 1) # {} /\ ReclaimedIn(n - 1) = {}
  BY Zenon DEF RetryAfterHonest
<1>1. /\ Pruned \subseteq Callers
      /\ window \in Nat
      /\ \A d \in Pruned : /\ inFlight[d] \in Nat
                           /\ age[d] \in Nat
                           /\ inFlight[d] = 0 => age[d] <= window
                           /\ inFlight[d] = Cardinality(Generating(d))
  BY WindowsAssumption, MaxAgeType DEF IInv, TypeOK, Pruned, SeatAccounting
<1>2. CASE idle = {}
  <2>1. n = 0
    BY <1>2 DEF NextFree
  <2>2. ASSUME NEW d \in Pruned PROVE Generating(d) # {}
    BY <1>1, <1>2, FS_EmptySet
  <2> QED
    BY <2>1, <2>2
<1>3. CASE idle # {}
  <2> DEFINE oldest == CHOOSE c \in idle : \A d \in idle : age[d] <= age[c]
  <2>1. /\ oldest \in idle
        /\ \A d \in idle : age[d] <= age[oldest]
    <3>1. idle \in SUBSET Callers /\ TypeOK
      BY <1>1 DEF IInv
    <3>2. \E c \in idle : \A d \in idle : age[d] <= age[c]
      BY <1>3, <3>1, OldestExists
    <3> HIDE DEF idle
    <3> QED
      BY <3>2
  <2>2. n = IF window - age[oldest] > 1 THEN window - age[oldest] ELSE 1
    BY <1>3 DEF NextFree
  <2> HIDE DEF n, oldest
  <2>3. /\ n \in Nat /\ n # 0
        /\ age[oldest] \in Nat /\ age[oldest] <= window
        /\ age[oldest] + (n + 1) > window
    BY <1>1, <2>1, <2>2
  <2>4. oldest \in ReclaimedIn(n + 1)
    BY <2>1, <2>3
  <2>5. ASSUME NEW d \in idle PROVE ~(age[d] + (n - 1) > window)
    BY <1>1, <2>1, <2>2, <2>3
  <2>6. ReclaimedIn(n - 1) = {}
    BY <2>5
  <2> QED
    BY <2>3, <2>4, <2>6
<1> QED
  BY <1>2, <1>3
\* The peak is only read when a generation asks, and only then can seats grow.
LEMMA NextPeak == TypeOK /\ PeakCoversSeats /\ [Next]_vars => PeakCoversSeats'
<1> SUFFICES ASSUME TypeOK, PeakCoversSeats, [Next]_vars PROVE PeakCoversSeats'
  OBVIOUS
<1>1. TypeOK' /\ Cardinality(held) \in Nat /\ Cardinality(held') \in Nat
  BY NextType, CallersAssumption, FS_Subset, FS_CardinalityType DEF TypeOK
<1>2. ASSUME NEW r \in Requests, NEW c \in Callers, NEW key \in BOOLEAN, Admit(r, c, key)
      PROVE  PeakCoversSeats'
  BY <1>1, <1>2 DEF Admit, TakeSeat, Seated, PeakCoversSeats, TypeOK
<1>3. ASSUME held' \subseteq held, peak' >= peak
      PROVE  PeakCoversSeats'
  <2>1. IsFiniteSet(held)
    BY CallersAssumption, FS_Subset DEF TypeOK
  <2>2. Cardinality(held') <= Cardinality(held)
    BY <1>3, <2>1, FS_Subset
  <2> QED
    BY <1>1, <1>3, <2>2 DEF PeakCoversSeats, TypeOK
<1>4. ASSUME NEW c \in Callers, NEW key \in BOOLEAN, RefuseFull(c, key)
      PROVE  PeakCoversSeats'
  <2>1. held' \subseteq held
    BY <1>4 DEF RefuseFull, PruneSeats, Pruned
  <2>2. peak' >= peak
    BY <1>1, <1>4 DEF RefuseFull, Seated, TypeOK
  <2> QED
    BY <1>3, <2>1, <2>2
<1>5. ASSUME NEW r \in Requests, RequestEvent(r)
      PROVE  held' = held /\ peak' = peak
  BY <1>5 DEF RequestEvent, UpAnswers, UpEnds, UpError, UpCut, ClientLeaves, ResFinishes,
              ResClose, Collect, ReleaseOnce, Release, registry
<1>6. CASE UNCHANGED <<held, peak>>
  BY <1>6 DEF PeakCoversSeats
<1>7. CASE View
  <2>1. held' \subseteq held /\ peak' = peak
    BY <1>7 DEF View, PruneSeats, Pruned
  <2> QED
    BY <1>1, <1>3, <2>1 DEF TypeOK
<1> QED
  BY <1>2, <1>4, <1>5, <1>6, <1>7 DEF Next, PassThrough, Tick, Configure, registry, vars

\* A response the gate destroyed had an upstream failure: without this, the
\* close of that response could be taken for its reader's leaving.
DestroyedFailed == \A r \in Requests : req[r].res = "destroyed" => req[r].upFailed

StopInv == StoppedOnlyByReader /\ DestroyedFailed

LEMMA StopSteps ==
    /\ \A c, gated : /\ Forwarded(c, gated).res = "open"
                     /\ ~Forwarded(c, gated).stopped
    /\ \A q \in Request :
          /\ Answered(q).res = "headers" /\ Answered(q).stopped = q.stopped
          /\ Answered(q).left = q.left
          /\ Ended(q).res = "destroyed" => q.res = "destroyed"
          /\ Ended(q).upFailed = q.upFailed /\ Ended(q).stopped = q.stopped
          /\ Ended(q).left = q.left
          /\ Failed(q).upFailed = TRUE /\ Failed(q).stopped = q.stopped
          /\ Failed(q).left = q.left
          /\ Cut(q).res = q.res /\ Cut(q).upFailed = q.upFailed
          /\ Cut(q).stopped = q.stopped /\ Cut(q).left = q.left
    /\ \A q \in Request, left \in BOOLEAN :
          /\ Closed(q, left).res = "closed" /\ Closed(q, left).left = left
          /\ Closed(q, left).stopped => q.res # "ended" /\ ~q.upFailed
    /\ Free.res = "closed" /\ ~Free.stopped
<1>1. \A q \in Request :
          /\ Answered(q).res = "headers" /\ Answered(q).stopped = q.stopped
          /\ Answered(q).left = q.left
          /\ Cut(q).res = q.res /\ Cut(q).upFailed = q.upFailed
          /\ Cut(q).stopped = q.stopped /\ Cut(q).left = q.left
  BY DEF Answered, Cut, Request
<1>2. \A q \in Request :
          /\ Ended(q).res = "destroyed" => q.res = "destroyed"
          /\ Ended(q).upFailed = q.upFailed /\ Ended(q).stopped = q.stopped
          /\ Ended(q).left = q.left
  BY DEF Ended, Request
<1>3. \A q \in Request : /\ Failed(q).upFailed = TRUE /\ Failed(q).stopped = q.stopped
                         /\ Failed(q).left = q.left
  BY DEF Failed, Request
<1>4. \A q \in Request, left \in BOOLEAN :
          /\ Closed(q, left).res = "closed" /\ Closed(q, left).left = left
          /\ Closed(q, left).stopped => q.res # "ended" /\ ~q.upFailed
  BY DEF Closed, Request
<1>5. /\ \A c, gated : /\ Forwarded(c, gated).res = "open"
                       /\ ~Forwarded(c, gated).stopped
      /\ Free.res = "closed" /\ ~Free.stopped
  BY DEF Forwarded, Free
<1> QED
  BY <1>1, <1>2, <1>3, <1>4, <1>5

LEMMA NextStopInv == TypeOK /\ StopInv /\ [Next]_vars => StopInv'
<1> SUFFICES ASSUME TypeOK, StopInv, [Next]_vars PROVE StopInv'
  OBVIOUS
<1>1. ASSUME NEW r \in Requests, NEW q, req' = [req EXCEPT ![r] = q],
             q.stopped => q.left, q.res = "destroyed" => q.upFailed
      PROVE  StopInv'
  BY <1>1 DEF TypeOK, StopInv, StoppedOnlyByReader, DestroyedFailed
<1>2. ASSUME NEW r \in Requests, NEW c \in Callers, NEW gated \in BOOLEAN,
             req' = [req EXCEPT ![r] = Forwarded(c, gated)]
      PROVE  StopInv'
  BY <1>1, <1>2, StopSteps
<1>3. ASSUME NEW r \in Requests, RequestEvent(r)
      PROVE  StopInv'
  <2>1. /\ req[r] \in Request
        /\ req[r].stopped => req[r].left
        /\ req[r].res = "destroyed" => req[r].upFailed
    BY DEF TypeOK, StopInv, StoppedOnlyByReader, DestroyedFailed
  <2>2. CASE UpAnswers(r)
    <3>1. /\ Answered(req[r]).res = "headers" /\ Answered(req[r]).left = req[r].left
          /\ Answered(req[r]).stopped = req[r].stopped
      BY <2>1, StopSteps
    <3> QED
      BY <2>1, <2>2, <3>1, <1>1 DEF UpAnswers
  <2>3. CASE UpEnds(r)
    <3>1. /\ Ended(req[r]).res = "destroyed" => req[r].res = "destroyed"
          /\ Ended(req[r]).upFailed = req[r].upFailed
          /\ Ended(req[r]).stopped = req[r].stopped /\ Ended(req[r]).left = req[r].left
      BY <2>1, StopSteps
    <3> QED
      BY <2>1, <2>3, <3>1, <1>1 DEF UpEnds
  <2>4. CASE UpError(r)
    <3>1. /\ Failed(req[r]).upFailed = TRUE
          /\ Failed(req[r]).stopped = req[r].stopped /\ Failed(req[r]).left = req[r].left
      BY <2>1, StopSteps
    <3> QED
      BY <2>1, <2>4, <3>1, <1>1 DEF UpError
  <2>5. CASE UpCut(r)
    <3>1. /\ Cut(req[r]).res = req[r].res /\ Cut(req[r]).upFailed = req[r].upFailed
          /\ Cut(req[r]).stopped = req[r].stopped /\ Cut(req[r]).left = req[r].left
      BY <2>1, StopSteps
    <3> QED
      BY <2>1, <2>5, <3>1, <1>1 DEF UpCut
  <2>6. CASE ClientLeaves(r)
    <3>1. /\ Closed(req[r], TRUE).res = "closed"
          /\ Closed(req[r], TRUE).left = TRUE
      BY <2>1, StopSteps
    <3>2. req' = [req EXCEPT ![r] = Closed(req[r], TRUE)]
      BY <2>6 DEF ClientLeaves, ResClose
    <3> QED
      BY <3>1, <3>2, <1>1
  <2>7. CASE ResFinishes(r)
    <3>1. /\ Closed(req[r], FALSE).res = "closed"
          /\ Closed(req[r], FALSE).stopped => req[r].res # "ended" /\ ~req[r].upFailed
      BY <2>1, StopSteps
    <3>2. /\ req' = [req EXCEPT ![r] = Closed(req[r], FALSE)]
          /\ req[r].res \in {"ended", "destroyed"}
      BY <2>7 DEF ResFinishes, ResClose
    <3> QED
      BY <2>1, <3>1, <3>2, <1>1
  <2>8. CASE Collect(r)
    BY <2>8, <1>1, StopSteps DEF Collect
  <2> QED
    BY <1>3, <2>2, <2>3, <2>4, <2>5, <2>6, <2>7, <2>8 DEF RequestEvent
<1>4. CASE UNCHANGED req
  BY <1>4 DEF StopInv, StoppedOnlyByReader, DestroyedFailed
<1> QED
  BY <1>2, <1>3, <1>4
  DEF Next, Admit, RefuseFull, PassThrough, View, Tick, Configure, vars

\* The gate tells the truth in its numbers: a Retry-After names the tick a seat
\* comes free, the peak covers every moment, and only a reader who left is
\* counted as having stopped a reply.
THEOREM HonestNumbers == Spec => []NumbersAreTrue
<1> DEFINE Numbers == IInv /\ PeakCoversSeats /\ StopInv
<1>1. Init => Numbers
  <2>1. Init => PeakCoversSeats
    BY FS_EmptySet DEF Init, PeakCoversSeats
  <2>2. Init => StopInv
    BY StopSteps DEF Init, StopInv, StoppedOnlyByReader, DestroyedFailed
  <2> QED
    BY <2>1, <2>2, InitIInv
<1>2. Numbers /\ [Next]_vars => Numbers'
  BY NextIInv, NextPeak, NextStopInv DEF IInv
<1>3. Numbers => NumbersAreTrue
  BY RetryHonest DEF NumbersAreTrue, StopInv
<1> QED
  BY <1>1, <1>2, <1>3, PTL DEF Spec

-----------------------------------------------------------------------------
(***************************************************************************)
(* The service. A start finds no process of the service left, what it waits *)
(* for is the child or dead, and an exit to come is of a dead process.      *)
(***************************************************************************)

SvcInv ==
    /\ SvcTypeOK
    /\ NoOrphan
    /\ FarmUp /\ task.pc = "start" => alive = {}
    /\ task.pc \in {"wait", "answered"} => child \in {task.p, None}
    /\ exits \cap alive = {}

SvcStep ==
    \/ SwitchOn \/ SwitchOff \/ ReadyAnswered \/ Started \/ DiedInStart \/ TimesOut
    \/ TickBegins \/ Probed \/ TickEnds \/ HandsOver \/ Gone
    \/ \E p \in Procs : Bind(p) \/ ExitEvent(p)
    \/ \E k \in Passwords : ChangeKey(k)
    \/ Killed \/ Tidied \/ Stop
    \/ \E p \in Procs : Dies(p) \/ BindFails(p) \/ Disconnect(p)
    \/ Spawn

LEMMA SvcStarts == SvcInit => SvcInv
<1>1. SvcInit => SvcTypeOK
  <2> SUFFICES ASSUME SvcInit PROVE SvcTypeOK
    OBVIOUS
  <2>1. task \in [pc : {"idle", "start", "wait", "answered", "tidy", "kill"}, p : Procs \cup {None}]
    BY DEF SvcInit
  <2>2. up \in BOOLEAN /\ wasUp \in BOOLEAN /\ advertised \in BOOLEAN
    BY DEF SvcInit
  <2> QED BY <2>1, <2>2 DEF SvcInit, SvcTypeOK
<1>2. SvcInit => alive = {} /\ task.pc = "start" /\ exits \cap alive = {}
  BY DEF SvcInit
<1> QED BY <1>1, <1>2 DEF SvcInv, NoOrphan

LEMMA SvcSteps ==
  ASSUME SvcInv, SvcStep
  PROVE  SvcInv'
<1> USE Pids DEF SvcInv, SvcTypeOK, NoOrphan, FarmUp, Passwords
<1>1. CASE SwitchOn
  BY <1>1 DEF SwitchOn, Idle
<1>2. CASE SwitchOff
  BY <1>2 DEF SwitchOff, Idle
<1>3. CASE ReadyAnswered
  BY <1>3 DEF ReadyAnswered
<1>4. CASE Started
  BY <1>4 DEF Started, Idle
<1>5. CASE DiedInStart
  BY <1>5 DEF DiedInStart, SwitchFailed, Idle
<1>6. CASE TimesOut
  BY <1>6 DEF TimesOut
<1>7. CASE TickBegins
  BY <1>7 DEF TickBegins, SendKey
<1>8. CASE Probed
  BY <1>8 DEF Probed
<1>9. CASE TickEnds
  BY <1>9 DEF TickEnds, SendKey
<1>10. CASE HandsOver
  BY <1>10 DEF HandsOver, SendKey
<1>11. CASE Gone
  BY <1>11 DEF Gone, Idle
<1>12. ASSUME NEW p \in Procs, Bind(p) PROVE SvcInv'
  BY <1>12 DEF Bind
<1>13. ASSUME NEW p \in Procs, ExitEvent(p) PROVE SvcInv'
  <2>1. SvcTypeOK'
    <3>1. advertised' \in BOOLEAN /\ up' \in BOOLEAN
      BY <1>13 DEF ExitEvent
    <3> QED BY <1>13, <3>1 DEF ExitEvent
  <2>2. alive' = alive /\ task' = task /\ farm' = farm /\ exits' = exits \ {p} /\ p \notin alive
    BY <1>13 DEF ExitEvent
  <2>3. child' = child \/ (child = p /\ child' = None)
    BY <1>13 DEF ExitEvent
  <2> QED BY <2>1, <2>2, <2>3
<1>14. ASSUME NEW k \in Passwords, ChangeKey(k) PROVE SvcInv'
  BY <1>14 DEF ChangeKey
<1>15. CASE Killed
  BY <1>15 DEF Killed, Ends, Idle
<1>16. CASE Tidied
  BY <1>16 DEF Tidied, Ends, SwitchFailed, Idle
<1>17. CASE Stop
  BY <1>17 DEF Stop, Ends
<1>18. ASSUME NEW p \in Procs, Dies(p) \/ BindFails(p) \/ Disconnect(p) PROVE SvcInv'
  BY <1>18 DEF Dies, BindFails, Disconnect, Ends
<1>19. CASE Spawn
  <2> DEFINE p == CHOOSE q \in Procs : q \notin alive \cup exits
  <2>1. p \in Procs /\ p \notin alive \cup exits
    <3>1. \E q \in Procs : q \notin alive \cup exits
      BY <1>19 DEF Spawn
    <3> QED BY <3>1
  <2>2. /\ child' = p /\ alive' = {p} /\ task' = [task EXCEPT !.pc = "wait", !.p = p]
        /\ ipc' = None /\ UNCHANGED <<up, wasUp, serving, exits, tick, advertised, farmKey, farm>>
    BY <1>19 DEF Spawn
  <2> HIDE DEF p
  <2> QED BY <2>1, <2>2
<1> QED
  BY <1>1, <1>2, <1>3, <1>4, <1>5, <1>6, <1>7, <1>8, <1>9, <1>10, <1>11, <1>12, <1>13,
     <1>14, <1>15, <1>16, <1>17, <1>18, <1>19 DEF SvcStep

(***************************************************************************)
(* The bus. A connection that is in has the id it is registered under, one  *)
(* that has not come in yet has none; an OSC address is subscribed exactly  *)
(* while it listens.                                                        *)
(***************************************************************************)

Registered ==
    /\ \A s \in Socks : st[s] \in {"free", "open"} => idOf[s] = None
    /\ \A s \in Socks : st[s] = "in" => idOf[s] \in Ids /\ mqttIds[idOf[s]] = s
    /\ \A i \in Ids : mqttIds[i] # None => idOf[mqttIds[i]] = i /\ st[mqttIds[i]] # "free"

LetIn ==
    /\ \A a \in Addrs : a \in listening <=> a \in subscribers
    /\ OnlyThePassword

BusInv == BusTypeOK /\ Registered /\ LetIn

LEMMA BusFresh ==
  ASSUME NEW k \in Passwords, Fresh(k)
  PROVE  BusInv'
  BY Kinds DEF Fresh, BusInv, BusTypeOK, Registered, LetIn, OnlyThePassword, Receives, Clients, Passwords

LEMMA BusStarts == BusInit => BusInv
  BY Kinds DEF BusInit, BusInv, BusTypeOK, Registered, LetIn, OnlyThePassword, Receives, Clients, Passwords

LEMMA BusTypeSteps ==
  ASSUME BusInv, BusStep \/ \E k \in Passwords : SetKey(k)
  PROVE  BusTypeOK'
<1> USE Kinds DEF BusInv, BusTypeOK, Clients, Passwords
<1>1. ASSUME NEW s \in Socks, Accept(s) \/ SockClosed(s) PROVE BusTypeOK'
  BY <1>1 DEF Accept, SockClosed
<1>2. ASSUME NEW s \in Socks, NEW i \in Ids, NEW k \in Passwords, Connect(s, i, k) PROVE BusTypeOK'
  BY <1>2 DEF Connect
<1>3. ASSUME NEW w \in Ws, WsClosed(w) \/ \E k \in Passwords : Upgrade(w, k) PROVE BusTypeOK'
  BY <1>3 DEF WsClosed, Upgrade
<1>4. ASSUME NEW c \in Clients, EndSent(c) \/ Destroyed(c) PROVE BusTypeOK'
  BY <1>4 DEF EndSent, Destroyed
<1>5. ASSUME NEW a \in Addrs, Unlisten(a) \/ \E k \in Passwords : Listen(a, k) PROVE BusTypeOK'
  BY <1>5 DEF Unlisten, Listen
<1>6. ASSUME NEW k \in Passwords, SetKey(k) PROVE BusTypeOK'
  BY <1>6 DEF SetKey
<1> QED
  BY <1>1, <1>2, <1>3, <1>4, <1>5, <1>6 DEF BusStep

LEMMA RegisteredSteps ==
  ASSUME BusInv, BusStep \/ \E k \in Passwords : SetKey(k)
  PROVE  Registered'
<1> USE Kinds DEF BusInv, BusTypeOK, Clients, Registered
<1>1. ASSUME NEW s \in Socks, Accept(s) PROVE Registered'
  BY <1>1 DEF Accept
<1>2. ASSUME NEW s \in Socks, SockClosed(s) PROVE Registered'
  BY <1>2 DEF SockClosed
<1>3. ASSUME NEW s \in Socks, NEW i \in Ids, NEW k \in Passwords, Connect(s, i, k) PROVE Registered'
  <2>1. CASE KeyOk(k)
    BY <1>3, <2>1 DEF Connect
  <2>2. CASE ~KeyOk(k)
    BY <1>3, <2>2 DEF Connect
  <2> QED BY <2>1, <2>2
<1>4. ASSUME NEW w \in Ws, WsClosed(w) \/ \E k \in Passwords : Upgrade(w, k) PROVE Registered'
  BY <1>4 DEF WsClosed, Upgrade
<1>5. ASSUME NEW c \in Clients, EndSent(c) \/ Destroyed(c) PROVE Registered'
  BY <1>5 DEF EndSent, Destroyed
<1>6. ASSUME NEW a \in Addrs, Unlisten(a) \/ \E k \in Passwords : Listen(a, k) PROVE Registered'
  BY <1>6 DEF Unlisten, Listen
<1>7. ASSUME NEW k \in Passwords, SetKey(k) PROVE Registered'
  BY <1>7 DEF SetKey
<1> QED
  BY <1>1, <1>2, <1>3, <1>4, <1>5, <1>6, <1>7 DEF BusStep

LEMMA LetInSteps ==
  ASSUME BusInv, BusStep \/ \E k \in Passwords : SetKey(k)
  PROVE  LetIn'
<1> USE Kinds DEF BusInv, BusTypeOK, Clients, LetIn, OnlyThePassword, Receives
<1>1. ASSUME NEW s \in Socks, Accept(s) \/ SockClosed(s) PROVE LetIn'
  BY <1>1 DEF Accept, SockClosed
<1>2. ASSUME NEW s \in Socks, NEW i \in Ids, NEW k \in Passwords, Connect(s, i, k) PROVE LetIn'
  BY <1>2 DEF Connect
<1>3. ASSUME NEW w \in Ws, WsClosed(w) \/ \E k \in Passwords : Upgrade(w, k) PROVE LetIn'
  BY <1>3 DEF WsClosed, Upgrade
<1>4. ASSUME NEW c \in Clients, EndSent(c) \/ Destroyed(c) PROVE LetIn'
  BY <1>4 DEF EndSent, Destroyed
<1>5. ASSUME NEW a \in Addrs, Unlisten(a) \/ \E k \in Passwords : Listen(a, k) PROVE LetIn'
  BY <1>5 DEF Unlisten, Listen
<1>6. ASSUME NEW k \in Passwords, SetKey(k) PROVE LetIn'
  BY <1>6 DEF SetKey
<1> QED
  BY <1>1, <1>2, <1>3, <1>4, <1>5, <1>6 DEF BusStep

LEMMA BusSteps ==
  ASSUME BusInv, BusStep \/ \E k \in Passwords : SetKey(k)
  PROVE  BusInv'
  BY BusTypeSteps, RegisteredSteps, LetInSteps DEF BusInv

(***************************************************************************)
(* The two together.                                                        *)
(***************************************************************************)

FarmBusInv == SvcInv /\ BusInv

LEMMA FarmBusInvHolds == FarmBusSpec => []FarmBusInv
<1>1. FarmBusInit => FarmBusInv
  BY SvcStarts, BusStarts DEF FarmBusInit, FarmBusInv
<1>2. FarmBusInv /\ [FarmBusNext]_farmBusVars => FarmBusInv'
  <2> SUFFICES ASSUME FarmBusInv, [FarmBusNext]_farmBusVars PROVE FarmBusInv'
    OBVIOUS
  <2> USE DEF FarmBusInv
  <2>0. ASSUME UNCHANGED svcVars PROVE SvcInv'
    BY <2>0 DEF svcVars, SvcInv, SvcTypeOK, NoOrphan, FarmUp
  <2>1. ASSUME UNCHANGED busVars PROVE BusInv'
    BY <2>1 DEF busVars, BusInv, BusTypeOK, Registered, LetIn, OnlyThePassword, Receives
  <2>2. CASE FarmStep
    BY <2>2, <2>1, SvcSteps DEF FarmStep, SvcStep
  <2>3. CASE EndStep
    <3>1. SvcInv'
      BY <2>3, SvcSteps DEF EndStep, SvcStep
    <3>2. password \in Passwords
      BY DEF BusInv, BusTypeOK
    <3>3. Fresh(password) \/ UNCHANGED busVars
      BY <2>3 DEF EndStep
    <3> QED BY <3>1, <3>2, <3>3, <2>1, BusFresh
  <2>4. CASE SpawnStep
    <3>1. SvcInv'
      BY <2>4, SvcSteps DEF SpawnStep, SvcStep
    <3>2. farmKey \in Passwords /\ Fresh(farmKey)
      BY <2>4 DEF SpawnStep, SvcInv, SvcTypeOK
    <3> QED BY <3>1, <3>2, BusFresh
  <2>5. CASE TakeKey
    <3>1. SvcInv'
      BY <2>5 DEF TakeKey, SvcInv, SvcTypeOK, NoOrphan, FarmUp
    <3>2. ipc \in Passwords /\ SetKey(ipc)
      BY <2>5 DEF TakeKey, SvcInv, SvcTypeOK
    <3> QED BY <3>1, <3>2, BusSteps
  <2>6. CASE ClientStep
    BY <2>6, <2>0, BusSteps DEF ClientStep
  <2>7. CASE UNCHANGED farmBusVars
    BY <2>7, <2>0, <2>1 DEF farmBusVars
  <2> QED BY <2>2, <2>3, <2>4, <2>5, <2>6, <2>7 DEF FarmBusNext
<1> QED BY <1>1, <1>2, PTL DEF FarmBusSpec

\* The state of the service and of the bus keeps its shape.
THEOREM BusTypeCorrect == FarmBusSpec => []FarmBusTypeOK
<1>1. FarmBusInv => FarmBusTypeOK
  BY DEF FarmBusInv, SvcInv, BusInv, FarmBusTypeOK
<1> QED BY <1>1, FarmBusInvHolds, PTL

\* For any number of boards and client ids, whatever the order of their closes: the
\* registry names the connection that is in, and no connection that has gone
\* (bus.js, onConnect() and its 'close' listener).
THEOREM RegistryStaysTrue == FarmBusSpec => []RegistryTrue
<1>1. FarmBusInv => RegistryTrue
  BY DEF FarmBusInv, BusInv, Registered, RegistryTrue
<1> QED BY <1>1, FarmBusInvHolds, PTL

\* For any number of clients and passwords: nobody receives at any door who was not
\* let in under the password of now (bus.js, setKey()).
THEOREM PasswordEndsSessions == FarmBusSpec => []OnlyThePassword
<1>1. FarmBusInv => OnlyThePassword
  BY DEF FarmBusInv, BusInv, LetIn
<1> QED BY <1>1, FarmBusInvHolds, PTL

\* Whatever starts, stops, crashes and timeouts cross: no process of the service
\* lives that the farm does not know (registry.js, start() and stop()).
THEOREM NothingOrphaned == FarmBusSpec => []NoOrphan
<1>1. FarmBusInv => NoOrphan
  BY DEF FarmBusInv, SvcInv
<1> QED BY <1>1, FarmBusInvHolds, PTL
=============================================================================
