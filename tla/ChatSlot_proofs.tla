---------------------------- MODULE ChatSlot_proofs ----------------------------
(***************************************************************************)
(* Proofs about the chat slot, for any set of replies and coroutines and    *)
(* any number of refusals: the types, that a coroutine owns the slot it     *)
(* streams in, and that the seat wait keeps its promises.                   *)
(*                                                                          *)
(* The last two are about calls that end without another one taking the     *)
(* slot between their awaits (NoOverlap): with it they are false, which     *)
(* section 6 of the README is about.                                        *)
(***************************************************************************)
EXTENDS ChatSlot, FiniteSetTheorems, TLAPS

NoOverlap == ~TailOverlap

-----------------------------------------------------------------------------
(* The invariant, in parts. *)

\* A coroutine knows its reply, and asks for the slot as a send or in the name of the reply;
\* what it resends or has the slot for has been begun.
CallPart ==
    \A k \in Calls :
        /\ call[k].pc # "off" => call[k].msg \in Msgs /\ call[k].want \in {"send", call[k].msg}
        /\ call[k].pc \in Acquired \/ (call[k].pc \in {"check", "thread"} /\ call[k].into)
              => status[call[k].msg] # "none"

\* One coroutine at most is between its acquire() and its finally, and until its stream
\* has ended the slot is its own.
SlotPart ==
    /\ \A k \in Calls : call[k].pc \in Talking => gov = [fg |-> "streaming", holder |-> call[k].want]
    /\ \A j, k \in Calls : call[j].pc \in Acquired /\ call[k].pc \in Acquired => j = k
    /\ gov.fg = "idle" => gov.holder = "none"

\* A stream that ends does not end the hold of a row that waits: its own row waits no more,
\* or the slot is no stream's.
EndPart ==
    \A k \in Calls :
        call[k].pc \in {"note", "stream", "failed"} \/ (call[k].pc \in Tail /\ gov.fg = "streaming")
            => status[call[k].msg] # "waiting"

\* The hold has its wait, and a row that waits has the slot in its name, resent or not.
HoldPart ==
    /\ gov.fg = "held" => wait # None /\ wait.msg = gov.holder
    /\ wait # None /\ status[wait.msg] = "waiting" => gov.holder = wait.msg

\* A reply that was begun has its row for as long as its thread.
RowPart ==
    /\ \A m \in Msgs : status[m] # "none" => row[m] \/ thread[m] = "deleted"
    /\ WaitingRowHasWait

\* Who refers to the wait works for its reply, and is the only one; and a row that was not
\* there will not come back.
RefPart ==
    /\ wait # None =>
          /\ \A k \in Calls \cap wait.refs : /\ wait.resending
                                             /\ call[k].pc # "off" /\ call[k].msg = wait.msg
          /\ \A j, k \in Calls \cap wait.refs : j = k
          /\ snap.pc = "check" /\ ~snap.there /\ "snap" \in wait.refs => thread[wait.msg] = "deleted"
    /\ \A k \in Calls : call[k].pc = "check" /\ ~call[k].there => thread[call[k].msg] = "deleted"

-----------------------------------------------------------------------------
(* The types. *)

CallRecords ==
    [pc : Acquired \cup {"off", "check", "thread"}, msg : Msgs \cup {None}, want : Msgs \cup {"send", "none"},
     into : BOOLEAN, cont : BOOLEAN, there : BOOLEAN, gen : {"none", "running", "aborted"},
     dead : BOOLEAN, tick : BOOLEAN]
GovStates == [fg : {"idle", "streaming", "held"}, holder : Msgs \cup {"send", "none"}]
SnapStates == [pc : {"idle", "check", "resend", "stop"}, there : BOOLEAN]
NoteRecords == [msg : Msgs, there : BOOLEAN, tick : BOOLEAN]
DeletionStates == [pc : {"off", "settle", "gone"}, msg : Msgs \cup {None}, on : Calls \cup {None}]

GovType == gov \in GovStates /\ background \in BOOLEAN
StoreType == /\ thread \in [Msgs -> {"new", "live", "deleted"}] /\ row \in [Msgs -> BOOLEAN]
             /\ status \in [Msgs -> {"none", "streaming", "waiting", "settled"}] /\ dead \subseteq Msgs
CallType == call \in [Calls -> CallRecords] /\ active \in Calls \cup {None} /\ inflight \in Calls \cup {None}
WaitType == wait \in Waits \cup {None}
SnapType == snap \in SnapStates /\ notes \subseteq NoteRecords
DeletionType == deletion \in DeletionStates

Types == GovType /\ StoreType /\ CallType /\ WaitType /\ SnapType /\ DeletionType

LEMMA TypeParts == TypeOK <=> Types
BY DEF Types, TypeOK, GovType, StoreType, CallType, WaitType, SnapType, DeletionType, CallRecords, Waits,
       GovStates, SnapStates, NoteRecords, DeletionStates

\* Off and Quiet are what they should be, and a wait is not None.
LEMMA Constants ==
  /\ Off \in CallRecords /\ Off.pc = "off" /\ Quiet \in SnapStates /\ Quiet.pc = "idle"
  /\ IdleGov \in GovStates /\ None \notin Msgs /\ None \notin Calls /\ "snap" \notin Calls
  /\ "send" \notin Msgs /\ "none" \notin Msgs /\ None \notin Waits
BY ChatSlotAssumption, NoWaitAssumption DEF Off, CallRecords, Quiet, SnapStates, IdleGov, GovStates, Acquired

\* The parts of a record of a coroutine that an action writes.
LEMMA CallWritten ==
  ASSUME NEW c \in CallRecords
  PROVE  /\ \A pc \in Acquired \cup {"off", "check", "thread"} : [c EXCEPT !.pc = pc] \in CallRecords
         /\ \A b \in BOOLEAN : /\ [c EXCEPT !.there = b] \in CallRecords /\ [c EXCEPT !.into = b] \in CallRecords
                               /\ [c EXCEPT !.cont = b] \in CallRecords /\ [c EXCEPT !.dead = b] \in CallRecords
         /\ \A g \in {"none", "running", "aborted"} : [c EXCEPT !.gen = g] \in CallRecords
BY DEF CallRecords

\* What the helpers return.
LEMMA Helpers ==
  ASSUME Types, NEW k \in Calls
  PROVE  /\ \A w \in Waits \cup {None} : WaitAfter(w, k) \in Waits \cup {None}
         /\ SnapAfter(k) \in SnapStates
         /\ \A m \in Msgs : ReleaseHold(gov, m) \in GovStates
         /\ \A want : \A g \in GovStates : ReleaseStream(g, want) \in GovStates
<1>1. ASSUME NEW w \in Waits PROVE WaitAfter(w, k) \in Waits
  BY <1>1 DEF WaitAfter, Waits
<1>2. WaitAfter(None, k) = None
  BY DEF WaitAfter, Refers
<1> QED BY <1>1, <1>2, Constants DEF Types, SnapAfter, ReleaseHold, ReleaseStream, GovType, SnapType

LEMMA FinallyTypes ==
  ASSUME Types, NEW k \in Calls, NEW g \in GovStates, NEW w \in Waits \cup {None}, Finally(k, g, w),
         UNCHANGED <<thread, row, status, dead, notes>>
  PROVE  Types'
<1>1. GovType' /\ StoreType'
  BY Helpers DEF Types, Finally, GovType, StoreType
<1>2. CallType' /\ WaitType' /\ SnapType'
  BY Helpers, Constants DEF Types, Finally, CallType, WaitType, SnapType
<1>3. DeletionType'
  BY DEF Types, Finally, DeletionType, DeletionStates
<1> QED BY <1>1, <1>2, <1>3 DEF Types

LEMMA AfterEndTypes ==
  ASSUME Types, NEW k \in Calls, call[k].pc # "off" => call[k].msg \in Msgs, call[k].pc # "off", FinallyAfterEnd(k),
         UNCHANGED <<thread, row, status, dead, notes>>
  PROVE  Types'
BY FinallyTypes, Helpers DEF Types, FinallyAfterEnd, GovType, WaitType

\* A call that runs has a reply, and a deletion under way a thread.
HasMsg(k) == call[k].pc # "off" => call[k].msg \in Msgs
Known == (\A k \in Calls : HasMsg(k)) /\ (deletion.pc # "off" => deletion.msg \in Msgs)

LEMMA ArmedWait ==
  ASSUME Types, NEW k \in Calls, call[k].msg \in Msgs
  PROVE  Armed(k) \in Waits /\ Armed(k).msg = call[k].msg /\ Armed(k).refs = {}
<1>1. MaxAttempts \in Nat \ {0} /\ call[k] \in CallRecords /\ (wait # None => wait \in Waits)
  BY ChatSlotAssumption DEF Types, CallType, WaitType
<1> QED BY <1>1 DEF Armed, Waits, CallRecords

LEMMA RunTypes ==
  ASSUME Types, NEW k \in Calls, HasMsg(k), Run(k)
  PROVE  Types'
<1> USE DEF Types
<1>0. call[k] \in CallRecords
  BY DEF CallType
<1>1. CASE ResendGone(k)
  <2>1. GovType' /\ WaitType'
    BY <1>1, Helpers, Constants DEF ResendGone, Abandon, Refers, GovType, WaitType, Waits
  <2>2. CallType' /\ SnapType' /\ StoreType' /\ DeletionType'
    BY <1>1, Helpers, Constants DEF ResendGone, CallType, SnapType, StoreType, DeletionType
  <2> QED BY <2>1, <2>2
<1>2. CASE ResendChecked(k)
  <2>1. CallType'
    BY <1>2, <1>0 DEF ResendChecked, CallType, CallRecords
  <2>2. WaitType'
    BY <1>2 DEF ResendChecked, Refers, WaitType, Waits
  <2> QED BY <1>2, <2>1, <2>2 DEF ResendChecked, GovType, SnapType, StoreType, DeletionType
<1>3. CASE TurnedAway(k)
  BY <1>3, Helpers, Constants DEF TurnedAway, ReturnEarly, GovType, StoreType, CallType, WaitType, SnapType, DeletionType
<1>4. CASE Accepted(k)
  <2>1. GovType'
    BY <1>0, <1>4 DEF Accepted, Acquire, GovType, GovStates, CallRecords
  <2>2. StoreType'
    BY <1>4 DEF Accepted, StoreType, HasMsg
  <2>3. CallType'
    BY <1>0, <1>4 DEF Accepted, CallType, CallRecords, Acquired
  <2> QED BY <1>4, <2>1, <2>2, <2>3 DEF Accepted, WaitType, SnapType, DeletionType
<1>5. CASE LocalNote(k)
  <2>1. GovType'
    BY <1>0, <1>5 DEF LocalNote, Acquire, GovType, GovStates, CallRecords
  <2>2. StoreType'
    BY <1>5 DEF LocalNote, StoreType, HasMsg
  <2>3. CallType'
    BY <1>0, <1>5 DEF LocalNote, CallType, CallRecords, Acquired
  <2> QED BY <1>5, <2>1, <2>2, <2>3 DEF LocalNote, WaitType, SnapType, DeletionType
<1>6. CASE ContinueDeclined(k)
  BY <1>6, Helpers, Constants DEF ContinueDeclined, ReturnEarly, GovType, StoreType, CallType, WaitType, SnapType, DeletionType
<1>7. CASE NoteWritten(k) \/ FailureWritten(k)
  BY <1>7, AfterEndTypes DEF NoteWritten, FailureWritten, HasMsg
<1>8. CASE StreamEndsDead(k) \/ Refreshed(k)
  BY <1>8, FinallyTypes DEF StreamEndsDead, Refreshed, GovType, WaitType
<1>9. CASE StartGeneration(k)
  <2>1. CallType'
    BY <1>0, <1>9 DEF StartGeneration, CallType, CallRecords, Acquired
  <2> QED BY <1>9, <2>1 DEF StartGeneration, HasMsg, GovType, StoreType, WaitType, SnapType, DeletionType
<1>10. CASE PipelineThrows(k)
  <2>1. CallType'
    BY <1>0, <1>10 DEF PipelineThrows, CallType, CallRecords, Acquired
  <2> QED BY <1>10, <2>1 DEF PipelineThrows, HasMsg, GovType, StoreType, WaitType, SnapType, DeletionType
<1>11. CASE StreamEnds(k)
  <2>1. CallType'
    BY <1>0, <1>11 DEF StreamEnds, CallType, CallRecords, Acquired
  <2> QED BY <1>11, <2>1 DEF StreamEnds, HasMsg, GovType, StoreType, WaitType, SnapType, DeletionType
<1>12. CASE SeatsFull(k)
  <2>1. CallType'
    BY <1>0, <1>12 DEF SeatsFull, CallType, CallRecords, Acquired
  <2>2. WaitType'
    <3>1. call[k].msg \in Msgs /\ wait' = Armed(k)
      BY <1>12 DEF SeatsFull, HasMsg
    <3> QED BY <3>1, ArmedWait DEF WaitType
  <2>3. GovType'
    BY <1>12 DEF SeatsFull, HasMsg, GovType, GovStates
  <2> QED BY <1>12, <2>1, <2>2, <2>3 DEF SeatsFull, HasMsg, StoreType, SnapType, DeletionType
<1>13. CASE Painted(k) \/ Observed(k)
  <2>1. CallType'
    BY <1>0, <1>13 DEF Painted, Observed, CallType, CallRecords, Acquired
  <2>2. StoreType'
    BY <1>13 DEF Painted, Observed, HasMsg, StoreType
  <2> QED BY <1>13, <2>1, <2>2 DEF Painted, Observed, GovType, WaitType, SnapType, DeletionType
<1>14. CASE Finalized(k)
  <2>1. CallType'
    BY <1>0, <1>14 DEF Finalized, CallType, CallRecords, Acquired
  <2>2. GovType' /\ WaitType'
    BY <1>14, Helpers DEF Finalized, HasMsg, GovType, WaitType
  <2> QED BY <1>14, <2>1, <2>2 DEF Finalized, StoreType, SnapType, DeletionType
<1> QED BY <1>1, <1>2, <1>3, <1>4, <1>5, <1>6, <1>7, <1>8, <1>9, <1>10, <1>11, <1>12, <1>13, <1>14 DEF Run

LEMMA ResendTypes ==
  ASSUME Types, NEW k \in Calls, wait # None, NEW there \in BOOLEAN, NEW tick \in BOOLEAN,
         Resend(k, wait, there, tick), UNCHANGED <<active, inflight>>
  PROVE  CallType' /\ WaitType'
<1>1. wait \in Waits
  BY DEF Types, WaitType
<1>2. [Off EXCEPT !.pc = "check", !.msg = wait.msg, !.want = wait.msg, !.into = TRUE, !.cont = wait.cont,
                  !.there = there, !.tick = tick] \in CallRecords
  BY <1>1 DEF Off, CallRecords, Waits
<1>3. WaitType'
  BY <1>1 DEF Resend, Claimed, WaitType, Waits
<1> QED BY <1>2, <1>3 DEF Resend, Types, CallType

LEMMA StopWaitingTypes ==
  ASSUME Types, wait # None, StopWaiting, UNCHANGED <<thread, dead, background>>, row' \in [Msgs -> BOOLEAN]
  PROVE  GovType' /\ StoreType' /\ WaitType' /\ wait.msg \in Msgs
<1>1. wait.msg \in Msgs
  BY DEF Types, WaitType, Waits
<1> QED BY <1>1, Helpers, Constants DEF Types, StopWaiting, GovType, StoreType, WaitType, ReleaseHold

LEMMA SnapTypes ==
  ASSUME Types, SnapStart \/ SnapStep
  PROVE  Types'
<1> USE DEF Types
<1>0. wait # None => wait \in Waits /\ wait.msg \in Msgs
  BY DEF WaitType, Waits
<1>n. wait # None /\ NoteRefreshed => row' \in [Msgs -> BOOLEAN]
  BY <1>0 DEF NoteRefreshed, StoreType
<1>1. CASE SnapStart
  <2>1. SnapType' /\ WaitType'
    BY <1>0, <1>1 DEF SnapStart, SnapType, SnapStates, WaitType, Waits, StoreType
  <2> QED BY <1>1, <2>1 DEF SnapStart, GovType, StoreType, CallType, DeletionType
<1>2. CASE SnapGone
  <2>1. GovType' /\ WaitType'
    BY <1>0, <1>2, Constants DEF SnapGone, Abandon, ReleaseHold, GovType, WaitType
  <2> QED BY <1>2, <2>1, Constants DEF SnapGone, SnapType, StoreType, CallType, DeletionType
<1>3. CASE NothingToDecide
  <2>1. WaitType'
    BY <1>0, <1>3 DEF NothingToDecide, WaitType, Waits
  <2> QED BY <1>3, <2>1, Constants DEF NothingToDecide, GovType, SnapType, StoreType, CallType, DeletionType
<1>4. CASE GiveUp
  <2>1. wait # None /\ StopWaiting /\ UNCHANGED <<thread, dead, background>> /\ row' \in [Msgs -> BOOLEAN]
    BY <1>4, <1>n DEF GiveUp, Deciding
  <2>2. GovType' /\ StoreType' /\ WaitType'
    BY <2>1, StopWaitingTypes
  <2>3. [msg |-> wait.msg, there |-> row'[wait.msg], tick |-> TRUE] \in NoteRecords
    <3>1. wait.msg \in Msgs /\ row'[wait.msg] \in BOOLEAN
      BY <1>0, <2>1
    <3> QED BY <3>1 DEF NoteRecords
  <2>4. SnapType'
    BY <1>4, <2>3 DEF GiveUp, SnapType, SnapStates, Quiet
  <2> QED BY <1>4, <2>2, <2>4 DEF GiveUp, CallType, DeletionType
<1>5. CASE KeepWaiting
  <2>1. WaitType' /\ wait # None
    <3>1. PICK s \in BOOLEAN : wait' = [wait EXCEPT !.scheduled = s, !.refs = @ \ {"snap"}]
      BY <1>5 DEF KeepWaiting
    <3>2. wait \in Waits /\ wait # None
      BY <1>0, <1>5 DEF KeepWaiting, Deciding
    <3>3. wait' \in Waits
      BY <3>1, <3>2 DEF Waits
    <3> QED BY <3>2, <3>3 DEF WaitType
  <2>2. StoreType'
    BY <1>5, <1>n, <2>1 DEF KeepWaiting, StoreType
  <2> QED BY <1>5, <2>1, <2>2, Constants DEF KeepWaiting, GovType, SnapType, CallType, DeletionType
<1>6. ASSUME NEW k \in Calls, SnapResend(k) PROVE Types'
  <2>1. wait # None /\ NoteRefreshed /\ row' \in [Msgs -> BOOLEAN] /\ UNCHANGED <<active, inflight>>
    BY <1>6, <1>n DEF SnapResend, Deciding
  <2>2. row'[wait.msg] \in BOOLEAN /\ Resend(k, wait, row'[wait.msg], TRUE)
    BY <1>0, <1>6, <2>1 DEF SnapResend
  <2>3. CallType' /\ WaitType'
    BY <2>1, <2>2, ResendTypes
  <2>4. SnapType'
    BY <1>6 DEF SnapResend, SnapType, Quiet, SnapStates
  <2> QED BY <1>6, <2>1, <2>3, <2>4 DEF SnapResend, GovType, StoreType, DeletionType
<1> QED BY <1>1, <1>2, <1>3, <1>4, <1>5, <1>6 DEF SnapStep

LEMMA ReaderTypes ==
  ASSUME Types, NEW k \in Calls, NEW m \in Msgs,
         Submit(k, m) \/ Continue(k, m) \/ TryNow(k) \/ Delete(m) \/ DeleteAborts(m)
  PROVE  Types'
<1> USE DEF Types
<1>1. CASE Submit(k, m) \/ Continue(k, m)
  <2>1. /\ [Off EXCEPT !.pc = "thread", !.msg = m, !.want = "send", !.there = TRUE] \in CallRecords
        /\ [Off EXCEPT !.pc = "thread", !.msg = m, !.want = "send", !.into = TRUE, !.cont = TRUE, !.there = TRUE]
              \in CallRecords
    BY DEF Off, CallRecords
  <2>2. CallType' /\ StoreType'
    BY <1>1, <2>1 DEF Submit, Continue, CallType, StoreType
  <2> QED BY <1>1, <2>2 DEF Submit, Continue, GovType, WaitType, SnapType, DeletionType
<1>2. CASE TryNow(k)
  <2>1. wait # None /\ row[wait.msg] \in BOOLEAN
    BY <1>2 DEF TryNow, WaitType, Waits, StoreType
  <2>2. CallType' /\ WaitType'
    BY <1>2, <2>1, ResendTypes DEF TryNow
  <2> QED BY <1>2, <2>2 DEF TryNow, GovType, StoreType, SnapType, DeletionType
<1>3. CASE Delete(m)
  BY <1>3 DEF Delete, DeleteRows, GovType, StoreType, CallType, WaitType, SnapType, DeletionType, DeletionStates
<1>4. CASE DeleteAborts(m)
  <2>1. active \in Calls /\ call[active] \in CallRecords
    BY <1>4 DEF DeleteAborts, StreamsInto, CallType
  <2>2. CallType'
    BY <1>4, <2>1 DEF DeleteAborts, CallType, CallRecords
  <2>3. DeletionType'
    BY <1>4 DEF DeleteAborts, DeletionType, DeletionStates, CallType
  <2> QED BY <1>4, <2>2, <2>3 DEF DeleteAborts, GovType, StoreType, WaitType, SnapType
<1> QED BY <1>1, <1>2, <1>3, <1>4

LEMMA OtherTypes ==
  ASSUME Types, Known,
         Age \/ StopStream \/ CancelWait \/ Deleting \/ AskStarts \/ AskEnds \/ \E n \in notes : NoteRepainted(n)
  PROVE  Types'
<1> USE DEF Types
<1>1. CASE Age
  <2>1. WaitType'
    BY <1>1 DEF Age, WaitType, Waits
  <2> QED BY <1>1, <2>1 DEF Age, GovType, StoreType, CallType, SnapType, DeletionType
<1>2. CASE StopStream
  <2>1. active \in Calls /\ call[active] \in CallRecords
    BY <1>2 DEF StopStream, CallType
  <2>2. CallType'
    BY <1>2, <2>1 DEF StopStream, CallType, CallRecords
  <2> QED BY <1>2, <2>2 DEF StopStream, GovType, StoreType, WaitType, SnapType, DeletionType
<1>3. CASE CancelWait
  <2>1. wait # None /\ StopWaiting /\ UNCHANGED <<thread, dead, background>> /\ row' \in [Msgs -> BOOLEAN]
    BY <1>3 DEF CancelWait, StoreType
  <2>2. GovType' /\ StoreType' /\ WaitType' /\ wait.msg \in Msgs
    BY <2>1, StopWaitingTypes
  <2>3. [msg |-> wait.msg, there |-> row[wait.msg], tick |-> FALSE] \in NoteRecords
    <3>1. wait.msg \in Msgs /\ row[wait.msg] \in BOOLEAN
      BY <2>2 DEF StoreType
    <3> QED BY <3>1 DEF NoteRecords
  <2>4. SnapType'
    BY <1>3, <2>3 DEF CancelWait, SnapType
  <2> QED BY <1>3, <2>2, <2>4 DEF CancelWait, CallType, DeletionType
<1>4. CASE DeleteSettled
  <2>1. StoreType' /\ DeletionType'
    BY <1>4 DEF DeleteSettled, DeleteRows, StoreType, DeletionType, DeletionStates
  <2> QED BY <1>4, <2>1 DEF DeleteSettled, GovType, CallType, WaitType, SnapType
<1>5. CASE DeleteHeard
  <2>1. StoreType' /\ DeletionType'
    BY <1>5 DEF DeleteHeard, Known, StoreType, DeletionType, DeletionStates
  <2>2. CallType'
    <3>1. CASE StreamsInto(deletion.msg)
      <4>1. active \in Calls /\ call[active] \in CallRecords
        BY <3>1 DEF StreamsInto, CallType
      <4>2. [call[active] EXCEPT !.dead = TRUE, !.gen = "aborted"] \in CallRecords
        BY <4>1 DEF CallRecords
      <4> QED BY <1>5, <3>1, <4>1, <4>2 DEF DeleteHeard, CallType
    <3>2. CASE ~StreamsInto(deletion.msg)
      BY <1>5, <3>2 DEF DeleteHeard, CallType
    <3> QED BY <3>1, <3>2
  <2> QED BY <1>5, <2>1, <2>2 DEF DeleteHeard, GovType, WaitType, SnapType
<1>6. CASE AskStarts \/ AskEnds
  BY <1>6 DEF AskStarts, AskEnds, GovType, StoreType, CallType, WaitType, SnapType, DeletionType
<1>7. ASSUME NEW n \in notes, NoteRepainted(n) PROVE Types'
  <2>1. StoreType' /\ SnapType'
    BY <1>7, Constants DEF NoteRepainted, StoreType, SnapType, NoteRecords
  <2> QED BY <1>7, <2>1 DEF NoteRepainted, GovType, CallType, WaitType, DeletionType
<1> QED BY <1>1, <1>2, <1>3, <1>4, <1>5, <1>6, <1>7 DEF Deleting

-----------------------------------------------------------------------------
(* Where a step takes a coroutine. *)

Others(k) == \A j \in Calls \ {k} : call'[j] = call[j]
Moves(k, to) == /\ Others(k) /\ call'[k].pc = to
                /\ to # "off" => call'[k].msg = call[k].msg /\ call'[k].want = call[k].want

\* It is over when an action of Ending is taken.
Ending(k) == \/ ResendGone(k) \/ TurnedAway(k) \/ ContinueDeclined(k) \/ NoteWritten(k)
             \/ FailureWritten(k) \/ StreamEndsDead(k) \/ Refreshed(k)

LEMMA RunMoves ==
  ASSUME Types, NEW k \in Calls
  PROVE  /\ Ending(k) => Moves(k, "off")
         /\ ResendChecked(k) => Moves(k, "thread") /\ call'[k].into = call[k].into
         /\ Accepted(k) => Moves(k, "path")
         /\ LocalNote(k) => Moves(k, "note")
         /\ StartGeneration(k) => Moves(k, "stream")
         /\ PipelineThrows(k) => Moves(k, "failed")
         /\ StreamEnds(k) \/ Painted(k) => Moves(k, "observe")
         /\ SeatsFull(k) => Moves(k, "painting")
         /\ Observed(k) => Moves(k, "final")
         /\ Finalized(k) => Moves(k, "refresh")
<1> USE DEF Moves, Others
<1>0. call \in [Calls -> CallRecords] /\ call[k] \in CallRecords
  BY DEF Types, CallType
<1>1. Ending(k) => Moves(k, "off")
  BY <1>0, Constants DEF Ending, ResendGone, TurnedAway, ContinueDeclined, NoteWritten, FailureWritten, StreamEndsDead,
                         Refreshed, ReturnEarly, FinallyAfterEnd, Finally
<1>2. ResendChecked(k) => Moves(k, "thread") /\ call'[k].into = call[k].into
  BY <1>0 DEF ResendChecked, CallRecords
<1>3. Accepted(k) => Moves(k, "path")
  BY <1>0 DEF Accepted, CallRecords
<1>4. LocalNote(k) => Moves(k, "note")
  BY <1>0 DEF LocalNote, CallRecords
<1>5. StartGeneration(k) => Moves(k, "stream")
  BY <1>0 DEF StartGeneration, CallRecords
<1>6. PipelineThrows(k) => Moves(k, "failed")
  BY <1>0 DEF PipelineThrows, CallRecords
<1>7. StreamEnds(k) \/ Painted(k) => Moves(k, "observe")
  BY <1>0 DEF StreamEnds, Painted, CallRecords
<1>8. SeatsFull(k) => Moves(k, "painting")
  BY <1>0 DEF SeatsFull, CallRecords
<1>9. Observed(k) => Moves(k, "final")
  BY <1>0 DEF Observed, CallRecords
<1>10. Finalized(k) => Moves(k, "refresh")
  BY <1>0 DEF Finalized, CallRecords
<1> QED BY <1>1, <1>2, <1>3, <1>4, <1>5, <1>6, <1>7, <1>8, <1>9, <1>10

\* What leaves every coroutine where it is: it may abort a generation.
Still == \A k \in Calls : /\ call'[k].pc = call[k].pc /\ call'[k].msg = call[k].msg /\ call'[k].want = call[k].want
                          /\ call'[k].into = call[k].into /\ call'[k].there = call[k].there

\* The steps that take no coroutine on.
Outside == \/ SnapStart \/ SnapGone \/ NothingToDecide \/ GiveUp \/ KeepWaiting
           \/ (\E n \in notes : NoteRepainted(n))
           \/ Age \/ StopStream \/ CancelWait
           \/ (\E m \in Msgs : Delete(m) \/ DeleteAborts(m))
           \/ Deleting \/ AskStarts \/ AskEnds

LEMMA OutsideStill ==
  ASSUME Types, Outside
  PROVE  Still
<1>0. call \in [Calls -> CallRecords] /\ active \in Calls \cup {None}
  BY DEF Types, CallType
<1>1. CASE UNCHANGED call
  BY <1>1 DEF Still
<1>2. ASSUME active \in Calls, \/ call' = [call EXCEPT ![active].gen = "aborted"]
                               \/ call' = [call EXCEPT ![active].dead = TRUE, ![active].gen = "aborted"]
      PROVE  Still
  BY <1>0, <1>2 DEF Still, CallRecords
<1>3. \/ UNCHANGED call
      \/ active # None /\ \/ call' = [call EXCEPT ![active].gen = "aborted"]
                          \/ call' = [call EXCEPT ![active].dead = TRUE, ![active].gen = "aborted"]
  BY DEF Outside, SnapStart, SnapGone, NothingToDecide, GiveUp, KeepWaiting, NoteRepainted, Age, StopStream,
         CancelWait, Delete, DeleteAborts, Deleting, DeleteSettled, DeleteHeard, AskStarts, AskEnds, StreamsInto
<1> QED BY <1>0, <1>1, <1>2, <1>3

\* The steps that begin one: where it is, and what it works for.
LEMMA BeginMoves ==
  ASSUME Types, NEW k \in Calls
  PROVE  /\ \A m \in Msgs : Submit(k, m) =>
                /\ Others(k) /\ call[k].pc = "off" /\ call'[k].pc = "thread" /\ call'[k].msg = m /\ call'[k].want = "send"
                /\ ~call'[k].into
         /\ \A m \in Msgs : Continue(k, m) =>
                /\ Others(k) /\ call[k].pc = "off" /\ call'[k].pc = "thread" /\ call'[k].msg = m /\ call'[k].want = "send"
         /\ TryNow(k) \/ SnapResend(k) =>
                /\ Others(k) /\ call[k].pc = "off" /\ call'[k].pc = "check"
                /\ call'[k].msg = wait.msg /\ call'[k].want = wait.msg
                /\ call'[k].there = row'[wait.msg] /\ wait # None /\ ~wait.resending
                /\ wait' = [Claimed(wait) EXCEPT !.refs = (@ \cup {k}) \ {"snap"}]
<1>0. call \in [Calls -> CallRecords]
  BY DEF Types, CallType
<1>1. ASSUME NEW m \in Msgs, Submit(k, m)
      PROVE  /\ Others(k) /\ call[k].pc = "off" /\ call'[k].pc = "thread" /\ call'[k].msg = m /\ call'[k].want = "send"
             /\ ~call'[k].into
  BY <1>0, <1>1 DEF Submit, Off, Others
<1>2. ASSUME NEW m \in Msgs, Continue(k, m)
      PROVE  Others(k) /\ call[k].pc = "off" /\ call'[k].pc = "thread" /\ call'[k].msg = m /\ call'[k].want = "send"
  BY <1>0, <1>2 DEF Continue, Off, Others
<1>3. ASSUME TryNow(k) \/ SnapResend(k)
      PROVE  /\ Others(k) /\ call[k].pc = "off" /\ call'[k].pc = "check"
             /\ call'[k].msg = wait.msg /\ call'[k].want = wait.msg
             /\ call'[k].there = row'[wait.msg] /\ wait # None /\ ~wait.resending
             /\ wait' = [Claimed(wait) EXCEPT !.refs = (@ \cup {k}) \ {"snap"}]
  <2>1. PICK tick \in BOOLEAN : /\ Resend(k, wait, row'[wait.msg], tick) /\ call[k] = Off
                                /\ wait # None /\ ~wait.resending
    BY <1>3 DEF TryNow, SnapResend, Deciding
  <2> QED BY <1>0, <2>1 DEF Resend, Off, Others
<1> QED BY <1>1, <1>2, <1>3

LEMMA NextSplit ==
  Next <=> \/ \E k \in Calls : Run(k)
           \/ \E k \in Calls : (\E m \in Msgs : Submit(k, m) \/ Continue(k, m)) \/ TryNow(k) \/ SnapResend(k)
           \/ Outside
BY DEF Next, Outside, SnapStep

-----------------------------------------------------------------------------
(* The types, and what a coroutine holds. *)

\* A wait is for a reply that was begun, a deletion for a thread.
NamesPart == /\ wait # None => status[wait.msg] # "none"
             /\ deletion.pc # "off" => deletion.msg \in Msgs

Base == Types /\ CallPart /\ NamesPart

\* What a step does to what the store and the reader see of the replies.
StatusKnown == \A m \in Msgs : status[m] # "none" => status'[m] # "none"

LEMMA StatusStays ==
  ASSUME Types, Next
  PROVE  StatusKnown
<1>0. status \in [Msgs -> {"none", "streaming", "waiting", "settled"}]
  BY DEF Types, StoreType
<1>1. ASSUME NEW k \in Calls, Run(k) PROVE StatusKnown
  BY <1>0, <1>1 DEF Run, StatusKnown, ResendGone, ResendChecked, TurnedAway, Accepted, LocalNote, ContinueDeclined,
     NoteWritten, StartGeneration, PipelineThrows, FailureWritten, StreamEnds, StreamEndsDead, SeatsFull, Painted,
     Observed, Finalized, Refreshed
<1>2. CASE ~\E k \in Calls : Run(k)
  BY <1>0, <1>2 DEF Next, StatusKnown, Submit, Continue, TryNow, SnapStart, SnapStep, SnapGone, NothingToDecide, GiveUp,
     KeepWaiting, SnapResend, NoteRepainted, Age, StopStream, CancelWait, StopWaiting, Delete, DeleteAborts, Deleting,
     DeleteSettled, DeleteHeard, DeleteRows, AskStarts, AskEnds
<1> QED BY <1>1, <1>2

LEMMA CallsKept ==
  ASSUME Base, Next
  PROVE  CallPart'
<1> USE DEF Base
<1>0. StatusKnown /\ status \in [Msgs -> {"none", "streaming", "waiting", "settled"}]
  BY StatusStays DEF Types, StoreType
<1>1. ASSUME NEW k \in Calls, Others(k),
             call'[k].pc # "off" => call'[k].msg \in Msgs /\ call'[k].want \in {"send", call'[k].msg},
             call'[k].pc \in Acquired \/ (call'[k].pc \in {"check", "thread"} /\ call'[k].into)
                => status'[call'[k].msg] # "none"
      PROVE  CallPart'
  <2>1. ASSUME NEW j \in Calls \ {k}
        PROVE  /\ call'[j] = call[j]
               /\ call[j].pc # "off" => call[j].msg \in Msgs
               /\ call[j].pc \in Acquired => call[j].pc # "off"
    BY <1>1 DEF CallPart, Others, Acquired
  <2>2. \A j \in Calls \ {k} :
          /\ call'[j].pc # "off" => call'[j].msg \in Msgs /\ call'[j].want \in {"send", call'[j].msg}
          /\ call'[j].pc \in Acquired \/ (call'[j].pc \in {"check", "thread"} /\ call'[j].into)
                => status'[call'[j].msg] # "none"
    BY <1>0, <2>1 DEF CallPart, StatusKnown
  <2> QED BY <1>1, <2>2 DEF CallPart
<1>2. ASSUME NEW k \in Calls, NEW to, Moves(k, to), call[k].pc # "off",
             to \in Acquired \/ (to \in {"check", "thread"} /\ call'[k].into) => status'[call[k].msg] # "none"
      PROVE  CallPart'
  BY <1>1, <1>2 DEF CallPart, Moves, Acquired
<1>3. ASSUME NEW k \in Calls, Run(k) PROVE CallPart'
  <2>0. call[k].pc # "off" /\ call[k].msg \in Msgs
    <3>1. call[k].pc # "off"
      BY <1>3 DEF Run, ResendGone, ResendChecked, TurnedAway, Accepted, LocalNote, ContinueDeclined, NoteWritten,
         StartGeneration, PipelineThrows, FailureWritten, StreamEnds, StreamEndsDead, SeatsFull, Painted,
         Observed, Finalized, Refreshed
    <3> QED BY <3>1 DEF CallPart
  <2>1. CASE Ending(k)
    BY <1>2, <2>0, <2>1, RunMoves DEF Acquired
  <2>2. CASE ResendChecked(k)
    <3>1. Moves(k, "thread") /\ call'[k].into = call[k].into /\ call[k].pc = "check"
      BY <2>2, RunMoves DEF ResendChecked
    <3> QED BY <1>0, <1>2, <2>0, <3>1 DEF CallPart, StatusKnown, Acquired
  <2>3. CASE Accepted(k)
    <3>1. Moves(k, "path") /\ call[k].pc = "thread"
      BY <2>3, RunMoves DEF Accepted
    <3>2. status'[call[k].msg] # "none"
      BY <1>0, <2>0, <2>3, <3>1 DEF Accepted, CallPart, StatusKnown
    <3> QED BY <1>2, <2>0, <3>1, <3>2
  <2>4. CASE LocalNote(k)
    <3>1. Moves(k, "note") /\ status'[call[k].msg] # "none"
      BY <1>0, <2>0, <2>4, RunMoves DEF LocalNote
    <3> QED BY <1>2, <2>0, <3>1
  <2>5. ASSUME NEW to, Moves(k, to), call[k].pc \in Acquired PROVE CallPart'
    BY <1>0, <1>2, <2>0, <2>5 DEF CallPart, StatusKnown
  <2>6. CASE \/ StartGeneration(k) \/ PipelineThrows(k) \/ StreamEnds(k) \/ Painted(k) \/ SeatsFull(k)
             \/ Observed(k) \/ Finalized(k)
    <3>1. call[k].pc \in Acquired
      BY <2>6 DEF StartGeneration, PipelineThrows, StreamEnds, Painted, SeatsFull, Observed, Finalized, Acquired
    <3> QED BY <2>5, <2>6, <3>1, RunMoves
  <2> QED BY <1>3, <2>1, <2>2, <2>3, <2>4, <2>6 DEF Run, Ending
<1>4. ASSUME NEW k \in Calls, NEW m \in Msgs, Submit(k, m) PROVE CallPart'
  BY <1>1, <1>4, BeginMoves DEF Acquired
<1>5. ASSUME NEW k \in Calls, NEW m \in Msgs, Continue(k, m) PROVE CallPart'
  <2>1. status'[m] # "none"
    BY <1>0, <1>5 DEF Continue
  <2> QED BY <1>1, <1>5, <2>1, BeginMoves DEF Acquired
<1>6. ASSUME NEW k \in Calls, TryNow(k) \/ SnapResend(k) PROVE CallPart'
  <2>1. wait.msg \in Msgs
    BY <1>6, BeginMoves DEF Types, WaitType, Waits
  <2>2. status'[wait.msg] # "none"
    BY <1>0, <1>6, <2>1, BeginMoves DEF StatusKnown, NamesPart
  <2> QED BY <1>1, <1>6, <2>1, <2>2, BeginMoves
<1>7. CASE Outside
  <2>1. Still
    BY <1>7, OutsideStill
  <2> QED BY <1>0, <2>1 DEF Still, CallPart, StatusKnown, Acquired
<1> QED BY <1>3, <1>4, <1>5, <1>6, <1>7, NextSplit

\* Only a refusal arms a wait: any other step keeps the one there is, or ends it.
LEMMA WaitKept ==
  ASSUME Types, Next
  PROVE  \/ wait' # None => wait # None /\ wait'.msg = wait.msg
         \/ \E k \in Calls : SeatsFull(k)
<1>0. wait # None => wait \in Waits
  BY DEF Types, WaitType
<1>1. ASSUME NEW k \in Calls, Run(k), ~SeatsFull(k) PROVE wait' # None => wait # None /\ wait'.msg = wait.msg
  <2>1. \/ wait' \in {None, wait, WaitAfter(wait, k), WaitAfter(None, k)}
        \/ wait # None /\ wait' = [wait EXCEPT !.scheduled = FALSE]
    <3>1. CASE ResendGone(k) \/ ResendChecked(k)
      BY <3>1 DEF ResendGone, ResendChecked, Abandon, Refers
    <3>2. CASE TurnedAway(k) \/ ContinueDeclined(k)
      BY <3>2 DEF TurnedAway, ContinueDeclined, ReturnEarly
    <3>3. CASE NoteWritten(k) \/ FailureWritten(k)
      BY <3>3 DEF NoteWritten, FailureWritten, FinallyAfterEnd, Finally
    <3>4. CASE StreamEndsDead(k) \/ Refreshed(k)
      BY <3>4 DEF StreamEndsDead, Refreshed, Finally
    <3>5. CASE Finalized(k)
      BY <3>5 DEF Finalized
    <3>6. CASE UNCHANGED wait
      BY <3>6
    <3> QED BY <1>1, <3>1, <3>2, <3>3, <3>4, <3>5, <3>6 DEF Run, Accepted, LocalNote, StartGeneration, PipelineThrows,
               StreamEnds, Painted, Observed
  <2>2. (wait # None => WaitAfter(wait, k).msg = wait.msg) /\ WaitAfter(None, k) = None
    BY <1>0 DEF WaitAfter, Refers, Waits
  <2>3. wait # None => [wait EXCEPT !.scheduled = FALSE].msg = wait.msg
    BY <1>0 DEF Waits
  <2>5. CASE wait = None
    BY <2>1, <2>2, <2>5
  <2>6. CASE wait # None
    <3>1. CASE wait' = WaitAfter(wait, k)
      BY <2>2, <2>6, <3>1
    <3>2. CASE wait' = [wait EXCEPT !.scheduled = FALSE]
      BY <2>3, <2>6, <3>2
    <3>3. CASE wait' \in {None, wait, WaitAfter(None, k)}
      BY <2>2, <2>6, <3>3
    <3> QED BY <2>1, <3>1, <3>2, <3>3
  <2> QED BY <2>5, <2>6
<1>2. ASSUME NEW k \in Calls, TryNow(k) \/ SnapResend(k) PROVE wait' # None => wait # None /\ wait'.msg = wait.msg
  BY <1>0, <1>2, BeginMoves DEF Claimed, Waits
<1>3. ASSUME NEW k \in Calls, NEW m \in Msgs, Submit(k, m) \/ Continue(k, m)
      PROVE  wait' # None => wait # None /\ wait'.msg = wait.msg
  BY <1>3 DEF Submit, Continue
<1>4. CASE Outside
  <2>1. CASE KeepWaiting
    BY <1>0, <2>1 DEF KeepWaiting, Deciding, Waits
  <2>2. CASE SnapStart \/ NothingToDecide \/ Age
    BY <1>0, <2>2 DEF SnapStart, NothingToDecide, Age, Waits
  <2>3. CASE wait' \in {None, wait}
    BY <2>3
  <2> QED BY <1>4, <2>1, <2>2, <2>3 DEF Outside, SnapGone, Abandon, GiveUp, NoteRepainted, StopStream, CancelWait,
             StopWaiting, Delete, DeleteAborts, Deleting, DeleteSettled, DeleteHeard, AskStarts, AskEnds
<1> QED BY <1>1, <1>2, <1>3, <1>4, NextSplit

LEMMA NamesKept ==
  ASSUME Base, Next
  PROVE  NamesPart'
<1>1. wait' # None => status'[wait'.msg] # "none"
  <2>1. CASE wait' # None => wait # None /\ wait'.msg = wait.msg
    <3>1. wait # None => wait.msg \in Msgs
      BY DEF Base, Types, WaitType, Waits
    <3> QED BY <2>1, <3>1, StatusStays DEF Base, NamesPart, StatusKnown
  <2>2. ASSUME NEW k \in Calls, SeatsFull(k) PROVE wait' # None => status'[wait'.msg] # "none"
    <3>1. call[k].msg \in Msgs /\ wait'.msg = call[k].msg
      BY <2>2 DEF SeatsFull, Base, CallPart, Armed
    <3> QED BY <2>2, <3>1 DEF SeatsFull, Base, Types, StoreType
  <2> QED BY <2>1, <2>2, WaitKept DEF Base
<1>2. deletion'.pc # "off" => deletion'.msg \in Msgs
  <2>1. \/ \E m \in Msgs : deletion' = [pc |-> "gone", msg |-> m, on |-> None]
        \/ \E m \in Msgs : deletion' = [pc |-> "settle", msg |-> m, on |-> inflight]
        \/ deletion'.pc = "off" \/ deletion' = deletion
        \/ deletion.pc = "settle" /\ deletion' = [deletion EXCEPT !.on = None]
        \/ deletion.pc = "settle" /\ deletion' = [pc |-> "gone", msg |-> deletion.msg, on |-> None]
    <3>1. ASSUME NEW k \in Calls, Run(k)
          PROVE  deletion' = deletion \/ (deletion.pc = "settle" /\ deletion' = [deletion EXCEPT !.on = None])
      <4>1. CASE \E g, w : Finally(k, g, w)
        BY <4>1 DEF Finally
      <4>2. CASE NoteWritten(k) \/ FailureWritten(k) \/ StreamEndsDead(k) \/ Refreshed(k)
        BY <4>1, <4>2 DEF NoteWritten, FailureWritten, StreamEndsDead, Refreshed, FinallyAfterEnd
      <4>3. CASE UNCHANGED deletion
        BY <4>3
      <4> QED BY <3>1, <4>2, <4>3 DEF Run, ResendGone, ResendChecked, TurnedAway, Accepted, LocalNote, ContinueDeclined,
                 StartGeneration, PipelineThrows, StreamEnds, SeatsFull, Painted, Observed, Finalized
    <3>2. CASE \E m \in Msgs : Delete(m) \/ DeleteAborts(m)
      BY <3>2 DEF Delete, DeleteAborts, DeleteRows
    <3>3. CASE Deleting
      BY <3>3 DEF Deleting, DeleteSettled, DeleteHeard, DeleteRows
    <3>4. CASE UNCHANGED deletion
      BY <3>4
    <3> QED BY <3>1, <3>2, <3>3, <3>4 DEF Next, Submit, Continue, TryNow, SnapStart, SnapStep, SnapGone, NothingToDecide,
               GiveUp, KeepWaiting, SnapResend, NoteRepainted, Age, StopStream, CancelWait, AskStarts, AskEnds
  <2> QED BY <2>1 DEF Base, NamesPart, Types, DeletionType, DeletionStates
<1> QED BY <1>1, <1>2 DEF NamesPart

LEMMA TypesKept ==
  ASSUME Base, Next
  PROVE  Types'
<1>1. Known
  BY DEF Base, CallPart, NamesPart, Known, HasMsg
<1>2. CASE \E k \in Calls : Run(k)
  BY <1>1, <1>2, RunTypes DEF Base, Known
<1>3. CASE SnapStart \/ SnapStep
  BY <1>3, SnapTypes DEF Base
<1>4. ASSUME NEW k \in Calls, NEW m \in Msgs, Submit(k, m) \/ Continue(k, m) PROVE Types'
  BY <1>4, ReaderTypes DEF Base
<1>5. ASSUME NEW k \in Calls, TryNow(k) PROVE Types'
  <2>1. wait.msg \in Msgs
    BY <1>5 DEF TryNow, Base, Types, WaitType, Waits
  <2> QED BY <1>5, <2>1, ReaderTypes DEF Base
<1>6. ASSUME NEW m \in Msgs, Delete(m) \/ DeleteAborts(m) PROVE Types'
  <2>1. CASE Calls # {}
    BY <1>6, <2>1, ReaderTypes DEF Base
  <2>2. CASE Delete(m)
    BY <2>2 DEF Base, Types, Delete, DeleteRows, GovType, StoreType, CallType, WaitType, SnapType, DeletionType, DeletionStates
  <2>3. DeleteAborts(m) => Calls # {}
    BY DEF DeleteAborts, StreamsInto, Base, Types, CallType
  <2> QED BY <1>6, <2>1, <2>2, <2>3
<1>7. CASE Age \/ StopStream \/ CancelWait \/ Deleting \/ AskStarts \/ AskEnds \/ \E n \in notes : NoteRepainted(n)
  BY <1>1, <1>7, OtherTypes DEF Base
<1> QED BY <1>2, <1>3, <1>4, <1>5, <1>6, <1>7 DEF Next

LEMMA BaseInvariant == Spec => []Base
<1>1. Init => Base
  <2> SUFFICES ASSUME Init PROVE Base
    OBVIOUS
  <2>1. Types
    <3>1. GovType /\ SnapType /\ WaitType /\ DeletionType
      BY Constants DEF Init, GovType, GovStates, SnapType, WaitType, DeletionType, DeletionStates
    <3>2. StoreType /\ CallType
      BY Constants DEF Init, StoreType, CallType
    <3> QED BY <3>1, <3>2 DEF Types
  <2>2. CallPart /\ NamesPart
    BY DEF Init, CallPart, NamesPart, Off, Acquired
  <2> QED BY <2>1, <2>2 DEF Base
<1>2. Base /\ [Next]_vars => Base'
  <2>1. Base /\ Next => Base'
    BY TypesKept, CallsKept, NamesKept DEF Base
  <2>2. Base /\ UNCHANGED vars => Base'
    BY DEF Base, Types, GovType, StoreType, CallType, WaitType, SnapType, DeletionType, CallPart, NamesPart, vars
  <2> QED BY <2>1, <2>2
<1> QED BY <1>1, <1>2, PTL DEF Spec

\* What the window's variables hold, in every state it can reach.
THEOREM TypeCorrect == Spec => []TypeOK
<1>1. Base => TypeOK
  BY TypeParts DEF Base
<1> QED BY <1>1, BaseInvariant, PTL

\* An answer that was streaming into a thread the controller knows to be deleted does not
\* write its row back, and neither does anything else that coroutine does of itself.
THEOREM StaysDeleted == Spec => StreamStaysDeleted
<1>1. ASSUME Base, Next, NEW k \in Calls, call[k].pc \in {"stream", "observe", "failed"}, call[k].msg \in dead,
             call'[k] # call[k]
      PROVE  row'[call[k].msg] = row[call[k].msg]
  <2>0. call \in [Calls -> CallRecords] /\ row \in [Msgs -> BOOLEAN]
    BY <1>1 DEF Base, Types, CallType, StoreType
  <2>1. ASSUME NEW j \in Calls, Run(j) PROVE row'[call[k].msg] = row[call[k].msg]
    <3>1. j = k
      <4>1. Others(j)
        BY <2>1, RunMoves, <1>1 DEF Run, Moves, Ending, Base
      <4> QED BY <1>1, <4>1 DEF Others
    <3> QED BY <1>1, <2>0, <2>1, <3>1 DEF Run, ResendGone, ResendChecked, TurnedAway, Accepted, LocalNote,
               ContinueDeclined, NoteWritten, StartGeneration, PipelineThrows, FailureWritten, StreamEnds, StreamEndsDead,
               SeatsFull, IsDead, Painted, Observed, Finalized, Refreshed
  <2>2. ASSUME NEW j \in Calls, NEW m \in Msgs, Submit(j, m) \/ Continue(j, m)
        PROVE  row'[call[k].msg] = row[call[k].msg]
    BY <2>2 DEF Submit, Continue
  <2>3. ASSUME NEW j \in Calls, TryNow(j) \/ SnapResend(j) PROVE row'[call[k].msg] = row[call[k].msg]
    BY <1>1, <2>3, BeginMoves DEF Others, Base
  <2>4. CASE Outside
    BY <1>1, <2>0, <2>4 DEF Outside, SnapStart, SnapGone, NothingToDecide, GiveUp, KeepWaiting, NoteRepainted, Age,
       StopStream, CancelWait, Delete, DeleteAborts, Deleting, DeleteSettled, DeleteHeard, AskStarts, AskEnds
  <2> QED BY <1>1, <2>1, <2>2, <2>3, <2>4, NextSplit
<1> DEFINE A == \A k \in Calls : /\ call[k].pc \in {"stream", "observe", "failed"} /\ call[k].msg \in dead
                                 /\ call'[k] # call[k]
                    => row'[call[k].msg] = row[call[k].msg]
<1>2. Base /\ [Next]_vars => [A]_vars
  BY <1>1
<1> QED BY <1>2, BaseInvariant, PTL DEF Spec, StreamStaysDeleted

-----------------------------------------------------------------------------
(* Who has the slot. *)

\* Nobody takes it, and if anything ended, then a hold.
LEMMA SlotQuiet ==
  ASSUME SlotPart, gov' = gov \/ (gov.fg # "streaming" /\ gov' = IdleGov),
         \A j \in Calls : /\ call'[j].pc \in Acquired => call[j].pc \in Acquired
                          /\ call'[j].pc \in Talking => call[j].pc \in Talking /\ call'[j].want = call[j].want
  PROVE  SlotPart'
<1>1. \A j \in Calls : call'[j].pc \in Talking => gov' = [fg |-> "streaming", holder |-> call'[j].want]
  BY DEF SlotPart
<1>2. gov'.fg = "idle" => gov'.holder = "none"
  BY DEF SlotPart, IdleGov
<1> QED BY <1>1, <1>2 DEF SlotPart

\* A coroutine that had it is past its stream.
LEMMA SlotLeft ==
  ASSUME SlotPart, NEW k \in Calls, call[k].pc \in Acquired, NEW to, Moves(k, to), to \notin Talking,
         gov'.fg = "idle" => gov'.holder = "none"
  PROVE  SlotPart'
<1>1. \A j \in Calls \ {k} : call'[j] = call[j] /\ call[j].pc \notin Acquired
  BY DEF SlotPart, Moves, Others
<1>2. Talking \subseteq Acquired
  BY DEF Talking, Acquired
<1> QED BY <1>1, <1>2 DEF SlotPart, Moves

\* One takes it, when no other is under way.
LEMMA SlotTaken ==
  ASSUME SlotPart, Base, NoOverlap, NEW k \in Calls, Accepted(k) \/ LocalNote(k)
  PROVE  SlotPart' /\ \A j \in Calls \ {k} : call'[j] = call[j] /\ call[j].pc \notin Acquired
<1>1. Calm /\ Others(k) /\ call'[k].want = call[k].want /\ Acquire(call[k].want) /\ gov.fg # "streaming"
      /\ call[k].pc = "thread"
  BY RunMoves DEF Base, Moves, Accepted, LocalNote, CanAcquire
<1>2. \A j \in Calls : call[j].pc \notin Acquired
  BY <1>1 DEF Calm, NoOverlap, SlotPart, Acquired, Talking, Tail
<1>3. Talking \subseteq Acquired
  BY DEF Talking, Acquired
<1> QED BY <1>1, <1>2, <1>3 DEF SlotPart, Others, Acquire

\* What the helpers do to the governor.
LEMMA Released ==
  ASSUME Types, SlotPart
  PROVE  /\ \A m : ReleaseHold(gov, m) = gov \/ (gov.fg # "streaming" /\ ReleaseHold(gov, m) = IdleGov)
         /\ \A m, want : LET g == ReleaseStream(ReleaseHold(gov, m), want) IN g.fg = "idle" => g.holder = "none"
         /\ \A want : LET g == ReleaseStream(gov, want) IN g.fg = "idle" => g.holder = "none"
BY DEF ReleaseHold, ReleaseStream, IdleGov, SlotPart

LEMMA SlotKept ==
  ASSUME SlotPart, Base, NoOverlap, Next
  PROVE  SlotPart'
<1>0. Types
  BY DEF Base
<1>1. ASSUME NEW k \in Calls, Run(k) PROVE SlotPart'
  <2>1. CASE ResendGone(k) \/ TurnedAway(k) \/ ContinueDeclined(k)
    <3>1. Moves(k, "off")
      BY <1>0, <2>1, RunMoves DEF Ending
    <3>2. gov' = gov \/ (gov.fg # "streaming" /\ gov' = IdleGov)
      BY <1>0, <2>1, Released DEF ResendGone, Abandon, TurnedAway, ContinueDeclined, CanAcquire
    <3> QED BY <3>1, <3>2, SlotQuiet DEF Moves, Others, Acquired, Talking
  <2>2. CASE NoteWritten(k) \/ FailureWritten(k) \/ StreamEndsDead(k) \/ Refreshed(k)
    <3>1. Moves(k, "off") /\ call[k].pc \in Acquired /\ "off" \notin Talking
      BY <1>0, <2>2, RunMoves DEF Ending, NoteWritten, FailureWritten, StreamEndsDead, Refreshed, Acquired, Talking
    <3>2. gov'.fg = "idle" => gov'.holder = "none"
      BY <1>0, <2>2, Released DEF NoteWritten, FailureWritten, StreamEndsDead, Refreshed, FinallyAfterEnd, Finally
    <3> QED BY <3>1, <3>2, SlotLeft
  <2>3. CASE Accepted(k) \/ LocalNote(k)
    BY <2>3, SlotTaken
  <2>4. CASE ResendChecked(k) \/ StartGeneration(k) \/ PipelineThrows(k)
    <3>1. gov' = gov
      BY <2>4 DEF ResendChecked, StartGeneration, PipelineThrows
    <3>2. /\ ResendChecked(k) => Moves(k, "thread")
          /\ StartGeneration(k) => Moves(k, "stream") /\ call[k].pc = "path"
          /\ PipelineThrows(k) => Moves(k, "failed") /\ call[k].pc = "path"
      BY <1>0, RunMoves DEF StartGeneration, PipelineThrows
    <3> QED BY <2>4, <3>1, <3>2, SlotQuiet DEF Moves, Others, Acquired, Talking
  <2>5. CASE StreamEnds(k) \/ SeatsFull(k) \/ Painted(k) \/ Observed(k) \/ Finalized(k)
    <3>1. call[k].pc \in Acquired
      BY <2>5 DEF StreamEnds, SeatsFull, Painted, Observed, Finalized, Acquired
    <3>2. PICK to \in {"observe", "painting", "final", "refresh"} : Moves(k, to)
      BY <1>0, <2>5, RunMoves
    <3>3. gov' = gov \/ (gov.fg # "streaming" /\ gov' = IdleGov) \/ gov'.fg = "held"
      BY <1>0, <2>5, Released DEF StreamEnds, SeatsFull, Painted, Observed, Finalized
    <3>4. gov'.fg = "idle" => gov'.holder = "none"
      BY <3>3 DEF SlotPart, IdleGov
    <3>5. to \notin Talking
      BY <3>2 DEF Talking
    <3> QED BY <3>1, <3>2, <3>4, <3>5, SlotLeft
  <2> QED BY <1>1, <2>1, <2>2, <2>3, <2>4, <2>5 DEF Run
<1>2. ASSUME NEW k \in Calls, Others(k), call'[k].pc \in {"check", "thread"}, UNCHANGED gov PROVE SlotPart'
  BY <1>2, SlotQuiet DEF Others, Acquired, Talking
<1>3. ASSUME NEW k \in Calls, (\E m \in Msgs : Submit(k, m) \/ Continue(k, m)) \/ TryNow(k) \/ SnapResend(k)
      PROVE  SlotPart'
  <2>1. Others(k) /\ call'[k].pc \in {"check", "thread"}
    BY <1>0, <1>3, BeginMoves
  <2>2. UNCHANGED gov
    BY <1>3 DEF Submit, Continue, TryNow, SnapResend
  <2> QED BY <1>2, <2>1, <2>2
<1>4. CASE Outside
  <2>1. Still
    BY <1>0, <1>4, OutsideStill
  <2>2. gov' = gov \/ (gov.fg # "streaming" /\ gov' = IdleGov)
    BY <1>0, <1>4, Released DEF Outside, SnapStart, SnapGone, Abandon, NothingToDecide, GiveUp, KeepWaiting, NoteRepainted,
       Age, StopStream, CancelWait, StopWaiting, Delete, DeleteAborts, Deleting, DeleteSettled, DeleteHeard, AskStarts, AskEnds
  <2> QED BY <2>1, <2>2, SlotQuiet DEF Still
<1> QED BY <1>1, <1>3, <1>4, NextSplit

LEMMA SlotInvariant == ASSUME NoOverlap PROVE Spec => [](Base /\ SlotPart)
<1>1. Init => SlotPart
  BY DEF Init, SlotPart, Off, Talking, Acquired
<1>2. SlotPart /\ Base /\ [Next]_vars => SlotPart'
  <2>1. SlotPart /\ Base /\ Next => SlotPart'
    BY SlotKept
  <2>2. SlotPart /\ UNCHANGED vars => SlotPart'
    BY DEF SlotPart, vars
  <2> QED BY <2>1, <2>2
<1> QED BY <1>1, <1>2, BaseInvariant, PTL DEF Spec

\* The slot belongs to the coroutine that streams, whatever waits are cancelled, abandoned or
\* armed anew meanwhile, when no call gets the slot between the awaits that end another.
THEOREM SlotIsOwned == ASSUME NoOverlap PROVE Spec => []SlotOwned
<1>1. SlotPart => SlotOwned
  <2>1. Talking \subseteq Acquired
    BY DEF Talking, Acquired
  <2> QED BY <2>1 DEF SlotPart, SlotOwned
<1> QED BY <1>1, SlotInvariant, PTL

-----------------------------------------------------------------------------
(* What a step does to the replies. *)

\* A row is lost with its thread only, a deleted thread stays deleted, a reply is begun
\* with its row, and a thread begins before its reply does.
RowsQuiet ==
    \A m \in Msgs :
        /\ row[m] => row'[m] \/ thread'[m] = "deleted"
        /\ thread[m] = "deleted" => thread'[m] = "deleted"
        /\ status'[m] # "none" => status[m] # "none" \/ row'[m]
        /\ thread'[m] = "live" => thread[m] = "live" \/ status'[m] = "none"

\* Only a refusal makes a row wait.
WaitsOf(m) == \E k \in Calls : SeatsFull(k) /\ call[k].msg = m
Refusals == \A m \in Msgs : status'[m] = "waiting" => status[m] = "waiting" \/ WaitsOf(m)

LEMMA RepliesStep ==
  ASSUME Base, Next
  PROVE  RowsQuiet /\ Refusals
<1>0. /\ thread \in [Msgs -> {"new", "live", "deleted"}] /\ row \in [Msgs -> BOOLEAN]
      /\ status \in [Msgs -> {"none", "streaming", "waiting", "settled"}]
  BY DEF Base, Types, StoreType
<1> USE DEF RowsQuiet, Refusals
<1>1. CASE UNCHANGED <<thread, row, status>>
  BY <1>1
<1>2. ASSUME NEW k \in Calls, Run(k) PROVE RowsQuiet /\ Refusals
  <2>0. call[k].pc # "off" => call[k].msg \in Msgs
    BY DEF Base, CallPart
  <2>k. call[k].pc \in Acquired => status[call[k].msg] # "none"
    BY DEF Base, CallPart
  <2>1. CASE Accepted(k) \/ LocalNote(k)
    <3>1. call[k].msg \in Msgs /\ UNCHANGED thread
      BY <2>0, <2>1 DEF Accepted, LocalNote
    <3>2. CASE UNCHANGED <<row, status>>
      BY <3>1, <3>2
    <3>3. CASE /\ row' = [row EXCEPT ![call[k].msg] = TRUE]
               /\ \/ status' = [status EXCEPT ![call[k].msg] = "streaming"]
                  \/ status' = [status EXCEPT ![call[k].msg] = "settled"]
      BY <1>0, <3>1, <3>3
    <3> QED BY <2>1, <3>2, <3>3 DEF Accepted, LocalNote
  <2>2. CASE StartGeneration(k) \/ PipelineThrows(k) \/ StreamEnds(k) \/ Observed(k)
    <3>1. call[k].msg \in Msgs /\ status[call[k].msg] # "none" /\ UNCHANGED thread
      BY <2>0, <2>2, <2>k DEF StartGeneration, PipelineThrows, StreamEnds, Observed, Acquired
    <3>2. \/ status' = status
          \/ status' = [status EXCEPT ![call[k].msg] = "streaming"]
          \/ status' = [status EXCEPT ![call[k].msg] = "settled"]
      BY <2>2 DEF StartGeneration, PipelineThrows, StreamEnds, Observed
    <3>3. row' = row \/ row' = [row EXCEPT ![call[k].msg] = @ \/ call[k].msg \notin dead]
      BY <2>2 DEF StartGeneration, PipelineThrows, StreamEnds, Observed
    <3>4. \A m \in Msgs : row[m] => row'[m]
      BY <1>0, <3>1, <3>3
    <3> QED BY <1>0, <3>1, <3>2, <3>4
  <2>3. CASE SeatsFull(k)
    <3>1. call[k].msg \in Msgs /\ UNCHANGED thread /\ row' = [row EXCEPT ![call[k].msg] = TRUE]
          /\ status' = [status EXCEPT ![call[k].msg] = "waiting"]
      BY <2>0, <2>3 DEF SeatsFull
    <3>2. WaitsOf(call[k].msg)
      BY <2>3 DEF WaitsOf
    <3>3. \A m \in Msgs \ {call[k].msg} : status'[m] = status[m] /\ row'[m] = row[m]
      BY <1>0, <3>1
    <3>4. row'[call[k].msg]
      BY <1>0, <3>1
    <3> QED BY <3>1, <3>2, <3>3, <3>4
  <2> QED BY <1>1, <1>2, <2>1, <2>2, <2>3 DEF Run, ResendGone, ResendChecked, TurnedAway, ContinueDeclined,
             NoteWritten, FailureWritten, StreamEndsDead, Painted, Finalized, Refreshed
<1>3. ASSUME NEW k \in Calls, NEW m \in Msgs, Submit(k, m) PROVE RowsQuiet /\ Refusals
  BY <1>0, <1>3 DEF Submit
\* A wait that is stopped, and a row that is written again.
<1>4. ASSUME wait # None, NoteRefreshed, UNCHANGED thread,
             status' = status \/ status' = [status EXCEPT ![wait.msg] = "settled"]
      PROVE  RowsQuiet /\ Refusals
  <2>1. wait.msg \in Msgs /\ status[wait.msg] # "none"
    BY <1>4 DEF Base, NamesPart, Types, WaitType, Waits
  <2>2. \A m \in Msgs : row[m] => row'[m]
    BY <1>0, <1>4, <2>1 DEF NoteRefreshed
  <2> QED BY <1>0, <1>4, <2>1, <2>2
<1>5. CASE GiveUp \/ CancelWait \/ KeepWaiting \/ \E k \in Calls : SnapResend(k)
  <2>1. /\ wait # None /\ NoteRefreshed /\ UNCHANGED thread
        /\ status' = status \/ status' = [status EXCEPT ![wait.msg] = "settled"]
    BY <1>5 DEF GiveUp, CancelWait, KeepWaiting, SnapResend, Deciding, StopWaiting, NoteRefreshed
  <2> QED BY <1>4, <2>1
<1>6. ASSUME NEW n \in notes, NoteRepainted(n) PROVE RowsQuiet /\ Refusals
  <2>1. UNCHANGED <<thread, status>> /\ \A m \in Msgs : row[m] => row'[m]
    BY <1>0, <1>6 DEF NoteRepainted
  <2> QED BY <2>1
<1>7. CASE DeleteSettled \/ \E m \in Msgs : Delete(m)
  <2>1. PICK m \in Msgs : DeleteRows(m) /\ UNCHANGED status
    BY <1>7 DEF DeleteSettled, Delete, Base, NamesPart
  <2> QED BY <1>0, <2>1 DEF DeleteRows
<1> QED BY <1>1, <1>2, <1>3, <1>5, <1>6, <1>7 DEF Next, Continue, TryNow, SnapStart, SnapStep, SnapGone, NothingToDecide,
           Age, StopStream, DeleteAborts, Deleting, DeleteHeard, AskStarts, AskEnds

-----------------------------------------------------------------------------
(* The seat wait. *)

LEMMA EndKept ==
  ASSUME EndPart, SlotPart, Base, NoOverlap, Next
  PROVE  EndPart'
<1>0. Types /\ Refusals /\ status \in [Msgs -> {"none", "streaming", "waiting", "settled"}]
  BY RepliesStep DEF Base, Types, StoreType
<1>m. \A j \in Calls : call[j].pc # "off" => call[j].msg \in Msgs
  BY DEF Base, CallPart
\* Nobody takes the slot, nobody is refused.
<1>q. ASSUME gov'.fg = "streaming" => gov.fg = "streaming", ~\E k \in Calls : SeatsFull(k),
             \A j \in Calls : /\ call'[j].pc \in {"note", "stream", "failed"} =>
                                    \/ status'[call'[j].msg] # "waiting"
                                    \/ call[j].pc = call'[j].pc /\ call'[j].msg = call[j].msg
                              /\ call'[j].pc \in Tail => /\ call[j].pc \in Tail \cup {"stream"}
                                                         /\ call'[j].msg = call[j].msg
      PROVE  EndPart'
  <2>1. ASSUME NEW j \in Calls, call'[j].pc \in {"note", "stream", "failed"} \/ (call'[j].pc \in Tail /\ gov'.fg = "streaming"),
               status'[call'[j].msg] = "waiting"
        PROVE  FALSE
    <3>1. call'[j].msg = call[j].msg /\ status[call[j].msg] # "waiting" /\ call[j].pc # "off"
      BY <1>q, <2>1 DEF EndPart, Tail
    <3> QED BY <1>0, <1>m, <1>q, <2>1, <3>1 DEF Refusals, WaitsOf
  <2> QED BY <2>1 DEF EndPart
<1>1. ASSUME NEW k \in Calls, Run(k) PROVE EndPart'
  <2>1. CASE Accepted(k) \/ LocalNote(k)
    <3>1. SlotPart' /\ \A j \in Calls \ {k} : call'[j].pc \notin Acquired
      BY <2>1, SlotTaken
    <3>2. Accepted(k) => call'[k].pc = "path"
      BY <1>0, RunMoves DEF Moves
    <3>3. LocalNote(k) => status'[call'[k].msg] = "settled"
      <4>1. LocalNote(k) => call'[k].msg = call[k].msg /\ call[k].msg \in Msgs
        BY <1>0, <1>m, RunMoves DEF Moves, LocalNote
      <4> QED BY <1>0, <4>1 DEF LocalNote
    <3> QED BY <2>1, <3>1, <3>2, <3>3 DEF EndPart, Acquired, Tail
  <2>2. CASE SeatsFull(k)
    <3>1. Moves(k, "painting") /\ call[k].pc \in Acquired /\ gov'.fg = "held"
      BY <1>0, <2>2, RunMoves DEF SeatsFull, Acquired
    <3>2. \A j \in Calls \ {k} : call'[j].pc \notin Acquired
      BY <3>1 DEF SlotPart, Moves, Others
    <3> QED BY <3>1, <3>2 DEF EndPart, Moves, Acquired, Tail
  <2>3. CASE ~(Accepted(k) \/ LocalNote(k) \/ SeatsFull(k))
    <3>1. ~\E j \in Calls : SeatsFull(j)
      <4>1. ASSUME NEW j \in Calls, SeatsFull(j) PROVE FALSE
        <5>1. Others(k) /\ Others(j) /\ call[j].pc = "stream" /\ call'[j].pc = "painting"
          BY <1>0, <1>1, <4>1, RunMoves DEF Moves, Run, Ending, SeatsFull
        <5>2. j # k
          BY <2>3, <4>1
        <5> QED BY <5>1, <5>2 DEF Others
      <4> QED BY <4>1
    <3>2. gov'.fg = "streaming" => gov.fg = "streaming"
      BY <1>1, <2>3 DEF Run, ResendGone, Abandon, ResendChecked, TurnedAway, ContinueDeclined, NoteWritten,
         StartGeneration, PipelineThrows, FailureWritten, StreamEnds, StreamEndsDead, Painted, Observed, Finalized, Refreshed,
         FinallyAfterEnd, Finally, ReleaseHold, ReleaseStream, IdleGov
    <3>3. PICK to : Moves(k, to) /\ \/ to \in {"off", "thread"}
                                    \/ to \in {"stream", "failed"} /\ status'[call[k].msg] # "waiting"
                                    \/ to \in {"observe", "final", "refresh"} /\ call[k].pc \in Tail \cup {"stream"}
      <4>1. CASE Ending(k) \/ ResendChecked(k)
        BY <1>0, <4>1, RunMoves
      <4>2. CASE StartGeneration(k) \/ PipelineThrows(k)
        <5>1. status'[call[k].msg] # "waiting"
          BY <1>0, <1>m, <4>2 DEF StartGeneration, PipelineThrows
        <5> QED BY <1>0, <4>2, <5>1, RunMoves
      <4>3. CASE StreamEnds(k) \/ Painted(k) \/ Observed(k) \/ Finalized(k)
        <5>1. call[k].pc \in Tail \cup {"stream"}
          BY <4>3 DEF StreamEnds, Painted, Observed, Finalized, Tail
        <5> QED BY <1>0, <4>3, <5>1, RunMoves
      <4> QED BY <1>1, <2>3, <4>1, <4>2, <4>3 DEF Run, Ending
    <3>4. \A j \in Calls : /\ call'[j].pc \in {"note", "stream", "failed"} =>
                                    \/ status'[call'[j].msg] # "waiting"
                                    \/ call[j].pc = call'[j].pc /\ call'[j].msg = call[j].msg
                           /\ call'[j].pc \in Tail => /\ call[j].pc \in Tail \cup {"stream"}
                                                      /\ call'[j].msg = call[j].msg
      BY <3>3 DEF Moves, Others, Tail
    <3> QED BY <1>q, <3>1, <3>2, <3>4
  <2> QED BY <2>1, <2>2, <2>3
\* What begins, and what goes on around the coroutines.
<1>2. ASSUME ~\E k \in Calls : SeatsFull(k), gov'.fg = "streaming" => gov.fg = "streaming",
             \A j \in Calls : \/ call'[j].pc = call[j].pc /\ call'[j].msg = call[j].msg
                              \/ call'[j].pc \in {"check", "thread"}
      PROVE  EndPart'
  BY <1>q, <1>2 DEF Tail
<1>3. CASE ~\E k \in Calls : Run(k)
  <2>1. ~\E k \in Calls : SeatsFull(k)
    BY <1>3 DEF Run
  <2>2. \A j \in Calls : \/ call'[j].pc = call[j].pc /\ call'[j].msg = call[j].msg
                         \/ call'[j].pc \in {"check", "thread"}
    <3>1. CASE Outside
      BY <1>0, <3>1, OutsideStill DEF Still
    <3>2. ASSUME NEW k \in Calls, Others(k), call'[k].pc \in {"check", "thread"}
          PROVE  \A j \in Calls : \/ call'[j].pc = call[j].pc /\ call'[j].msg = call[j].msg
                                  \/ call'[j].pc \in {"check", "thread"}
      BY <3>2 DEF Others
    <3> QED BY <1>0, <1>3, <3>1, <3>2, BeginMoves, NextSplit
  <2>3. gov'.fg = "streaming" => gov.fg = "streaming"
    <3>1. CASE SnapGone \/ GiveUp \/ CancelWait
      BY <1>0, <3>1, Released DEF SnapGone, Abandon, GiveUp, CancelWait, StopWaiting, IdleGov
    <3>2. CASE UNCHANGED gov
      BY <3>2
    <3> QED BY <1>3, <3>1, <3>2 DEF Next, Submit, Continue, TryNow, SnapStart, SnapStep, NothingToDecide, KeepWaiting,
               SnapResend, NoteRepainted, Age, StopStream, Delete, DeleteAborts, Deleting, DeleteSettled, DeleteHeard,
               AskStarts, AskEnds
  <2> QED BY <1>2, <2>1, <2>2, <2>3
<1> QED BY <1>1, <1>3

\* The parts of a wait that an action writes.
LEMMA WaitWritten ==
  ASSUME NEW w \in Waits
  PROVE  /\ [w EXCEPT !.old = TRUE] \in Waits
         /\ \A r \in SUBSET (Calls \cup {"snap"}) :
               /\ [w EXCEPT !.refs = r] \in Waits
               /\ \A s \in BOOLEAN : [w EXCEPT !.scheduled = s, !.refs = r] \in Waits
<1>1. [w EXCEPT !.old = TRUE] \in Waits
  BY DEF Waits
<1>2. \A r \in SUBSET (Calls \cup {"snap"}) : [w EXCEPT !.refs = r] \in Waits
  BY DEF Waits
<1>3. ASSUME NEW r \in SUBSET (Calls \cup {"snap"}), NEW s \in BOOLEAN
      PROVE  [w EXCEPT !.scheduled = s, !.refs = r] \in Waits
  BY DEF Waits
<1> QED BY <1>1, <1>2, <1>3

LEMMA WaitAfterFacts ==
  ASSUME Types, RefPart, NEW k \in Calls
  PROVE  /\ WaitAfter(None, k) = None
         /\ wait # None =>
               /\ WaitAfter(wait, k) \in Waits /\ WaitAfter(wait, k).msg = wait.msg
               /\ WaitAfter(wait, k).refs = wait.refs \ {k}
               /\ \/ WaitAfter(wait, k).resending = wait.resending
                  \/ Calls \cap WaitAfter(wait, k).refs = {}
<1>1. WaitAfter(None, k) = None
  BY DEF WaitAfter, Refers
<1>2. CASE wait # None /\ k \in wait.refs
  <2>1. wait \in Waits /\ WaitAfter(wait, k) = [wait EXCEPT !.resending = FALSE, !.refs = @ \ {k}]
    BY <1>2 DEF Types, WaitType, WaitAfter, Refers
  <2>2. WaitAfter(wait, k) \in Waits /\ WaitAfter(wait, k).msg = wait.msg /\ WaitAfter(wait, k).refs = wait.refs \ {k}
    BY <2>1 DEF Waits
  <2>3. Calls \cap (wait.refs \ {k}) = {}
    BY <1>2 DEF RefPart
  <2> QED BY <1>1, <1>2, <2>2, <2>3
<1>3. CASE wait # None /\ k \notin wait.refs
  <2>1. WaitAfter(wait, k) = wait /\ wait \in Waits /\ wait.refs \ {k} = wait.refs
    BY <1>3 DEF WaitAfter, Refers, Types, WaitType
  <2> QED BY <1>1, <1>3, <2>1
<1> QED BY <1>1, <1>2, <1>3

\* Why a wait ends: its row has gone with its thread, it was given up or cancelled, or its
\* reply has its answer; with it goes the hold.
LEMMA WaitGone ==
  ASSUME Base, SlotPart, HoldPart, RefPart, Next, wait # None, wait' = None
  PROVE  /\ status'[wait.msg] # "waiting" \/ thread[wait.msg] = "deleted"
         /\ gov'.fg # "held"
<1>0. /\ wait \in Waits /\ wait.msg \in Msgs /\ Types
      /\ status \in [Msgs -> {"none", "streaming", "waiting", "settled"}]
  BY DEF Base, Types, WaitType, Waits, StoreType
<1>h. ReleaseHold(gov, wait.msg).fg # "held"
  BY DEF HoldPart, ReleaseHold, IdleGov
<1>a. ASSUME NEW k \in Calls PROVE WaitAfter(wait, k) # None /\ (k \in wait.refs => call[k].msg = wait.msg)
  BY <1>0, WaitAfterFacts, Constants DEF RefPart
<1>1. ASSUME NEW k \in Calls, ResendGone(k)
      PROVE  (status'[wait.msg] # "waiting" \/ thread[wait.msg] = "deleted") /\ gov'.fg # "held"
  <2>1. Refers(k, wait) /\ gov' = ReleaseHold(gov, wait.msg) /\ call[k].pc = "check" /\ ~call[k].there
    BY <1>1 DEF ResendGone, Abandon
  <2>2. thread[wait.msg] = "deleted"
    BY <1>a, <2>1 DEF RefPart, Refers
  <2> QED BY <1>h, <2>1, <2>2
<1>2. ASSUME NEW k \in Calls, NoteWritten(k) \/ FailureWritten(k) \/ Finalized(k)
      PROVE  status'[wait.msg] # "waiting" /\ gov'.fg # "held"
  <2>1. Ended(call[k].msg)
    <3>1. CASE Finalized(k)
      BY <3>1 DEF Finalized
    <3>2. CASE NoteWritten(k) \/ FailureWritten(k)
      BY <1>a, <3>2 DEF NoteWritten, FailureWritten, FinallyAfterEnd, Finally
    <3> QED BY <1>2, <3>1, <3>2
  <2>2. call[k].msg = wait.msg /\ status[wait.msg] # "waiting" /\ status' = status
    BY <1>2, <2>1 DEF Ended, NoteWritten, FailureWritten, Finalized
  <2>3. gov' = ReleaseHold(gov, wait.msg) \/ gov' = ReleaseStream(ReleaseHold(gov, wait.msg), call[k].want)
    BY <1>2, <2>1, <2>2 DEF NoteWritten, FailureWritten, Finalized, FinallyAfterEnd, Finally
  <2>4. ReleaseStream(ReleaseHold(gov, wait.msg), call[k].want).fg # "held"
    BY <1>h DEF ReleaseStream, IdleGov
  <2> QED BY <1>h, <2>2, <2>3, <2>4
<1>3. CASE SnapGone
  <2>1. Refers("snap", wait) /\ gov' = ReleaseHold(gov, wait.msg) /\ snap.pc = "check" /\ ~snap.there
    BY <1>3 DEF SnapGone, Abandon
  <2>2. thread[wait.msg] = "deleted"
    BY <2>1 DEF RefPart, Refers
  <2> QED BY <1>h, <2>1, <2>2
<1>4. CASE GiveUp \/ CancelWait
  BY <1>0, <1>4, <1>h DEF GiveUp, CancelWait, StopWaiting
<1>5. ASSUME NEW k \in Calls, Run(k), ~(ResendGone(k) \/ NoteWritten(k) \/ FailureWritten(k) \/ Finalized(k))
      PROVE  FALSE
  <2>1. wait' = wait \/ wait' = WaitAfter(wait, k) \/ wait' \in Waits
    <3>1. CASE ResendChecked(k)
      BY <1>0, <3>1 DEF ResendChecked, Waits
    <3>2. CASE SeatsFull(k)
      <4>1. call[k].msg \in Msgs /\ wait' = Armed(k)
        BY <3>2 DEF SeatsFull, Base, CallPart
      <4> QED BY <1>0, <4>1, ArmedWait
    <3>3. CASE TurnedAway(k) \/ ContinueDeclined(k)
      BY <3>3 DEF TurnedAway, ContinueDeclined, ReturnEarly
    <3>4. CASE StreamEndsDead(k) \/ Refreshed(k)
      BY <3>4 DEF StreamEndsDead, Refreshed, Finally
    <3>5. CASE UNCHANGED wait
      BY <3>5
    <3> QED BY <1>5, <3>1, <3>2, <3>3, <3>4, <3>5 DEF Run, Accepted, LocalNote, StartGeneration, PipelineThrows,
               StreamEnds, Painted, Observed
  <2> QED BY <1>a, <2>1, Constants
<1>6. ASSUME NEW k \in Calls, (\E m \in Msgs : Submit(k, m) \/ Continue(k, m)) \/ TryNow(k) \/ SnapResend(k)
      PROVE  FALSE
  <2>1. CASE TryNow(k) \/ SnapResend(k)
    <3>1. wait' = [Claimed(wait) EXCEPT !.refs = (@ \cup {k}) \ {"snap"}]
      BY <1>0, <2>1, BeginMoves
    <3>2. wait' \in Waits
      <4>1. Claimed(wait) \in Waits
        BY <1>0 DEF Claimed, Waits
      <4>2. \A r \in SUBSET (Calls \cup {"snap"}) : [Claimed(wait) EXCEPT !.refs = r] \in Waits
        BY <4>1 DEF Waits
      <4>3. (Claimed(wait).refs \cup {k}) \ {"snap"} \in SUBSET (Calls \cup {"snap"})
        BY <4>1 DEF Waits
      <4> QED BY <3>1, <4>2, <4>3
    <3> QED BY <3>2, Constants
  <2> QED BY <1>6, <2>1 DEF Submit, Continue
<1>7. CASE Outside /\ ~SnapGone /\ ~GiveUp /\ ~CancelWait
  <2>1. wait' \in Waits \/ wait' = wait
    <3>1. CASE KeepWaiting
      <4>1. PICK s \in BOOLEAN : wait' = [wait EXCEPT !.scheduled = s, !.refs = @ \ {"snap"}]
        BY <3>1 DEF KeepWaiting
      <4>2. wait.refs \ {"snap"} \in SUBSET (Calls \cup {"snap"})
        BY <1>0 DEF Waits
      <4>3. wait' = [wait EXCEPT !.scheduled = s, !.refs = wait.refs \ {"snap"}]
        BY <1>0, <4>1 DEF Waits
      <4>4. [wait EXCEPT !.scheduled = s, !.refs = wait.refs \ {"snap"}] \in Waits
        BY <1>0, <4>2, WaitWritten
      <4> QED BY <4>3, <4>4
    <3>2. CASE SnapStart \/ NothingToDecide \/ Age
      <4>1. \/ wait' = [wait EXCEPT !.refs = wait.refs \cup {"snap"}]
            \/ wait' = [wait EXCEPT !.refs = wait.refs \ {"snap"}]
            \/ wait' = [wait EXCEPT !.old = TRUE]
        BY <3>2 DEF SnapStart, NothingToDecide, Age
      <4>2. /\ wait.refs \cup {"snap"} \in SUBSET (Calls \cup {"snap"})
            /\ wait.refs \ {"snap"} \in SUBSET (Calls \cup {"snap"})
        BY <1>0 DEF Waits
      <4> QED BY <1>0, <4>1, <4>2, WaitWritten
    <3>3. CASE UNCHANGED wait
      BY <3>3
    <3> QED BY <1>7, <3>1, <3>2, <3>3 DEF Outside, NoteRepainted, StopStream, Delete, DeleteAborts, Deleting,
               DeleteSettled, DeleteHeard, AskStarts, AskEnds
  <2> QED BY <2>1, Constants
<1> QED BY <1>1, <1>2, <1>3, <1>4, <1>5, <1>6, <1>7, NextSplit

LEMMA RowKept ==
  ASSUME Base, SlotPart, HoldPart, RowPart, RefPart, Next
  PROVE  RowPart'
<1>0. RowsQuiet /\ Refusals /\ Types
  BY RepliesStep DEF Base
<1>1. \A m \in Msgs : status'[m] # "none" => row'[m] \/ thread'[m] = "deleted"
  BY <1>0 DEF RowPart, RowsQuiet
<1>2. ASSUME NEW m \in Msgs, status'[m] = "waiting", row'[m], thread'[m] = "live"
      PROVE  wait' # None /\ wait'.msg = m
  <2>1. CASE WaitsOf(m)
    <3>1. PICK k \in Calls : SeatsFull(k) /\ call[k].msg = m
      BY <2>1 DEF WaitsOf
    <3>2. wait' = Armed(k) /\ call[k].msg \in Msgs
      BY <3>1 DEF SeatsFull
    <3> QED BY <1>0, <3>1, <3>2, ArmedWait, Constants
  <2>2. CASE ~WaitsOf(m)
    <3>1. status[m] = "waiting" /\ thread[m] = "live" /\ row[m]
      BY <1>0, <1>2, <2>2 DEF Refusals, RowsQuiet, RowPart
    <3>2. wait # None /\ wait.msg = m
      BY <3>1 DEF RowPart, WaitingRowHasWait
    <3>3. wait' # None
      BY <1>2, <3>1, <3>2, WaitGone
    <3>4. CASE wait'.msg = wait.msg
      BY <3>2, <3>3, <3>4
    <3>5. ASSUME NEW k \in Calls, SeatsFull(k) PROVE wait'.msg = m
      <4>1. gov.holder = m /\ gov = [fg |-> "streaming", holder |-> call[k].want]
        BY <3>1, <3>2, <3>5 DEF HoldPart, SlotPart, SeatsFull, Talking
      <4>2. call[k].want \in {"send", call[k].msg}
        BY <3>5 DEF Base, CallPart, SeatsFull
      <4>3. call[k].msg = m
        BY <4>1, <4>2, Constants
      <4> QED BY <3>5, <4>3 DEF SeatsFull, Armed
    <3> QED BY <1>0, <3>3, <3>4, <3>5, WaitKept
  <2> QED BY <2>1, <2>2
<1> QED BY <1>1, <1>2 DEF RowPart, WaitingRowHasWait

\* A hold that goes on, and a wait whose row waits, keep the slot in the same name.
LEMMA HoldStays ==
  ASSUME Base, SlotPart, HoldPart, RefPart, Next, ~\E k \in Calls : SeatsFull(k),
         gov'.fg = "held" => gov' = gov,
         wait # None /\ status[wait.msg] = "waiting" /\ wait' # None => gov'.holder = gov.holder
  PROVE  HoldPart'
<1>0. Refusals /\ Types /\ (wait # None => wait.msg \in Msgs)
  BY RepliesStep DEF Base, Types, WaitType, Waits
<1>1. wait' # None => wait # None /\ wait'.msg = wait.msg
  BY <1>0, WaitKept
<1>2. ASSUME gov'.fg = "held" PROVE wait' # None /\ wait'.msg = gov'.holder
  <2>1. gov' = gov /\ wait # None /\ wait.msg = gov.holder
    BY <1>2 DEF HoldPart
  <2>2. wait' # None
    BY <1>2, <2>1, WaitGone
  <2> QED BY <1>1, <2>1, <2>2
<1>3. ASSUME wait' # None, status'[wait'.msg] = "waiting" PROVE gov'.holder = wait'.msg
  <2>1. wait # None /\ wait'.msg = wait.msg /\ wait.msg \in Msgs
    BY <1>0, <1>1, <1>3
  <2>2. status[wait.msg] = "waiting"
    BY <1>0, <1>3, <2>1 DEF Refusals, WaitsOf
  <2> QED BY <1>3, <2>1, <2>2 DEF HoldPart
<1> QED BY <1>2, <1>3 DEF HoldPart

LEMMA HoldKept ==
  ASSUME Base, SlotPart, EndPart, HoldPart, RefPart, Next
  PROVE  HoldPart'
<1>0. /\ Types /\ (wait # None => wait.msg \in Msgs)
      /\ \A k \in Calls : call[k].pc # "off" => call[k].msg \in Msgs /\ call[k].want \in {"send", call[k].msg}
  BY DEF Base, Types, WaitType, Waits, CallPart
<1>1. ASSUME NEW k \in Calls, SeatsFull(k) PROVE HoldPart'
  <2>1. call[k].msg \in Msgs /\ wait' = Armed(k) /\ gov' = [fg |-> "held", holder |-> call[k].msg]
    BY <1>0, <1>1 DEF SeatsFull
  <2>2. wait' # None /\ wait'.msg = call[k].msg
    BY <1>0, <2>1, ArmedWait, Constants
  <2> QED BY <2>1, <2>2 DEF HoldPart
<1>2. CASE wait # None /\ wait' = None
  BY <1>2, WaitGone DEF HoldPart
<1>3. CASE gov' = gov /\ ~\E k \in Calls : SeatsFull(k)
  BY <1>3, HoldStays
\* Whoever waits has the slot, or it could not be taken.
<1>4. ASSUME NEW k \in Calls, CanAcquire(call[k].want), call[k].pc = "thread",
             wait # None, status[wait.msg] = "waiting"
      PROVE  gov.holder = wait.msg /\ call[k].want = wait.msg /\ call[k].msg = wait.msg
  <2>1. gov.holder = wait.msg /\ wait.msg \in Msgs /\ gov.fg = "held"
    <3>1. gov.holder = wait.msg /\ wait.msg \in Msgs
      BY <1>0, <1>4 DEF HoldPart
    <3>2. gov.fg # "idle"
      BY <3>1, Constants DEF SlotPart
    <3> QED BY <1>0, <1>4, <3>1, <3>2 DEF CanAcquire, Types, GovType, GovStates
  <2>2. call[k].want = wait.msg
    BY <1>4, <2>1 DEF CanAcquire
  <2> QED BY <1>0, <1>4, <2>1, <2>2, Constants
<1>5. ASSUME NEW k \in Calls, ~\E j \in Calls : SeatsFull(j), Accepted(k) \/ LocalNote(k) PROVE HoldPart'
  <2>1. /\ CanAcquire(call[k].want) /\ call[k].pc = "thread"
        /\ gov' = [fg |-> "streaming", holder |-> call[k].want]
    BY <1>5 DEF Accepted, LocalNote, Acquire
  <2> QED BY <1>4, <1>5, <2>1, HoldStays
<1>6. ASSUME NEW k \in Calls, ~\E j \in Calls : SeatsFull(j), ContinueDeclined(k) PROVE HoldPart'
  <2>1. /\ CanAcquire(call[k].want) /\ call[k].pc = "thread" /\ status[call[k].msg] # "waiting"
        /\ gov' = [fg |-> "idle", holder |-> "none"]
    BY <1>6 DEF ContinueDeclined, IdleGov
  <2>2. ~(wait # None /\ status[wait.msg] = "waiting")
    BY <1>4, <2>1
  <2> QED BY <1>6, <2>1, <2>2, HoldStays
\* A stream's slot is freed under a row that does not wait.
<1>7. ASSUME NEW k \in Calls, ~\E j \in Calls : SeatsFull(j), gov' = ReleaseStream(gov, call[k].want),
             call[k].pc \in {"note", "failed", "stream", "refresh"}
      PROVE  HoldPart'
  <2>1. gov' = gov \/ (gov.fg = "streaming" /\ gov.holder = call[k].want /\ gov' = IdleGov)
    BY <1>7 DEF ReleaseStream
  <2>2. gov'.fg = "held" => gov' = gov
    BY <2>1 DEF IdleGov
  <2>3. ASSUME gov.fg = "streaming", gov.holder = call[k].want, wait # None, status[wait.msg] = "waiting" PROVE FALSE
    <3>1. wait.msg = call[k].want /\ wait.msg \in Msgs
      BY <1>0, <2>3 DEF HoldPart
    <3>2. call[k].msg = wait.msg
      BY <1>0, <1>7, <3>1, Constants
    <3> QED BY <1>7, <2>3, <3>2 DEF EndPart, Tail
  <2> QED BY <1>7, <2>1, <2>2, <2>3, HoldStays
<1>8. ASSUME NEW k \in Calls, ~\E j \in Calls : SeatsFull(j), ~(wait # None /\ wait' = None),
             NoteWritten(k) \/ FailureWritten(k) \/ StreamEndsDead(k) \/ Refreshed(k)
      PROVE  HoldPart'
  <2>1. call[k].pc \in {"note", "failed", "stream", "refresh"}
    BY <1>8 DEF NoteWritten, FailureWritten, StreamEndsDead, Refreshed
  <2>2. gov' = ReleaseStream(gov, call[k].want)
    <3>1. CASE StreamEndsDead(k) \/ Refreshed(k)
      BY <3>1 DEF StreamEndsDead, Refreshed, Finally
    <3>2. CASE NoteWritten(k) \/ FailureWritten(k)
      <4>1. Ended(call[k].msg) => wait # None /\ wait' = WaitAfter(None, k)
        BY <3>2 DEF NoteWritten, FailureWritten, FinallyAfterEnd, Finally, Ended
      <4>2. WaitAfter(None, k) = None
        BY DEF WaitAfter, Refers
      <4> QED BY <1>8, <3>2, <4>1, <4>2 DEF NoteWritten, FailureWritten, FinallyAfterEnd, Finally
    <3> QED BY <1>8, <3>1, <3>2
  <2> QED BY <1>7, <1>8, <2>1, <2>2
<1>9. ASSUME NEW k \in Calls, Run(k), ~(wait # None /\ wait' = None), ~\E j \in Calls : SeatsFull(j) PROVE HoldPart'
  <2>1. CASE ResendGone(k) \/ Finalized(k)
    BY <1>3, <1>9, <2>1 DEF ResendGone, Abandon, Refers, Finalized, Ended
  <2>2. CASE UNCHANGED gov
    BY <1>3, <1>9, <2>2
  <2> QED BY <1>5, <1>6, <1>8, <1>9, <2>1, <2>2 DEF Run, ResendChecked, TurnedAway, StartGeneration, PipelineThrows,
             StreamEnds, Painted, Observed
<1>10. ASSUME ~\E k \in Calls : Run(k), ~(wait # None /\ wait' = None) PROVE HoldPart'
  <2>1. ~\E k \in Calls : SeatsFull(k)
    BY <1>10 DEF Run
  <2>2. gov' = gov
    <3>1. ~GiveUp /\ ~CancelWait
      BY <1>10 DEF GiveUp, CancelWait, StopWaiting, Deciding
    <3>2. SnapGone => gov' = gov
      BY <1>10 DEF SnapGone, Abandon, Refers
    <3> QED BY <1>10, <3>1, <3>2 DEF Next, Submit, Continue, TryNow, SnapStart, SnapStep, NothingToDecide, KeepWaiting,
               SnapResend, NoteRepainted, Age, StopStream, Delete, DeleteAborts, Deleting, DeleteSettled, DeleteHeard,
               AskStarts, AskEnds
  <2> QED BY <1>3, <2>1, <2>2
<1> QED BY <1>1, <1>2, <1>9, <1>10

\* Who refers to the wait after a step that neither arms nor claims it: who did before, but
\* for a coroutine that ends; and a snapshot that has just come.
Begun == \E k \in Calls : TryNow(k) \/ SnapResend(k)

LEMMA RefsStep ==
  ASSUME Base, RefPart, Next, wait' # None, ~Begun, ~\E k \in Calls : SeatsFull(k)
  PROVE  /\ wait # None /\ wait'.msg = wait.msg
         /\ Calls \cap wait'.refs \subseteq Calls \cap wait.refs
         /\ wait'.resending = wait.resending \/ Calls \cap wait'.refs = {}
         /\ "snap" \in wait'.refs => "snap" \in wait.refs \/ SnapStart
         /\ \A k \in Calls : Ending(k) => k \notin wait'.refs
<1>0. Types /\ wait # None /\ wait'.msg = wait.msg /\ wait \in Waits
  BY WaitKept DEF Base, Types, WaitType
<1> DEFINE Goal == /\ Calls \cap wait'.refs \subseteq Calls \cap wait.refs
                   /\ wait'.resending = wait.resending \/ Calls \cap wait'.refs = {}
                   /\ "snap" \in wait'.refs => "snap" \in wait.refs \/ SnapStart
<1>1. ASSUME NEW k \in Calls, Ending(k) PROVE Goal /\ k \notin wait'.refs
  <2>1. wait' = WaitAfter(wait, k) \/ wait' = WaitAfter(None, k) \/ (wait' = wait /\ k \notin wait.refs)
    <3>1. CASE ResendGone(k)
      BY <1>0, <3>1 DEF ResendGone, Abandon, Refers
    <3>2. CASE TurnedAway(k) \/ ContinueDeclined(k)
      BY <3>2 DEF TurnedAway, ContinueDeclined, ReturnEarly
    <3>3. CASE NoteWritten(k) \/ FailureWritten(k)
      BY <3>3 DEF NoteWritten, FailureWritten, FinallyAfterEnd, Finally
    <3>4. CASE StreamEndsDead(k) \/ Refreshed(k)
      BY <3>4 DEF StreamEndsDead, Refreshed, Finally
    <3> QED BY <1>1, <3>1, <3>2, <3>3, <3>4 DEF Ending
  <2>2. wait' = WaitAfter(wait, k) \/ (wait' = wait /\ k \notin wait.refs)
    BY <1>0, <2>1, WaitAfterFacts
  <2>3. /\ WaitAfter(wait, k).refs = wait.refs \ {k}
        /\ WaitAfter(wait, k).resending = wait.resending \/ Calls \cap WaitAfter(wait, k).refs = {}
    BY <1>0, WaitAfterFacts
  <2>4. CASE wait' = wait /\ k \notin wait.refs
    BY <2>4
  <2>5. CASE wait' = WaitAfter(wait, k)
    BY <2>3, <2>5
  <2> QED BY <2>2, <2>4, <2>5
<1>2. ASSUME wait' = wait PROVE Goal
  BY <1>2
<1>3. ASSUME wait' = [wait EXCEPT !.scheduled = FALSE] \/ wait' = [wait EXCEPT !.old = TRUE] PROVE Goal
  <2>1. wait'.refs = wait.refs /\ wait'.resending = wait.resending
    BY <1>0, <1>3 DEF Waits
  <2> QED BY <2>1
<1>4. ASSUME NEW k \in Calls, Run(k), ~Ending(k) PROVE Goal
  BY <1>0, <1>2, <1>3, <1>4 DEF Run, Ending, ResendChecked, Accepted, LocalNote, StartGeneration, PipelineThrows, StreamEnds,
     Painted, Observed, Finalized
<1>5. ASSUME Outside PROVE Goal
  <2>1. CASE SnapStart \/ NothingToDecide \/ KeepWaiting
    <3>1. wait'.resending = wait.resending /\ (wait'.refs = wait.refs \cup {"snap"} \/ wait'.refs = wait.refs \ {"snap"})
      <4>1. CASE KeepWaiting
        <5>1. PICK s \in BOOLEAN : wait' = [wait EXCEPT !.scheduled = s, !.refs = @ \ {"snap"}]
          BY <4>1 DEF KeepWaiting
        <5> QED BY <1>0, <5>1 DEF Waits
      <4>2. CASE SnapStart \/ NothingToDecide
        BY <1>0, <4>2 DEF SnapStart, NothingToDecide, Waits
      <4> QED BY <2>1, <4>1, <4>2
    <3>2. "snap" \in wait'.refs => "snap" \in wait.refs \/ SnapStart
      <4>1. CASE KeepWaiting
        <5>1. PICK s \in BOOLEAN : wait' = [wait EXCEPT !.scheduled = s, !.refs = @ \ {"snap"}]
          BY <4>1 DEF KeepWaiting
        <5> QED BY <1>0, <5>1 DEF Waits
      <4>2. CASE NothingToDecide
        BY <1>0, <4>2 DEF NothingToDecide, Waits
      <4> QED BY <2>1, <4>1, <4>2
    <3> QED BY <3>1, <3>2, Constants
  <2>2. CASE Age \/ UNCHANGED wait
    BY <1>2, <1>3, <2>2 DEF Age
  <2> QED BY <1>5, <2>1, <2>2 DEF Outside, SnapGone, Abandon, GiveUp, CancelWait, StopWaiting, NoteRepainted, StopStream,
             Delete, DeleteAborts, Deleting, DeleteSettled, DeleteHeard, AskStarts, AskEnds
<1>6. Goal
  <2>1. ASSUME NEW k \in Calls, NEW m \in Msgs, Submit(k, m) \/ Continue(k, m) PROVE UNCHANGED wait
    BY <2>1 DEF Submit, Continue
  <2> QED BY <1>1, <1>2, <1>4, <1>5, <2>1, NextSplit DEF Begun
<1> QED BY <1>0, <1>1, <1>6

\* What a coroutine that runs on, or does nothing, works for.
LEMMA RunsOn ==
  ASSUME Base, Next, NEW k \in Calls, call[k].pc # "off", ~Ending(k)
  PROVE  call'[k].pc # "off" /\ call'[k].msg = call[k].msg
<1>0. Types
  BY DEF Base
<1>1. ASSUME NEW j \in Calls, Run(j) PROVE call'[k].pc # "off" /\ call'[k].msg = call[k].msg
  <2>1. PICK to : Moves(j, to) /\ (j = k => to # "off")
    BY <1>0, <1>1, RunMoves DEF Run, Ending
  <2> QED BY <2>1 DEF Moves, Others
<1>2. ASSUME NEW j \in Calls, (\E m \in Msgs : Submit(j, m) \/ Continue(j, m)) \/ TryNow(j) \/ SnapResend(j)
      PROVE  call'[k] = call[k]
  <2>1. Others(j) /\ call[j].pc = "off"
    BY <1>0, <1>2, BeginMoves
  <2> QED BY <2>1 DEF Others
<1>3. CASE Outside
  BY <1>0, <1>3, OutsideStill DEF Still
<1> QED BY <1>1, <1>2, <1>3, NextSplit

\* A coroutine that found no row found a deleted thread.
LEMMA CheckKept ==
  ASSUME Base, RefPart, Next, Base', RowPart', NEW k \in Calls, call'[k].pc = "check", ~call'[k].there
  PROVE  thread'[call'[k].msg] = "deleted"
<1>0. Types /\ RowsQuiet
  BY RepliesStep DEF Base
<1>1. CASE call[k].pc = "check" /\ call'[k].msg = call[k].msg /\ call'[k].there = call[k].there
  <2>1. thread[call[k].msg] = "deleted" /\ call[k].msg \in Msgs
    BY <1>1 DEF RefPart, Base, CallPart
  <2> QED BY <1>0, <1>1, <2>1 DEF RowsQuiet
<1>2. ASSUME NEW j \in Calls, Run(j) PROVE call'[k] = call[k]
  <2>1. PICK to : Moves(j, to) /\ to # "check"
    BY <1>0, <1>2, RunMoves DEF Run, Ending
  <2> QED BY <2>1 DEF Moves, Others
<1>3. ASSUME NEW j \in Calls, TryNow(j) \/ SnapResend(j), j = k PROVE thread'[call'[k].msg] = "deleted"
  <2>1. /\ ~row'[wait.msg] /\ call'[k].msg = wait.msg /\ wait # None
    BY <1>0, <1>3, BeginMoves
  <2>2. wait.msg \in Msgs /\ status'[wait.msg] # "none"
    BY <2>1, StatusStays DEF Base, NamesPart, Types, WaitType, Waits, StatusKnown
  <2> QED BY <2>1, <2>2 DEF RowPart
<1>4. ASSUME NEW j \in Calls, TryNow(j) \/ SnapResend(j), j # k PROVE call'[k] = call[k]
  BY <1>0, <1>4, BeginMoves DEF Others
<1>5. ASSUME NEW j \in Calls, NEW m \in Msgs, Submit(j, m) \/ Continue(j, m) PROVE call'[k] = call[k]
  <2>1. Others(j) /\ call'[j].pc = "thread"
    BY <1>0, <1>5, BeginMoves
  <2> QED BY <2>1 DEF Others
<1>6. Outside => call[k].pc = "check" /\ call'[k].msg = call[k].msg /\ call'[k].there = call[k].there
  BY <1>0, OutsideStill DEF Still
<1> QED BY <1>1, <1>2, <1>3, <1>4, <1>5, <1>6, NextSplit

LEMMA RefKept ==
  ASSUME Base, RefPart, Next, Base', RowPart'
  PROVE  RefPart'
<1>0. Types /\ RowsQuiet /\ (wait # None => wait \in Waits /\ wait.msg \in Msgs)
  BY RepliesStep DEF Base, Types, WaitType, Waits
<1>d. \A k \in Calls : call'[k].pc = "check" /\ ~call'[k].there => thread'[call'[k].msg] = "deleted"
  BY CheckKept
<1>1. ASSUME NEW k \in Calls, SeatsFull(k) PROVE RefPart'
  <2>1. wait'.refs = {}
    BY <1>0, <1>1, ArmedWait DEF SeatsFull, Base, CallPart
  <2> QED BY <1>d, <2>1 DEF RefPart
<1>2. ASSUME NEW k \in Calls, TryNow(k) \/ SnapResend(k) PROVE RefPart'
  <2>1. /\ wait # None /\ ~wait.resending /\ Others(k) /\ call'[k].pc = "check" /\ call'[k].msg = wait.msg
        /\ wait' = [Claimed(wait) EXCEPT !.refs = (@ \cup {k}) \ {"snap"}]
    BY <1>0, <1>2, BeginMoves
  <2>2. Calls \cap wait.refs = {}
    BY <2>1 DEF RefPart
  <2>3. wait'.msg = wait.msg /\ wait'.resending /\ wait'.refs = (wait.refs \cup {k}) \ {"snap"}
    BY <1>0, <2>1 DEF Claimed, Waits
  <2>4. Calls \cap wait'.refs = {k} /\ "snap" \notin wait'.refs
    BY <2>2, <2>3, Constants
  <2> QED BY <1>d, <2>1, <2>3, <2>4 DEF RefPart
<1>3. ASSUME wait' # None, ~Begun, ~\E k \in Calls : SeatsFull(k) PROVE RefPart'
  <2>1. /\ wait # None /\ wait'.msg = wait.msg
        /\ Calls \cap wait'.refs \subseteq Calls \cap wait.refs
        /\ wait'.resending = wait.resending \/ Calls \cap wait'.refs = {}
        /\ "snap" \in wait'.refs => "snap" \in wait.refs \/ SnapStart
        /\ \A k \in Calls : Ending(k) => k \notin wait'.refs
    BY <1>3, RefsStep
  <2>2. ASSUME NEW k \in Calls \cap wait'.refs
        PROVE  wait'.resending /\ call'[k].pc # "off" /\ call'[k].msg = wait'.msg
    <3>1. k \in wait.refs /\ wait.resending /\ call[k].pc # "off" /\ call[k].msg = wait.msg /\ ~Ending(k)
      BY <2>1 DEF RefPart
    <3> QED BY <2>1, <3>1, RunsOn
  <2>3. \A j, k \in Calls \cap wait'.refs : j = k
    BY <2>1 DEF RefPart
  <2>4. ASSUME snap'.pc = "check", ~snap'.there, "snap" \in wait'.refs PROVE thread'[wait'.msg] = "deleted"
    <3>1. CASE SnapStart
      <4>1. ~row'[wait.msg] /\ status'[wait.msg] # "none"
        BY <1>0, <2>1, <2>4, <3>1, StatusStays DEF SnapStart, Base, NamesPart, StatusKnown
      <4> QED BY <1>0, <2>1, <4>1 DEF RowPart
    <3>2. CASE ~SnapStart
      <4>1. snap' = snap
        <5>1. \A k \in Calls : SnapAfter(k) = snap \/ SnapAfter(k) = Quiet
          BY DEF SnapAfter
        <5>2. ASSUME NEW k \in Calls, Run(k) PROVE snap' = snap \/ snap' = Quiet
          <6>1. CASE NoteWritten(k) \/ FailureWritten(k) \/ StreamEndsDead(k) \/ Refreshed(k)
            BY <5>1, <6>1 DEF NoteWritten, FailureWritten, StreamEndsDead, Refreshed, FinallyAfterEnd, Finally
          <6>2. CASE ResendGone(k) \/ TurnedAway(k) \/ ContinueDeclined(k)
            BY <5>1, <6>2 DEF ResendGone, TurnedAway, ContinueDeclined, ReturnEarly
          <6>3. CASE UNCHANGED snap
            BY <6>3
          <6> QED BY <5>2, <6>1, <6>2, <6>3 DEF Run, ResendChecked, Accepted, LocalNote, StartGeneration, PipelineThrows,
                     StreamEnds, SeatsFull, Painted, Observed, Finalized
        <5>3. ASSUME NEW k \in Calls, NEW m \in Msgs, Submit(k, m) \/ Continue(k, m) PROVE snap' = snap
          BY <5>3 DEF Submit, Continue
        <5>4. CASE Outside
          <6>1. ~GiveUp
            BY <1>3 DEF GiveUp, StopWaiting
          <6>2. SnapGone \/ NothingToDecide \/ KeepWaiting => snap' = Quiet
            BY DEF SnapGone, NothingToDecide, KeepWaiting
          <6>3. (\E n \in notes : NoteRepainted(n)) => snap' = snap \/ snap' = Quiet
            BY DEF NoteRepainted
          <6>4. Quiet.pc # "check"
            BY Constants
          <6>5. CASE snap' = Quiet
            BY <2>4, <6>4, <6>5
          <6> QED BY <3>2, <5>4, <6>1, <6>2, <6>3, <6>5 DEF Outside, Age, StopStream, CancelWait, Delete, DeleteAborts,
                     DeleteRows, Deleting, DeleteSettled, DeleteHeard, AskStarts, AskEnds
        <5> QED BY <1>3, <2>4, <5>2, <5>3, <5>4, NextSplit DEF Begun, Quiet
      <4>2. thread[wait.msg] = "deleted"
        BY <2>1, <2>4, <3>2, <4>1 DEF RefPart
      <4> QED BY <1>0, <2>1, <4>2 DEF RowsQuiet
    <3> QED BY <3>1, <3>2
  <2> QED BY <1>d, <2>2, <2>3, <2>4 DEF RefPart
<1>4. CASE wait' = None
  BY <1>4, <1>d DEF RefPart
<1> QED BY <1>1, <1>2, <1>3, <1>4 DEF Begun

\* Everything at once.
Inv == Base /\ SlotPart /\ EndPart /\ HoldPart /\ RowPart /\ RefPart

LEMMA WaitInvariant == ASSUME NoOverlap PROVE Spec => []Inv
<1>1. Init => EndPart /\ HoldPart /\ RowPart /\ RefPart
  BY DEF Init, EndPart, HoldPart, RowPart, RefPart, WaitingRowHasWait, Off, Tail
<1>2. ASSUME Inv, Next, (Base /\ SlotPart)' PROVE Inv'
  <2>1. EndPart' /\ HoldPart' /\ RowPart'
    BY <1>2, EndKept, HoldKept, RowKept DEF Inv
  <2> QED BY <1>2, <2>1, RefKept DEF Inv
<1>3. ASSUME Inv, UNCHANGED vars, (Base /\ SlotPart)' PROVE Inv'
  BY <1>3 DEF Inv, EndPart, HoldPart, RowPart, RefPart, WaitingRowHasWait, vars
<1>4. Inv /\ (Base /\ SlotPart)' /\ [Next]_vars => Inv'
  BY <1>2, <1>3
<1>5. Base /\ SlotPart /\ EndPart /\ HoldPart /\ RowPart /\ RefPart => Inv
  BY DEF Inv
<1> QED BY <1>1, <1>4, <1>5, SlotInvariant, PTL DEF Spec

\* The seat wait keeps its promises: a hold has the wait it is held for, while a row waits
\* the slot is kept in its name, a row of a thread that exists only says it waits with a wait
\* behind it, and no turn is sent twice, whatever calls end, threads are deleted and waits are
\* cancelled, given up or armed anew meanwhile.
THEOREM WaitIsHonest == ASSUME NoOverlap PROVE Spec => []WaitHonest
<1>1. Base /\ RefPart => OneResend
  <2>1. ASSUME RefPart, wait # None, wait.refs \subseteq Calls \cup {"snap"} PROVE Cardinality(wait.refs \ {"snap"}) <= 1
    <3>1. \A j, k \in wait.refs \ {"snap"} : j = k
      BY <2>1 DEF RefPart
    <3>2. CASE wait.refs \ {"snap"} = {}
      BY <3>2, FS_EmptySet
    <3>3. ASSUME NEW k \in wait.refs \ {"snap"} PROVE Cardinality(wait.refs \ {"snap"}) <= 1
      <4>1. wait.refs \ {"snap"} = {k}
        BY <3>1, <3>3
      <4> QED BY <4>1, FS_Singleton
    <3> QED BY <3>2, <3>3
  <2>2. Base /\ wait # None => wait.refs \subseteq Calls \cup {"snap"}
    BY DEF Base, Types, WaitType, Waits
  <2> QED BY <2>1, <2>2 DEF OneResend
<1>2. Inv => WaitHonest
  <2>1. Inv => TypeOK /\ HoldIsTheWaits /\ WaitingRowHasWait
    BY TypeParts DEF Inv, Base, HoldPart, HoldIsTheWaits, RowPart
  <2> QED BY <1>1, <2>1 DEF WaitHonest, Inv
<1> QED BY <1>2, WaitInvariant, PTL

=============================================================================
