------------------------------ MODULE SeatPool ------------------------------
(***************************************************************************)
(* What the seat gate promises the people on the LAN, with no sockets, no  *)
(* clock and no counters: a bounded pool of seats, where whoever is being  *)
(* answered keeps the seat, a newcomer is seated only below the current    *)
(* capacity, and an idle seat may be taken back at any moment.             *)
(***************************************************************************)
EXTENDS FiniteSets, Naturals

CONSTANT Callers

VARIABLES
    seated,      \* who holds a seat
    busy,        \* who is being answered
    capacity     \* seats the farm offers now

poolVars == <<seated, busy, capacity>>

Init ==
    /\ seated = {}
    /\ busy = {}
    /\ capacity \in Nat \ {0}

\* c is let in. Idle seats may be reclaimed at the same moment.
Seat(c) ==
    \E gone \in SUBSET (seated \ busy) :
        /\ c \in seated \ gone \/ Cardinality(seated \ gone) < capacity
        /\ seated' = (seated \ gone) \cup {c}
        /\ busy' = busy \cup {c}
        /\ UNCHANGED capacity

\* c's last answer is over; the seat stays.
Finish(c) ==
    /\ busy' = busy \ {c}
    /\ UNCHANGED <<seated, capacity>>

\* Idle seats are reclaimed.
Reclaim ==
    /\ seated' \in {seated \ gone : gone \in SUBSET (seated \ busy)}
    /\ UNCHANGED <<busy, capacity>>

Resize ==
    /\ capacity' \in Nat \ {0}
    /\ UNCHANGED <<seated, busy>>

Next ==
    \/ \E c \in Callers : Seat(c) \/ Finish(c)
    \/ Reclaim
    \/ Resize

Spec == Init /\ [][Next]_poolVars
=============================================================================
