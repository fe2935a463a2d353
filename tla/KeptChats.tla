------------------------------ MODULE KeptChats ------------------------------
(***************************************************************************)
(* What the chat store promises, with no database, no journal and no       *)
(* queue: chats that are shown, chats that are kept, and a moment from     *)
(* which everything shown is kept, the temporary chats excepted. What was  *)
(* kept comes back in the next session, and nothing shown disappears       *)
(* because the database opened late.                                       *)
(***************************************************************************)
CONSTANTS Threads, Chats, Blank

VARIABLES
    shown,       \* shown[t]: what the window shows of thread t
    kept,        \* kept[t]: what the next session will find
    keeping,     \* whether what is shown is being kept
    temporary    \* the threads the reader asked not to keep

keptVars == <<shown, kept, keeping, temporary>>

Nothing == [t \in Threads |-> Blank]

Init == shown = Nothing /\ kept = Nothing /\ keeping = FALSE /\ temporary = {}

\* Chats are written: kept at once when the store keeps them.
Write ==
    /\ shown' \in [Threads -> Chats]
    /\ kept' = [t \in Threads |->
                  IF keeping /\ t \notin temporary THEN shown'[t] ELSE kept[t]]
    /\ UNCHANGED <<keeping, temporary>>

\* A chat that is not to be kept begins.
Temporary(t) ==
    /\ shown[t] = Blank /\ kept[t] = Blank
    /\ temporary' = temporary \cup {t}
    /\ UNCHANGED <<shown, kept, keeping>>

\* The database is there: what is shown joins what was kept.
Keep ==
    /\ ~keeping /\ keeping'
    /\ kept' = [t \in Threads |->
                  IF t \in temporary \/ shown[t] = Blank THEN kept[t] ELSE shown[t]]
    /\ shown' = [t \in Threads |-> IF t \in temporary THEN shown[t] ELSE kept'[t]]
    /\ UNCHANGED temporary

\* The window closes.
Close ==
    /\ shown' = Nothing /\ keeping' = FALSE
    /\ UNCHANGED <<kept, temporary>>

Next == Write \/ (\E t \in Threads : Temporary(t)) \/ Keep \/ Close

Spec == Init /\ [][Next]_keptVars
==============================================================================
