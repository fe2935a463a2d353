-------------------------------- MODULE Bus --------------------------------
(* The farm's message bus (farm/src/bus.js): MQTT, WebSocket and OSC clients on   *)
(* one topic space, the farm password at each door, and its change. One action    *)
(* is one event of the bus process: a packet, a socket's close, the sweep, a      *)
(* message from the farm. A destroyed socket keeps its entries until its 'close'. *)
EXTENDS FarmPassword, FiniteSets

CONSTANTS
    Socks, Ws, Addrs,   \* MQTT connections, WebSocket connections, OSC addresses
    Ids,                \* MQTT client ids
    MaxAtOnce           \* bound: connections at a time, all through the same door

ASSUME Kinds ==
    /\ Socks \cap Ws = {} /\ (Socks \cup Ws) \cap Addrs = {}
    /\ None \notin Socks \cup Ws \cup Addrs \cup Ids

Clients == Socks \cup Ws

VARIABLES
    password,     \* what the bus asks for: a key, or Open
    st,           \* a connection: "free", "open" (no CONNECT yet), "in",
                  \* "ending" (refused, or its end was sent), "gone" (destroyed, 'close' to come)
    idOf,         \* c.id
    mqttIds,      \* client id -> the connection registered under it
    listening,    \* oscListeners
    subscribers,  \* who publish() goes through
    under         \* the password each client that is in was let in under

busVars == <<password, st, idOf, mqttIds, listening, subscribers, under>>

Room(kind) ==
    LET here == {c \in Clients : st[c] # "free"} \cup listening
    IN  here \subseteq kind /\ Cardinality(here) < MaxAtOnce
KeyOk(given) == password = Open \/ given = password

\* A bus just started with the password k in its environment.
Fresh(k) ==
    /\ password' = k
    /\ st' = [c \in Clients |-> "free"] /\ idOf' = [s \in Socks |-> None]
    /\ mqttIds' = [i \in Ids |-> None]
    /\ listening' = {} /\ subscribers' = {} /\ under' = [x \in Clients \cup Addrs |-> Open]

BusInit ==
    /\ password = Open
    /\ st = [c \in Clients |-> "free"] /\ idOf = [s \in Socks |-> None]
    /\ mqttIds = [i \in Ids |-> None]
    /\ listening = {} /\ subscribers = {} /\ under = [x \in Clients \cup Addrs |-> Open]

-----------------------------------------------------------------------------
(* MQTT. *)

Accept(s) ==
    /\ st[s] = "free" /\ Room(Socks) /\ st' = [st EXCEPT ![s] = "open"]
    /\ UNCHANGED <<password, idOf, mqttIds, listening, subscribers, under>>

\* onConnect(): a wrong password is refused; the same id again ends its old session.
Connect(s, id, given) ==
    /\ st[s] = "open"
    /\ IF KeyOk(given)
       THEN LET old == mqttIds[id] IN
            /\ st' = [c \in Clients |-> IF c = s THEN "in" ELSE IF c = old THEN "gone" ELSE st[c]]
            /\ mqttIds' = [mqttIds EXCEPT ![id] = s] /\ idOf' = [idOf EXCEPT ![s] = id]
            /\ subscribers' = subscribers \cup {s}
            /\ under' = [x \in Clients \cup Addrs |-> IF x = s THEN password ELSE IF x = old THEN Open ELSE under[x]]
       ELSE st' = [st EXCEPT ![s] = "ending"] /\ UNCHANGED <<idOf, mqttIds, subscribers, under>>
    /\ UNCHANGED <<password, listening>>

\* A DISCONNECT, or a WebSocket's close: the connection is ended, not yet closed.
EndSent(c) ==
    /\ st[c] = "in" /\ st' = [st EXCEPT ![c] = "ending"] /\ under' = [under EXCEPT ![c] = Open]
    /\ UNCHANGED <<password, idOf, mqttIds, listening, subscribers>>

\* 'close': the registry forgets the client only if the id is still its own.
SockClosed_AnyId(s) ==
    /\ st[s] = "gone" /\ st' = [st EXCEPT ![s] = "free"]
    /\ subscribers' = subscribers \ {s} /\ idOf' = [idOf EXCEPT ![s] = None]
    /\ mqttIds' = [i \in Ids |-> IF i = idOf[s] THEN None ELSE mqttIds[i]]
    /\ UNCHANGED <<password, listening, under>>
SockClosed(s) ==
    /\ st[s] = "gone" /\ st' = [st EXCEPT ![s] = "free"]
    /\ subscribers' = subscribers \ {s} /\ idOf' = [idOf EXCEPT ![s] = None]
    /\ mqttIds' = [i \in Ids |-> IF mqttIds[i] = s THEN None ELSE mqttIds[i]]
    /\ UNCHANGED <<password, listening, under>>

-----------------------------------------------------------------------------
(* WebSocket. *)

\* A wrong key is answered 401 and leaves nothing.
Upgrade(w, given) ==
    /\ st[w] = "free" /\ Room(Ws) /\ KeyOk(given)
    /\ st' = [st EXCEPT ![w] = "in"] /\ subscribers' = subscribers \cup {w}
    /\ under' = [under EXCEPT ![w] = password]
    /\ UNCHANGED <<password, idOf, mqttIds, listening>>

WsClosed(w) ==
    /\ st[w] = "gone" /\ st' = [st EXCEPT ![w] = "free"] /\ subscribers' = subscribers \ {w}
    /\ UNCHANGED <<password, idOf, mqttIds, listening, under>>

\* The peer hangs up, is reset or breaks the protocol, or the sweep finds it late.
Destroyed(c) ==
    /\ st[c] \notin {"free", "gone"} /\ st' = [st EXCEPT ![c] = "gone"]
    /\ under' = [under EXCEPT ![c] = Open]
    /\ UNCHANGED <<password, idOf, mqttIds, listening, subscribers>>

-----------------------------------------------------------------------------
(* OSC. *)

Listen(a, given) ==
    /\ KeyOk(given) /\ (a \in listening \/ Room(Addrs))
    /\ listening' = listening \cup {a} /\ subscribers' = subscribers \cup {a}
    /\ under' = IF a \in listening THEN under ELSE [under EXCEPT ![a] = password]
    /\ UNCHANGED <<password, st, idOf, mqttIds>>

\* /lol/unlisten, or ten minutes without a /lol/listen.
Unlisten(a) ==
    /\ a \in listening
    /\ listening' = listening \ {a} /\ subscribers' = subscribers \ {a}
    /\ under' = [under EXCEPT ![a] = Open] /\ UNCHANGED <<password, st, idOf, mqttIds>>

-----------------------------------------------------------------------------
\* setKey(): a changed password ends every session, the half connected ones too.
SetKey_SparesOsc(k) ==
    /\ password' = k
    /\ st' = IF k = password \/ k = Open THEN st
             ELSE [c \in Clients |-> IF st[c] = "free" THEN "free" ELSE "gone"]
    /\ UNCHANGED <<listening, subscribers, idOf, mqttIds, under>>
SetKey(k) ==
    /\ password' = k
    /\ IF k = password \/ k = Open
       THEN UNCHANGED <<st, listening, subscribers, under>>
       ELSE /\ st' = [c \in Clients |-> IF st[c] = "free" THEN "free" ELSE "gone"]
            /\ listening' = {} /\ subscribers' = subscribers \ listening
            /\ under' = [x \in Clients \cup Addrs |-> Open]
    /\ UNCHANGED <<idOf, mqttIds>>

BusStep ==
    \/ \E s \in Socks : Accept(s) \/ SockClosed(s)
    \/ \E s \in Socks, i \in Ids, k \in Passwords : Connect(s, i, k)
    \/ \E w \in Ws : WsClosed(w) \/ \E k \in Passwords : Upgrade(w, k)
    \/ \E c \in Clients : EndSent(c) \/ Destroyed(c)
    \/ \E a \in Addrs : Unlisten(a) \/ \E k \in Passwords : Listen(a, k)

-----------------------------------------------------------------------------
BusTypeOK ==
    /\ password \in Passwords
    /\ st \in [Clients -> {"free", "open", "in", "ending", "gone"}]
    /\ idOf \in [Socks -> Ids \cup {None}] /\ mqttIds \in [Ids -> Socks \cup {None}]
    /\ listening \subseteq Addrs /\ subscribers \subseteq Clients \cup Addrs
    /\ under \in [Clients \cup Addrs -> Passwords]

\* Who gets what is published: a destroyed or ended socket takes no more writes.
Receives(x) == x \in subscribers /\ (x \in Clients => st[x] = "in")

\* A board that reconnects under its id is registered under it, alone, whatever the
\* order in which its old socket's 'close' comes; and a registered id is a live
\* connection's, so the counts the farm shows are of boards that are there.
RegistryTrue ==
    /\ \A s \in Socks : st[s] = "in" => mqttIds[idOf[s]] = s
    /\ \A i \in Ids : mqttIds[i] # None => idOf[mqttIds[i]] = i /\ st[mqttIds[i]] # "free"

\* "every session was closed and must connect with the new one": nobody receives who
\* was not let in under the password of now, at any door.
OnlyThePassword == password # Open => \A x \in subscribers : Receives(x) => under[x] = password
=============================================================================
