------------------------------ MODULE ChatStore ------------------------------
(***************************************************************************)
(* The chat store (state/repo.mjs): memory and a replay journal until      *)
(* IndexedDB is open, IndexedDB afterwards, and a separate memory for the  *)
(* temporary chats. Writes run on one promise chain in call order; what a  *)
(* write reads, it reads when its turn comes, so a call made before a      *)
(* deletion may run after it.                                              *)
(*                                                                         *)
(* Around it, as little of the window as decides which calls come when:    *)
(* generate()'s one reply at a time (app/controller.mjs), the sidebar's    *)
(* delete (ui/sidebar.mjs), the recovery of interrupted replies (main.mjs) *)
(* and the closing of the window.                                          *)
(*                                                                         *)
(* Abstractions: a thread has one reply; a reply is its status; titles,    *)
(* attachments, graphs, recipes and the v1 import, which go the same way,  *)
(* are left out, and so is a single write that IndexedDB refuses.          *)
(***************************************************************************)
EXTENDS Naturals, Sequences, SequencesExt

CONSTANTS
    Threads,
    None,                  \* no thread, no reply
    MaxChain,              \* bound: calls waiting on the chain
    MaxJournal,            \* bound: journal entries before the reader calls no more
    MaxSessions,           \* bound: times the window is opened
    DeleteUnseen           \* whether a thread is deleted while generate() works on its reply but
                           \* does not stream: abortThread() sees nothing then

ASSUME ChatStoreAssumption ==
    /\ IsFiniteSet(Threads)
    /\ None \notin Threads \cup {"streaming", "interrupted", "done"}
    /\ MaxChain \in Nat /\ MaxChain >= 2
    /\ MaxJournal \in Nat /\ MaxSessions \in Nat \ {0}
    /\ DeleteUnseen \in BOOLEAN

VARIABLES
    mode,         \* api.mode
    open,         \* the database: "opening", "open" or "failed"
    attached,     \* persist is IndexedDB
    mem, eph, idb,\* the three backends
    journal,      \* writes to replay into IndexedDB
    chain,        \* calls not run yet
    ephemeralIds,
    pending,      \* pendingCheckpoints: threads whose reply is about to be written
    ready,        \* the promise ready has resolved
    recovery,     \* main.mjs's settle() is about to recover interrupted replies
    gen,          \* generate(): [on, pc, ahead]
    status,       \* status[t] of the reply object generate() writes into
    dead,         \* the controller's deadThreads
    deletion,     \* the sidebar's delete: [on, pc]
    used,         \* threads created so far (ids are never used twice)
    temporary,    \* threads created as temporary
    session       \* which session this is

store == <<mode, open, attached, mem, eph, idb, journal, ephemeralIds, ready>>
window == <<recovery, gen, status, dead, deletion, used, temporary, session>>
vars == <<store, window, chain, pending>>

Statuses == {None, "streaming", "interrupted", "done"}
Chats == [thread : BOOLEAN, reply : Statuses]
Blank == [thread |-> FALSE, reply |-> None]
Nothing == [t \in Threads |-> Blank]

Writes == [store : {"thread"}, of : Threads, to : BOOLEAN]
            \cup [store : {"reply"}, of : Threads, to : Statuses]
Calls == [name : {"create", "append", "update", "put", "delete", "recover", "attach"},
          on : Threads \cup {None}, to : Statuses, ephemeral : BOOLEAN, late : BOOLEAN]
Call(name, t) == [name |-> name, on |-> t, to |-> None, ephemeral |-> t \in ephemeralIds,
                  late |-> FALSE]

NoGen == [on |-> None, pc |-> "off", ahead |-> 0]
NoDeletion == [on |-> None, pc |-> "off"]

TypeOK ==
    /\ mode \in {"pending", "memory", "idb", "memory-final"}
    /\ open \in {"opening", "open", "failed"}
    /\ attached \in BOOLEAN /\ ready \in BOOLEAN /\ recovery \in BOOLEAN
    /\ mem \in [Threads -> Chats] /\ eph \in [Threads -> Chats] /\ idb \in [Threads -> Chats]
    /\ journal \in Seq(Writes) /\ chain \in Seq(Calls)
    /\ ephemeralIds \subseteq Threads /\ pending \subseteq Threads
    /\ dead \subseteq Threads /\ used \subseteq Threads /\ temporary \subseteq used
    /\ gen \in [on : Threads \cup {None}, ahead : Nat,
                pc : {"off", "get", "building", "streaming", "ending", "finishing"}]
    /\ status \in [Threads -> Statuses]
    /\ deletion \in [on : Threads \cup {None}, pc : {"off", "waits", "called"}]
    /\ session \in 1 .. MaxSessions

Init ==
    /\ mode = "pending" /\ open = "opening" /\ attached = FALSE /\ ready = FALSE
    /\ mem = Nothing /\ eph = Nothing /\ idb = Nothing /\ journal = <<>> /\ chain = <<>>
    /\ ephemeralIds = {} /\ pending = {} /\ recovery = FALSE
    /\ gen = NoGen /\ status = [t \in Threads |-> None]
    /\ dead = {} /\ deletion = NoDeletion
    /\ used = {} /\ temporary = {} /\ session = 1

-----------------------------------------------------------------------------
(* The backends.                                                           *)

Persist == IF attached THEN idb ELSE mem
Journaling == ~attached /\ mode \in {"pending", "memory"}

\* loadThread(), and what the reader is shown of a thread.
Shown(t) == IF eph[t] # Blank THEN eph[t] ELSE Persist[t]

Thread(t, to) == [store |-> "thread", of |-> t, to |-> to]
Reply(t, to) == [store |-> "reply", of |-> t, to |-> to]

\* The places of the writes to one row ...
To(writes, s, t) == {i \in DOMAIN writes : writes[i].store = s /\ writes[i].of = t}

\* ... of which the last one wins.
Row(was, writes, s, t) ==
    IF To(writes, s, t) = {} THEN was ELSE writes[Max(To(writes, s, t))].to

\* bulk().
Applied(b, writes) ==
    [t \in Threads |-> [thread |-> Row(b[t].thread, writes, "thread", t),
                        reply |-> Row(b[t].reply, writes, "reply", t)]]

\* Mutant: nothing is journaled once the open is late.
Persisted_PendingOnly(writes) ==
    /\ idb' = IF attached THEN Applied(idb, writes) ELSE idb
    /\ mem' = IF attached THEN mem ELSE Applied(mem, writes)
    /\ journal' = IF ~attached /\ mode = "pending" THEN journal \o writes ELSE journal

\* Where the writes of a call land, once `eph` has had its own.
Persisted(writes) ==
    /\ idb' = IF attached THEN Applied(idb, writes) ELSE idb
    /\ mem' = IF attached THEN mem ELSE Applied(mem, writes)
    /\ journal' = IF Journaling THEN journal \o writes ELSE journal

\* applyOps().
Apply(writes, ephemeral) ==
    IF ephemeral THEN eph' = Applied(eph, writes) /\ UNCHANGED <<mem, idb, journal>>
    ELSE Persisted(writes) /\ UNCHANGED eph

-----------------------------------------------------------------------------
(* The calls, when their turn comes.                                       *)

Quiet == UNCHANGED <<mode, open, attached, ephemeralIds, ready, recovery, dead, deletion>>

RunCreate(c) == Apply(<<Thread(c.on, TRUE)>>, c.ephemeral) /\ Quiet

RunUpdate(c) ==
    /\ Apply(IF Shown(c.on).thread THEN <<Thread(c.on, TRUE)>> ELSE <<>>,
             eph[c.on].thread \/ c.on \in ephemeralIds)
    /\ Quiet

RunAppend(c) ==
    /\ Apply(<<Reply(c.on, "streaming")>>
                \o (IF Shown(c.on).thread THEN <<Thread(c.on, TRUE)>> ELSE <<>>), c.ephemeral)
    /\ Quiet

\* putMessage() and checkpoint(): isEph() is asked when the write runs.
RunPut(c) == Apply(<<Reply(c.on, c.to)>>, c.on \in ephemeralIds) /\ Quiet

\* The cascade, then THREADS_CHANGED: the controller learns that the thread is dead.
RunDelete(c) ==
    LET t == c.on
        backend == IF t \in ephemeralIds THEN eph ELSE Persist
    IN  /\ Apply(<<Thread(t, FALSE)>>
                    \o (IF backend[t].reply # None THEN <<Reply(t, None)>> ELSE <<>>),
                 t \in ephemeralIds)
        /\ ephemeralIds' = ephemeralIds \ {t}
        /\ dead' = dead \cup {t}
        /\ deletion' = NoDeletion
        /\ UNCHANGED <<mode, open, attached, ready, recovery>>

Interrupted(b) == SetToSeq({Reply(t, "interrupted") : t \in {u \in Threads : b[u].reply = "streaming"}})

RunRecover(c) ==
    /\ Persisted(Interrupted(Persist))
    /\ eph' = Applied(eph, Interrupted(eph))
    /\ Quiet

\* Mutant: the late attach does not have interrupted replies recovered again.
RunAttach_NoRescan(c) ==
    /\ \/ /\ idb' = Applied(idb, journal)
          /\ attached' = TRUE /\ mode' = "idb"
       \/ /\ mode' = "memory-final" /\ UNCHANGED <<idb, attached>>
    /\ recovery' = (recovery \/ ~ready)
    /\ journal' = <<>> /\ ready' = TRUE
    /\ UNCHANGED <<open, mem, eph, ephemeralIds, dead, deletion>>

\* Mutant: the journal is emptied, not replayed.
RunAttach_NoReplay(c) ==
    /\ \/ /\ UNCHANGED idb
          /\ attached' = TRUE /\ mode' = "idb"
          /\ recovery' = (recovery \/ ~ready \/ c.late)
       \/ /\ mode' = "memory-final" /\ recovery' = (recovery \/ ~ready)
          /\ UNCHANGED <<idb, attached>>
    /\ journal' = <<>> /\ ready' = TRUE
    /\ UNCHANGED <<open, mem, eph, ephemeralIds, dead, deletion>>

\* The journal is replayed, or it cannot be and nothing will be saved.
RunAttach(c) ==
    /\ \/ /\ idb' = Applied(idb, journal)
          /\ attached' = TRUE /\ mode' = "idb"
          /\ recovery' = (recovery \/ ~ready \/ c.late)
       \/ /\ mode' = "memory-final" /\ recovery' = (recovery \/ ~ready)
          /\ UNCHANGED <<idb, attached>>
    /\ journal' = <<>> /\ ready' = TRUE
    /\ UNCHANGED <<open, mem, eph, ephemeralIds, dead, deletion>>

Run ==
    /\ chain # <<>>
    /\ chain' = Tail(chain)
    /\ gen' = [gen EXCEPT !.ahead = IF @ = 0 THEN 0 ELSE @ - 1]
    /\ LET c == Head(chain)
       IN  CASE c.name = "create" -> RunCreate(c)
             [] c.name = "update" -> RunUpdate(c)
             [] c.name = "append" -> RunAppend(c)
             [] c.name = "put" -> RunPut(c)
             [] c.name = "delete" -> RunDelete(c)
             [] c.name = "recover" -> RunRecover(c)
             [] c.name = "attach" -> RunAttach(c)
    /\ UNCHANGED <<pending, status, used, temporary, session>>

-----------------------------------------------------------------------------
(* Opening the database.                                                   *)

\* failOpen().
Resolve == ready' = TRUE /\ recovery' = (recovery \/ ~ready)

OpenFails ==
    /\ open = "opening" /\ open' = "failed"
    /\ mode' = "memory-final" /\ journal' = <<>>
    /\ Resolve
    /\ UNCHANGED <<attached, mem, eph, idb, chain, ephemeralIds, pending, gen, status, dead,
                   deletion, used, temporary, session>>

\* attach(): queued behind the writes made so far, which the journal will hold.
OpenSucceeds ==
    /\ open = "opening" /\ open' = "open"
    /\ chain' = Append(chain, [Call("attach", None) EXCEPT !.late = mode = "memory"])
    /\ UNCHANGED <<mode, attached, mem, eph, idb, journal, ephemeralIds, ready, pending, window>>

\* The open takes longer than timeoutMs: keep working, keep waiting.
Timeout ==
    /\ mode = "pending" /\ open = "opening"
    /\ mode' = "memory"
    /\ Resolve
    /\ UNCHANGED <<open, attached, mem, eph, idb, journal, chain, ephemeralIds, pending, gen,
                   status, dead, deletion, used, temporary, session>>

\* settle(): recoverInterrupted(), once the store is ready and again when it attached late.
Recover ==
    /\ recovery /\ recovery' = FALSE
    /\ chain' = Append(chain, Call("recover", None))
    /\ UNCHANGED <<store, pending, gen, status, dead, deletion, used, temporary, session>>

-----------------------------------------------------------------------------
(* The window.                                                             *)

\* The bounds on what the reader and the stream call.
Room == Len(chain) < MaxChain /\ (Journaling => Len(journal) < MaxJournal)

CreateThread(t, ephemeral) ==
    /\ Room /\ t \notin used
    /\ used' = used \cup {t}
    /\ ephemeralIds' = IF ephemeral THEN ephemeralIds \cup {t} ELSE ephemeralIds
    /\ temporary' = IF ephemeral THEN temporary \cup {t} ELSE temporary
    /\ chain' = Append(chain, [Call("create", t) EXCEPT !.ephemeral = ephemeral])
    /\ UNCHANGED <<mode, open, attached, mem, eph, idb, journal, ready, pending, recovery, gen,
                   status, dead, deletion, session>>

\* A title, a pin, a model, a draft: updateThread() loads the record and writes it back.
UpdateThread(t) ==
    /\ Room /\ Shown(t).thread
    /\ chain' = Append(chain, Call("update", t))
    /\ UNCHANGED <<store, window, pending>>

\* generate() asks for the thread: a read runs after the calls made before it. (A thread's one
\* reply: neither stored nor begun.)
AskGenerate(t) ==
    /\ Room /\ gen = NoGen /\ t \in used
    /\ status[t] = None /\ idb[t].reply = None
    /\ gen' = [on |-> t, pc |-> "get", ahead |-> Len(chain)]
    /\ UNCHANGED <<store, recovery, status, dead, deletion, used, temporary, session, chain, pending>>

\* The thread is there: the slot is taken and the reply's row appended.
AppendReply ==
    /\ gen.pc = "get" /\ gen.ahead = 0
    /\ IF Shown(gen.on).thread
       THEN /\ chain' = Append(chain, Call("append", gen.on))
            /\ status' = [status EXCEPT ![gen.on] = "streaming"]
            /\ gen' = [gen EXCEPT !.pc = "building"]
       ELSE gen' = NoGen /\ UNCHANGED <<chain, status>>
    /\ UNCHANGED <<store, recovery, dead, deletion, used, temporary, session, pending>>

StartGeneration ==
    /\ gen.pc = "building"
    /\ gen' = [gen EXCEPT !.pc = "streaming"]
    /\ UNCHANGED <<store, recovery, status, dead, deletion, used, temporary, session, chain, pending>>

\* onCheckpoint(): the timer of a reply that has one already keeps running.
Checkpoint ==
    /\ gen.pc = "streaming" /\ gen.on \notin dead
    /\ pending' = pending \cup {gen.on}
    /\ UNCHANGED <<store, window, chain>>

\* The timer: the row is written as the reply is now.
CheckpointFires(t) ==
    /\ t \in pending /\ Room
    /\ pending' = pending \ {t}
    /\ chain' = Append(chain, [Call("put", t) EXCEPT !.to = status[t]])
    /\ UNCHANGED <<store, window>>

\* The stream is over or was aborted; the observers are still to be awaited.
StreamEnds ==
    /\ gen.pc = "streaming"
    /\ gen' = [gen EXCEPT !.pc = "ending"]
    /\ status' = [status EXCEPT ![gen.on] = "done"]
    /\ UNCHANGED <<store, recovery, dead, deletion, used, temporary, session, chain, pending>>

\* finalize(), unless the thread is known to be deleted.
Finalize ==
    /\ gen.pc = "ending"
    /\ IF gen.on \in dead THEN gen' = NoGen /\ UNCHANGED <<chain, pending>>
       ELSE /\ pending' = pending \ {gen.on}
            /\ chain' = Append(chain, [Call("put", gen.on) EXCEPT !.to = status[gen.on]])
            /\ gen' = [gen EXCEPT !.pc = "finishing", !.ahead = Len(chain) + 1]
    /\ UNCHANGED <<store, recovery, status, dead, deletion, used, temporary, session>>

Release ==
    /\ gen.pc = "finishing" /\ gen.ahead = 0
    /\ gen' = NoGen
    /\ UNCHANGED <<store, recovery, status, dead, deletion, used, temporary, session, chain, pending>>

\* deleteThread(): the checkpoint waiting on its timer is dropped first.
CallDelete(t) ==
    /\ pending' = pending \ {t}
    /\ chain' = Append(chain, Call("delete", t))
    /\ deletion' = [on |-> t, pc |-> "called"]

\* abortThread() knows a generation only while it streams.
Active(t) == gen.on = t /\ gen.pc = "streaming"

AskDelete(t) ==
    /\ Room /\ deletion = NoDeletion /\ Shown(t).thread
    /\ (gen.on = t /\ gen.pc # "streaming") => DeleteUnseen
    /\ IF Active(t) THEN deletion' = [on |-> t, pc |-> "waits"] /\ UNCHANGED <<chain, pending>>
       ELSE CallDelete(t)
    /\ UNCHANGED <<store, recovery, gen, status, dead, used, temporary, session>>

\* The reply has settled: the cascade comes after its last write.
DeleteGoesOn ==
    /\ deletion.pc = "waits" /\ gen.on # deletion.on
    /\ CallDelete(deletion.on)
    /\ UNCHANGED <<store, recovery, gen, status, dead, used, temporary, session>>

\* The window is closed, or crashes: only IndexedDB is left.
CloseWindow ==
    /\ session < MaxSessions
    /\ session' = session + 1
    /\ mode' = "pending" /\ open' = "opening" /\ attached' = FALSE /\ ready' = FALSE
    /\ mem' = Nothing /\ eph' = Nothing /\ journal' = <<>> /\ chain' = <<>>
    /\ ephemeralIds' = {} /\ pending' = {} /\ recovery' = FALSE
    /\ gen' = NoGen /\ status' = [t \in Threads |-> None]
    /\ dead' = {} /\ deletion' = NoDeletion
    /\ UNCHANGED <<idb, used, temporary>>

Reader ==
    \/ \E t \in Threads : \/ \E ephemeral \in BOOLEAN : CreateThread(t, ephemeral)
                          \/ UpdateThread(t) \/ AskGenerate(t) \/ AskDelete(t)
    \/ CloseWindow

System ==
    \/ Run \/ OpenFails \/ OpenSucceeds \/ Timeout \/ Recover
    \/ AppendReply \/ StartGeneration \/ Checkpoint \/ StreamEnds \/ Finalize \/ Release
    \/ DeleteGoesOn
    \/ \E t \in Threads : CheckpointFires(t)

Next == Reader \/ System

Spec == Init /\ [][Next]_vars

-----------------------------------------------------------------------------
(* Properties.                                                             *)

\* While the database is not open, its journal replayed from nothing is what memory holds:
\* whatever is replayed late is what the reader was shown, deletions included.
JournalIsMemory == Journaling => Applied(Nothing, journal) = mem

\* A stored reply belongs to a stored thread, in each backend: nothing is written after a
\* deletion that the deletion did not see ("an orphan row with no thread", repo.mjs:306).
NoOrphan == \A t \in Threads, b \in {mem, eph, idb} : b[t].reply # None => b[t].thread

\* A reply shown as streaming is being streamed, or the recovery of interrupted replies is
\* still to run: the one at the attach too, however late it comes. (With the chain and settle()
\* going on, a reply cut off by a crash is therefore seen to be interrupted in the end.)
Recovered == ready /\ ~recovery /\ \A i \in DOMAIN chain : chain[i].name # "recover"
NoGhostReply == Recovered => \A t \in Threads : Shown(t).reply = "streaming" => gen.on = t

\* The replies stored and shown are what they say, in every backend (and the types hold).
RepliesTrue == TypeOK /\ NoOrphan /\ NoGhostReply

\* What the store promises: what is shown is kept from the moment the database is attached,
\* nothing shown is lost by that, and a temporary chat is never kept (repo.mjs:24-25).
Kept == INSTANCE KeptChats WITH shown <- [t \in Threads |-> Shown(t)], kept <- idb,
                                keeping <- attached
KeptSpec == Kept!Spec
=============================================================================
