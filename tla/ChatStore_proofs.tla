--------------------------- MODULE ChatStore_proofs ---------------------------
(***************************************************************************)
(* Proofs about the chat store, for any threads.                           *)
(***************************************************************************)
EXTENDS ChatStore, FiniteSetTheorems, SequenceTheorems, WellFoundedInduction, TLAPS

USE ChatStoreAssumption

-----------------------------------------------------------------------------
(* What a row holds after some writes. *)

\* The last of some places of a sequence.
LEMMA LastPlace ==
    ASSUME NEW n \in Nat, NEW S, S \subseteq 1 .. n, S # {}
    PROVE  Max(S) \in S /\ \A i \in S : i <= Max(S)
<1> DEFINE D == {k \in Nat : n - k \in S}
<1>1. D # {}
    <2>1. PICK i \in S : TRUE
        OBVIOUS
    <2>2. n - i \in Nat /\ n - (n - i) = i
        OBVIOUS
    <2> QED
        BY <2>1, <2>2
<1>2. PICK d \in D : \A e \in D : ~(<<e, d>> \in OpToRel(<, Nat))
    BY <1>1, NatLessThanWellFounded, WFMin
<1>3. \A e \in D : d <= e
    <2>1. \A e \in D : ~(e < d)
        BY <1>2 DEF OpToRel
    <2>2. \A e \in D : e \in Nat /\ d \in Nat
        OBVIOUS
    <2> QED
        BY <2>1, <2>2
<1>4. n - d \in S
    BY <1>2
<1>5. \A j \in S : j <= n - d
    <2> SUFFICES ASSUME NEW j \in S PROVE j <= n - d
        OBVIOUS
    <2>1. n - j \in Nat /\ n - (n - j) = j
        OBVIOUS
    <2> QED
        BY <1>3, <2>1
<1> QED
    BY <1>4, <1>5 DEF Max

\* No writes, a row of the right type, one write.
LEMMA RowEmpty ==
    ASSUME NEW was, NEW s, NEW t
    PROVE  Row(was, <<>>, s, t) = was
BY DEF Row, To

LEMMA RowType ==
    ASSUME NEW writes \in Seq(Writes), NEW t \in Threads
    PROVE  /\ \A was \in BOOLEAN : Row(was, writes, "thread", t) \in BOOLEAN
           /\ \A was \in Statuses : Row(was, writes, "reply", t) \in Statuses
<1>1. ASSUME NEW s, To(writes, s, t) # {}
      PROVE  Max(To(writes, s, t)) \in To(writes, s, t)
    <2>1. To(writes, s, t) \subseteq 1 .. Len(writes)
        BY DEF To
    <2> QED
        BY <1>1, <2>1, LastPlace
<1>2. \A i \in DOMAIN writes : writes[i] \in Writes
    OBVIOUS
<1> QED
    BY <1>1, <1>2 DEF Row, To, Writes

\* First some writes and then others.
LEMMA RowConcat ==
    ASSUME NEW v \in Seq(Writes), NEW w \in Seq(Writes), NEW s, NEW t, NEW was
    PROVE  Row(was, v \o w, s, t) = Row(Row(was, v, s, t), w, s, t)
<1> DEFINE n == Len(v)
           V == To(v, s, t)
           W == To(w, s, t)
           B == To(v \o w, s, t)
<1>1. n \in Nat /\ Len(w) \in Nat /\ V \subseteq 1 .. n /\ W \subseteq 1 .. Len(w)
    BY DEF To
<1>2. /\ Len(v \o w) = n + Len(w) /\ B \subseteq 1 .. (n + Len(w))
      /\ \A i \in 1 .. (n + Len(w)) : (v \o w)[i] = IF i <= n THEN v[i] ELSE w[i - n]
    BY DEF To
<1>3. \A i \in 1 .. (n + Len(w)) : i \in B <=> i \in V \/ (i > n /\ i - n \in W)
    BY <1>1, <1>2 DEF To
<1>4. CASE W # {}
    <2>1. Max(W) \in W /\ \A i \in W : i <= Max(W)
        BY <1>1, <1>4, LastPlace
    <2>2. Max(W) + n \in B
        BY <2>1, <1>1, <1>3
    <2>3. \A i \in B : i <= Max(W) + n
        BY <2>1, <1>1, <1>2, <1>3
    <2>4. Max(B) \in B /\ \A i \in B : i <= Max(B)
        BY <1>1, <1>2, <2>2, LastPlace
    <2>5. Max(B) = Max(W) + n
        BY <2>1, <2>2, <2>3, <2>4, <1>1, <1>2
    <2>6. (v \o w)[Max(B)] = w[Max(W)]
        BY <2>1, <2>5, <1>1, <1>2
    <2>7. Row(was, v \o w, s, t) = (v \o w)[Max(B)].to
        BY <2>2 DEF Row
    <2>8. Row(Row(was, v, s, t), w, s, t) = w[Max(W)].to
        BY <1>4 DEF Row
    <2> QED
        BY <2>6, <2>7, <2>8
<1>5. CASE W = {} /\ V # {}
    <2>1. Max(V) \in V /\ \A i \in V : i <= Max(V)
        BY <1>1, <1>5, LastPlace
    <2>2. B = V
        <3>1. \A i \in B : i \in V
            BY <1>2, <1>3, <1>5
        <3>2. \A i \in V : i \in B
            BY <1>1, <1>2, <1>3
        <3> QED
            BY <3>1, <3>2
    <2>3. (v \o w)[Max(V)] = v[Max(V)]
        BY <2>1, <1>1, <1>2
    <2> QED
        BY <2>2, <2>3, <1>5 DEF Row
<1>6. CASE W = {} /\ V = {}
    <2>1. B = {}
        BY <1>1, <1>2, <1>3, <1>6
    <2> QED
        BY <2>1, <1>6 DEF Row
<1> QED
    BY <1>4, <1>5, <1>6

LEMMA RowOne ==
    ASSUME NEW was, NEW x, NEW s, NEW t
    PROVE  Row(was, <<x>>, s, t) = IF x.store = s /\ x.of = t THEN x.to ELSE was
<1> DEFINE R == To(<<x>>, s, t)
<1>1. DOMAIN <<x>> = {1} /\ <<x>>[1] = x
    OBVIOUS
<1>2. CASE x.store = s /\ x.of = t
    <2>1. R = {1}
        BY <1>1, <1>2 DEF To
    <2>2. Max(R) \in R
        BY <2>1, LastPlace
    <2> QED
        BY <1>1, <1>2, <2>1, <2>2 DEF Row
<1>3. CASE ~(x.store = s /\ x.of = t)
    <2>1. R = {}
        BY <1>1, <1>3 DEF To
    <2> QED
        BY <1>3, <2>1 DEF Row
<1> QED
    BY <1>2, <1>3

\* A row without a write stays as it was.
LEMMA RowUntouched ==
    ASSUME NEW was, NEW writes \in Seq(Writes), NEW s, NEW t,
           \A i \in DOMAIN writes : ~(writes[i].store = s /\ writes[i].of = t)
    PROVE  Row(was, writes, s, t) = was
BY DEF Row, To

\* A row with a write holds what one of its writes says.
LEMMA RowWritten ==
    ASSUME NEW was, NEW writes \in Seq(Writes), NEW s, NEW t,
           \E i \in DOMAIN writes : writes[i].store = s /\ writes[i].of = t
    PROVE  \E i \in DOMAIN writes : /\ writes[i].store = s /\ writes[i].of = t
                                    /\ Row(was, writes, s, t) = writes[i].to
<1>1. To(writes, s, t) # {} /\ To(writes, s, t) \subseteq 1 .. Len(writes)
    BY DEF To
<1>2. Max(To(writes, s, t)) \in To(writes, s, t)
    BY <1>1, LastPlace
<1> QED
    BY <1>1, <1>2 DEF Row, To

-----------------------------------------------------------------------------
(* What a backend holds after some writes. *)

Backends == [Threads -> Chats]

\* The same of all rows of a backend.
LEMMA AppliedType ==
    ASSUME NEW b \in Backends, NEW writes \in Seq(Writes)
    PROVE  Applied(b, writes) \in Backends
BY RowType DEF Applied, Backends, Chats

LEMMA AppliedNone ==
    ASSUME NEW b \in Backends
    PROVE  Applied(b, <<>>) = b
BY RowEmpty DEF Applied, Backends, Chats

\* Some writes and then others: what the journal grows by, and what its replay does.
LEMMA AppliedConcat ==
    ASSUME NEW b \in Backends, NEW v \in Seq(Writes), NEW w \in Seq(Writes)
    PROVE  Applied(b, v \o w) = Applied(Applied(b, v), w)
<1> SUFFICES ASSUME NEW t \in Threads
             PROVE  Applied(b, v \o w)[t] = Applied(Applied(b, v), w)[t]
    BY DEF Applied
<1> QED
    BY RowConcat DEF Applied

\* Where two backends agree they agree after the same writes.
LEMMA AppliedAgrees ==
    ASSUME NEW b, NEW c, NEW writes, NEW t \in Threads, b[t] = c[t]
    PROVE  Applied(b, writes)[t] = Applied(c, writes)[t]
BY DEF Applied

\* A thread no write is of stays as it was.
LEMMA AppliedUntouched ==
    ASSUME NEW b \in Backends, NEW writes \in Seq(Writes), NEW t \in Threads,
           \A i \in DOMAIN writes : writes[i].of # t
    PROVE  Applied(b, writes)[t] = b[t]
BY RowUntouched DEF Applied, Backends, Chats

\* What the writes of the calls do.
LEMMA AppliedThread ==
    ASSUME NEW b \in Backends, NEW t \in Threads, NEW x \in BOOLEAN
    PROVE  Applied(b, <<Thread(t, x)>>) = [b EXCEPT ![t].thread = x]
<1> SUFFICES ASSUME NEW u \in Threads
             PROVE  Applied(b, <<Thread(t, x)>>)[u] = [b EXCEPT ![t].thread = x][u]
    BY DEF Applied, Backends
<1>1. b[u] \in Chats
    BY DEF Backends
<1> QED
    BY <1>1, RowOne DEF Applied, Backends, Chats, Thread

LEMMA AppliedReply ==
    ASSUME NEW b \in Backends, NEW t \in Threads, NEW x \in Statuses
    PROVE  Applied(b, <<Reply(t, x)>>) = [b EXCEPT ![t].reply = x]
<1> SUFFICES ASSUME NEW u \in Threads
             PROVE  Applied(b, <<Reply(t, x)>>)[u] = [b EXCEPT ![t].reply = x][u]
    BY DEF Applied, Backends
<1>1. b[u] \in Chats
    BY DEF Backends
<1> QED
    BY <1>1, RowOne DEF Applied, Backends, Chats, Reply

\* A set in some order.
LEMMA InSomeOrder ==
    ASSUME NEW S, IsFiniteSet(S)
    PROVE  /\ SetToSeq(S) \in Seq(S)
           /\ \A x \in S : \E i \in DOMAIN SetToSeq(S) : SetToSeq(S)[i] = x
<1> DEFINE n == Cardinality(S)
           f == SetToSeq(S)
<1>1. n \in Nat /\ ExistsBijection(1 .. n, S)
    BY FS_CardinalityType
<1>2. PICK g : g \in Bijection(1 .. n, S)
    BY <1>1 DEF ExistsBijection
<1>3. f \in [1 .. n -> S] /\ IsInjective(f)
    BY <1>2 DEF SetToSeq, Bijection, Injection
<1>4. f \in Injection(1 .. n, S)
    BY <1>3 DEF Injection
<1>5. IsFiniteSet(1 .. n) /\ Cardinality(1 .. n) = n
    BY <1>1, FS_Interval
<1>6. f \in Surjection(1 .. n, S)
    BY <1>4, <1>5, FS_Injection
<1> QED
    BY <1>1, <1>3, <1>6 DEF Surjection

\* The recovery of a backend.
LEMMA AppliedInterrupted ==
    ASSUME NEW b \in Backends
    PROVE  /\ Interrupted(b) \in Seq(Writes)
           /\ Applied(b, Interrupted(b)) =
                [t \in Threads |-> IF b[t].reply = "streaming"
                                   THEN [b[t] EXCEPT !.reply = "interrupted"] ELSE b[t]]
           /\ \A i \in DOMAIN Interrupted(b) : b[Interrupted(b)[i].of].reply = "streaming"
<1> DEFINE T == {u \in Threads : b[u].reply = "streaming"}
           S == {Reply(t, "interrupted") : t \in T}
           w == Interrupted(b)
<1>1. IsFiniteSet(S)
    <2> DEFINE f == [t \in T |-> Reply(t, "interrupted")]
    <2>1. f \in Surjection(T, S)
        BY DEF Surjection
    <2>2. IsFiniteSet(T)
        BY FS_Subset
    <2> QED
        BY <2>1, <2>2, FS_Surjection
<1>2. w \in Seq(S) /\ \A x \in S : \E i \in DOMAIN w : w[i] = x
    BY <1>1, InSomeOrder DEF Interrupted
<1>3. S \subseteq Writes
    BY DEF Reply, Writes, Statuses
<1>4. w \in Seq(Writes)
    BY <1>2, <1>3
<1>5. \A i \in DOMAIN w : \E t \in T : w[i] = [store |-> "reply", of |-> t, to |-> "interrupted"]
    BY <1>2 DEF Reply
<1>6. ASSUME NEW t \in Threads
      PROVE  Applied(b, w)[t] = IF b[t].reply = "streaming"
                                THEN [b[t] EXCEPT !.reply = "interrupted"] ELSE b[t]
    <2>1. b[t] \in Chats
        BY DEF Backends
    <2>2. Row(b[t].thread, w, "thread", t) = b[t].thread
        BY <1>4, <1>5, RowUntouched
    <2>3. CASE t \in T
        <3>1. \E i \in DOMAIN w : w[i] = Reply(t, "interrupted")
            BY <1>2, <2>3
        <3>2. Row(b[t].reply, w, "reply", t) = "interrupted"
            <4>1. \E i \in DOMAIN w : w[i].store = "reply" /\ w[i].of = t
                BY <3>1 DEF Reply
            <4>2. \A i \in DOMAIN w : w[i].to = "interrupted"
                BY <1>5
            <4> HIDE DEF w
            <4> QED
                BY <1>4, <4>1, <4>2, RowWritten
        <3>3. [b[t] EXCEPT !.reply = "interrupted"]
                = [thread |-> b[t].thread, reply |-> "interrupted"]
            BY <2>1 DEF Chats
        <3>4. Applied(b, w)[t] = [thread |-> b[t].thread, reply |-> "interrupted"]
            BY <2>2, <3>2 DEF Applied
        <3>5. b[t].reply = "streaming"
            BY <2>3
        <3> QED
            BY <3>3, <3>4, <3>5
    <2>4. CASE t \notin T
        <3>1. Row(b[t].reply, w, "reply", t) = b[t].reply
            BY <1>4, <1>5, <2>4, RowUntouched
        <3> QED
            BY <2>1, <2>2, <2>4, <3>1 DEF Applied, Chats
    <2> QED
        BY <2>3, <2>4
<1>7. Applied(b, w) = [t \in Threads |-> IF b[t].reply = "streaming"
                                         THEN [b[t] EXCEPT !.reply = "interrupted"] ELSE b[t]]
    <2> HIDE DEF w
    <2> QED
        BY <1>6 DEF Applied
<1>8. \A i \in DOMAIN w : b[w[i].of].reply = "streaming"
    BY <1>5
<1> QED
    BY <1>4, <1>7, <1>8

-----------------------------------------------------------------------------
(* The invariant, in parts. *)

\* The reply has been begun, and is not finished.
Afoot == {"building", "streaming", "ending", "finishing"}

Called(n, t) == \E i \in DOMAIN chain : chain[i].name = n /\ chain[i].on = t

\* What the writes of a thread go to, and what is read of it.
View(t) == IF t \in ephemeralIds THEN eph[t] ELSE Persist[t]

Shape ==
    /\ TypeOK
    /\ gen.pc = "off" => gen = NoGen
    /\ gen.pc # "off" => gen.on \in Threads
    /\ deletion.pc = "off" => deletion = NoDeletion
    /\ deletion.pc # "off" => deletion.on \in Threads
    /\ \A i \in DOMAIN chain : chain[i].name \notin {"recover", "attach"}
           => chain[i].on \in Threads

\* The database attaches once, and late only when the store was ready before.
Opening ==
    /\ attached => mode = "idb"
    /\ mode = "pending" => ~ready
    /\ open = "opening" => ~attached /\ mode \in {"pending", "memory"}
    /\ \A i \in DOMAIN chain : chain[i].name = "attach" =>
          /\ open = "open" /\ ~attached /\ mode \in {"pending", "memory"}
          /\ ready => chain[i].late
          /\ \A j \in DOMAIN chain : chain[j].name = "attach" => i = j

\* A thread this session has to do with while the database is not attached.
Touched(t) ==
    \/ mem[t] # Blank \/ status[t] # None \/ t \in dead \/ deletion.on = t
    \/ \E i \in DOMAIN chain : chain[i].on = t /\ chain[i].name # "update"
    \/ \E i \in DOMAIN journal : journal[i].of = t

\* Temporary chats are in their own memory only, and the journal is about threads the
\* database knows nothing of.
Apart ==
    /\ ephemeralIds \subseteq temporary
    /\ \A t \in Threads \ ephemeralIds : eph[t] = Blank
    /\ \A t \in temporary : mem[t] = Blank /\ idb[t] = Blank
    /\ ~attached => \A t \in Threads : Touched(t) => idb[t] = Blank

\* A thread not created yet is nowhere.
Unused ==
    \A t \in Threads \ used :
        /\ mem[t] = Blank /\ idb[t] = Blank
        /\ status[t] = None /\ gen.on # t /\ deletion.on # t /\ t \notin dead
        /\ \A i \in DOMAIN chain : chain[i].on # t

\* One whose creation is on the chain is not shown, and nothing else happens to it.
Creating ==
    \A i \in DOMAIN chain, t \in Threads : chain[i].name = "create" /\ chain[i].on = t =>
        /\ chain[i].ephemeral = (t \in ephemeralIds) /\ (t \in temporary => t \in ephemeralIds)
        /\ View(t) = Blank /\ t \notin dead /\ deletion.on # t /\ ~Called("delete", t)
        /\ gen.on = t => gen.pc = "get"
        /\ \A j \in DOMAIN chain : chain[j].name = "create" /\ chain[j].on = t => i = j

\* A reply that is afoot has its thread, and no deletion is on its way.
Living ==
    /\ gen.pc \in Afoot =>
          /\ View(gen.on).thread /\ gen.on \notin dead /\ ~Called("delete", gen.on)
          /\ status[gen.on] # None
          /\ deletion.on = gen.on => deletion.pc = "waits"
    /\ gen.pc = "get" =>
          /\ status[gen.on] = None
          /\ \A i \in DOMAIN chain :
                chain[i].name = "delete" /\ chain[i].on = gen.on => i <= gen.ahead
    /\ gen.pc \in {"ending", "finishing"} => status[gen.on] = "done"

\* Who is deleted: nothing of it is left.
Dying ==
    /\ deletion.pc = "waits" => status[deletion.on] # None
    /\ deletion.pc = "called" => Called("delete", deletion.on)
    /\ \A t \in dead : t \notin ephemeralIds /\ ~View(t).thread

\* The writes of a reply are of the one afoot, the last of them its finalize.
Writing ==
    /\ pending \subseteq {gen.on} /\ (pending # {} => gen.pc \in {"streaming", "ending"})
    /\ \A i \in DOMAIN chain : chain[i].name \in {"append", "put"} =>
          /\ gen.pc \in Afoot /\ chain[i].on = gen.on
          /\ gen.pc = "finishing" => i <= gen.ahead
          /\ chain[i].name = "append" => chain[i].ephemeral = (gen.on \in ephemeralIds)
    /\ gen.pc = "finishing" /\ gen.ahead > 0 =>
          /\ gen.ahead \in DOMAIN chain
          /\ chain[gen.ahead].name = "put" /\ chain[gen.ahead].to = "done"

\* A finalized reply streams no more.
Settled ==
    gen.pc = "finishing" /\ gen.ahead = 0 => View(gen.on).reply # "streaming"

Inv == /\ Shape /\ Opening /\ JournalIsMemory /\ Apart /\ Unused /\ Creating /\ Living /\ Dying
       /\ Writing /\ NoOrphan /\ NoGhostReply /\ Settled

-----------------------------------------------------------------------------
(* The chain and the views. *)

\* What is shown of a thread is what its writes go to.
LEMMA ShownIsView ==
    ASSUME Shape, Apart, NEW t \in Threads
    PROVE  Shown(t) = View(t) /\ View(t) \in Chats
<1> USE DEF Shape, TypeOK, Apart, Persist
<1>1. eph[t] \in Chats /\ mem[t] \in Chats /\ idb[t] \in Chats
    OBVIOUS
<1>2. t \in ephemeralIds => Persist[t] = Blank
    OBVIOUS
<1>3. Shown(t) = View(t)
    BY <1>2 DEF Shown, View
<1> QED
    BY <1>1, <1>3 DEF View

LEMMA BlankIs == Blank \in Chats /\ ~Blank.thread /\ Blank.reply = None
BY DEF Blank, Chats, Statuses

LEMMA ChatWith ==
    ASSUME NEW x \in Chats, NEW y
    PROVE  /\ [x EXCEPT !.thread = y] = [thread |-> y, reply |-> x.reply]
           /\ [x EXCEPT !.reply = y] = [thread |-> x.thread, reply |-> y]
BY DEF Chats

\* A call goes to the end of the chain ...
Longer(c) ==
    /\ chain' \in Seq(Calls)
    /\ Len(chain) \in Nat /\ DOMAIN chain = 1 .. Len(chain)
    /\ DOMAIN chain' = 1 .. (Len(chain) + 1)
    /\ \A i \in DOMAIN chain : i \in DOMAIN chain' /\ chain'[i] = chain[i]
    /\ chain'[Len(chain) + 1] = c
    /\ \A i \in DOMAIN chain' : i \in DOMAIN chain \/ i = Len(chain) + 1

LEMMA Appended ==
    ASSUME chain \in Seq(Calls), NEW c \in Calls, chain' = Append(chain, c)
    PROVE  Longer(c)
BY DEF Longer

\* ... and is taken from its head.
Shorter ==
    /\ chain' \in Seq(Calls)
    /\ Len(chain) \in Nat /\ DOMAIN chain = 1 .. Len(chain) /\ 1 \in DOMAIN chain
    /\ DOMAIN chain' = 1 .. (Len(chain) - 1)
    /\ Head(chain) = chain[1] /\ Head(chain) \in Calls
    /\ \A i \in DOMAIN chain' : i + 1 \in DOMAIN chain /\ chain'[i] = chain[i + 1]
    /\ \A i \in DOMAIN chain : i = 1 \/ (i - 1 \in DOMAIN chain' /\ chain'[i - 1] = chain[i])

LEMMA Shifted ==
    ASSUME chain \in Seq(Calls), chain # <<>>, chain' = Tail(chain)
    PROVE  Shorter
BY DEF Shorter

LEMMA CalledLonger ==
    ASSUME NEW c, Longer(c), NEW n, NEW t
    PROVE  Called(n, t)' <=> Called(n, t) \/ (c.name = n /\ c.on = t)
BY DEF Longer, Called

LEMMA CalledShorter ==
    ASSUME Shorter, NEW n, NEW t
    PROVE  /\ Called(n, t)' => Called(n, t)
           /\ Called(n, t) => Called(n, t)' \/ (Head(chain).name = n /\ Head(chain).on = t)
BY DEF Shorter, Called

\* A call is one.
LEMMA CallIs ==
    ASSUME NEW t \in Threads \cup {None},
           NEW n \in {"create", "append", "update", "put", "delete", "recover", "attach"}
    PROVE  /\ Call(n, t) \in Calls /\ Call(n, t).name = n /\ Call(n, t).on = t
           /\ Call(n, t).ephemeral = (t \in ephemeralIds)
BY DEF Call, Calls, Statuses

-----------------------------------------------------------------------------
(* Each step keeps the invariant. *)

\* The database does not open, opens, or takes its time: what waits and what is shown stay.
LEMMA OpenFailsKeeps == ASSUME ~DeleteUnseen, Inv, OpenFails PROVE Inv'
<1> USE DEF Inv
<1>4. \A u \in Threads : View(u)' = View(u) /\ Shown(u)' = Shown(u)
    BY DEF OpenFails, Resolve, View, Shown, Persist
<1>5. \A m, u : Called(m, u)' <=> Called(m, u)
    BY DEF OpenFails, Resolve, Called
<1>6. Shape'
    BY DEF OpenFails, Resolve, Shape, TypeOK, NoGen, NoDeletion, Statuses
<1>7. Opening'
    BY DEF OpenFails, Resolve, Opening
<1>8. JournalIsMemory'
    BY DEF OpenFails, Resolve, JournalIsMemory, Journaling
<1>9. Apart'
    BY DEF OpenFails, Resolve, Apart, Touched, Shape, TypeOK
<1>10. Unused'
    BY DEF OpenFails, Resolve, Unused, Shape, TypeOK, NoGen, NoDeletion
<1>11. Creating'
    BY <1>4, <1>5 DEF OpenFails, Resolve, Creating, Shape, TypeOK, NoGen, NoDeletion
<1>12. Living'
    BY <1>4, <1>5 DEF OpenFails, Resolve, Living, Afoot, Shape, TypeOK, NoGen, NoDeletion
<1>13. Dying'
    BY <1>4, <1>5 DEF OpenFails, Resolve, Dying, Shape, TypeOK, NoGen, NoDeletion
<1>14. Writing'
    BY DEF OpenFails, Resolve, Writing, Afoot, Shape, TypeOK, NoGen, NoDeletion
<1>15. NoOrphan'
    BY DEF OpenFails, Resolve, NoOrphan
<1>16. NoGhostReply'
    BY <1>4 DEF OpenFails, Resolve, NoGhostReply, Recovered, Shape, TypeOK, NoGen
<1>17. Settled'
    BY <1>4 DEF OpenFails, Resolve, Settled, Shape, TypeOK, NoGen
<1> QED
    BY <1>6, <1>7, <1>8, <1>9, <1>10, <1>11, <1>12, <1>13, <1>14, <1>15, <1>16, <1>17

LEMMA OpenSucceedsKeeps == ASSUME ~DeleteUnseen, Inv, OpenSucceeds PROVE Inv'
<1> USE DEF Inv
<1> DEFINE c == [Call("attach", None) EXCEPT !.late = mode = "memory"]
<1>1. c \in Calls /\ c.name = "attach" /\ c.on = None /\ c.late = (mode = "memory")
    <2> DEFINE d == Call("attach", None)
    <2>1. d \in Calls /\ d.name = "attach" /\ d.on = None
        BY CallIs
    <2>2. (mode = "memory") \in BOOLEAN
        OBVIOUS
    <2> HIDE DEF d
    <2>3. [d EXCEPT !.late = mode = "memory"] \in Calls
        BY <2>1, <2>2 DEF Calls
    <2>4. /\ [d EXCEPT !.late = mode = "memory"].name = d.name
          /\ [d EXCEPT !.late = mode = "memory"].on = d.on
          /\ [d EXCEPT !.late = mode = "memory"].late = (mode = "memory")
        BY <2>1 DEF Calls
    <2>5. c = [d EXCEPT !.late = mode = "memory"]
        BY DEF d
    <2> HIDE DEF c
    <2> QED
        BY <2>1, <2>3, <2>4, <2>5
<1>2. /\ chain' = Append(chain, c) /\ open = "opening" /\ open' = "open"
      /\ UNCHANGED <<mode, attached, mem, eph, idb, journal, ephemeralIds, ready, recovery,
                     gen, status, dead, deletion, used, temporary, session, pending>>
    BY DEF OpenSucceeds, window, store
<1> HIDE DEF c
<1>3. Longer(c)
    BY <1>1, <1>2, Appended DEF Shape, TypeOK
<1>4. \A u \in Threads : View(u)' = View(u) /\ Shown(u)' = Shown(u)
    BY <1>2 DEF View, Shown, Persist
<1>5. \A n, u : Called(n, u)' <=> Called(n, u) \/ (c.name = n /\ c.on = u)
    BY <1>3, CalledLonger
<1>6. Shape'
    <2>1. TypeOK'
        BY <1>2, <1>3 DEF Shape, TypeOK, Longer
    <2>2. \A i \in DOMAIN chain' : chain'[i].name \notin {"recover", "attach"}
              => chain'[i].on \in Threads
        BY <1>1, <1>3 DEF Shape, Longer
    <2> QED
        BY <1>2, <2>1, <2>2 DEF Shape, NoGen, NoDeletion
<1>7. Opening'
    <2>1. ~attached /\ mode \in {"pending", "memory"} /\ (ready => mode = "memory")
        BY <1>2 DEF Opening
    <2>2. \A i \in DOMAIN chain : chain[i].name # "attach"
        BY <1>2 DEF Opening
    <2>3. \A i \in DOMAIN chain' : chain'[i].name = "attach" => i = Len(chain) + 1 /\ chain'[i] = c
        BY <1>3, <2>2 DEF Longer
    <2>4. \A i \in DOMAIN chain' : chain'[i].name = "attach" =>
             /\ ready => chain'[i].late
             /\ \A j \in DOMAIN chain' : chain'[j].name = "attach" => i = j
        BY <1>1, <2>1, <2>3
    <2> QED
        BY <1>2, <2>1, <2>4 DEF Opening
<1>8. JournalIsMemory'
    BY <1>2 DEF JournalIsMemory, Journaling
<1>9. Apart'
    BY <1>1, <1>2, <1>3 DEF Apart, Touched, Shape, TypeOK, Longer
<1>10. Unused'
    BY <1>1, <1>2, <1>3 DEF Unused, Shape, TypeOK, NoGen, NoDeletion, Longer
<1>11. Creating'
    BY <1>1, <1>2, <1>3, <1>4, <1>5 DEF Creating, Shape, TypeOK, NoGen, NoDeletion, Longer
<1>12. Living'
    BY <1>1, <1>2, <1>3, <1>4, <1>5 DEF Living, Afoot, Shape, TypeOK, NoGen, NoDeletion, Longer
<1>13. Dying'
    BY <1>1, <1>2, <1>4, <1>5 DEF Dying, Shape, TypeOK, NoGen, NoDeletion
<1>14. Writing'
    BY <1>1, <1>2, <1>3 DEF Writing, Afoot, Shape, TypeOK, NoGen, NoDeletion, Longer
<1>15. NoOrphan'
    BY <1>2 DEF NoOrphan
<1>16. NoGhostReply'
    BY <1>1, <1>2, <1>3, <1>4 DEF NoGhostReply, Recovered, Shape, TypeOK, NoGen, Longer
<1>17. Settled'
    BY <1>2, <1>4 DEF Settled, Shape, TypeOK, NoGen
<1> QED
    BY <1>6, <1>7, <1>8, <1>9, <1>10, <1>11, <1>12, <1>13, <1>14, <1>15, <1>16, <1>17

LEMMA TimeoutKeeps == ASSUME ~DeleteUnseen, Inv, Timeout PROVE Inv'
<1> USE DEF Inv
<1>4. \A u \in Threads : View(u)' = View(u) /\ Shown(u)' = Shown(u)
    BY DEF Timeout, Resolve, View, Shown, Persist
<1>5. \A m, u : Called(m, u)' <=> Called(m, u)
    BY DEF Timeout, Resolve, Called
<1>6. Shape'
    BY DEF Timeout, Resolve, Shape, TypeOK, NoGen, NoDeletion, Statuses
<1>7. Opening'
    BY DEF Timeout, Resolve, Opening
<1>8. JournalIsMemory'
    BY DEF Timeout, Resolve, JournalIsMemory, Journaling
<1>9. Apart'
    BY DEF Timeout, Resolve, Apart, Touched, Shape, TypeOK
<1>10. Unused'
    BY DEF Timeout, Resolve, Unused, Shape, TypeOK, NoGen, NoDeletion
<1>11. Creating'
    BY <1>4, <1>5 DEF Timeout, Resolve, Creating, Shape, TypeOK, NoGen, NoDeletion
<1>12. Living'
    BY <1>4, <1>5 DEF Timeout, Resolve, Living, Afoot, Shape, TypeOK, NoGen, NoDeletion
<1>13. Dying'
    BY <1>4, <1>5 DEF Timeout, Resolve, Dying, Shape, TypeOK, NoGen, NoDeletion
<1>14. Writing'
    BY DEF Timeout, Resolve, Writing, Afoot, Shape, TypeOK, NoGen, NoDeletion
<1>15. NoOrphan'
    BY DEF Timeout, Resolve, NoOrphan
<1>16. NoGhostReply'
    BY <1>4 DEF Timeout, Resolve, NoGhostReply, Recovered, Shape, TypeOK, NoGen
<1>17. Settled'
    BY <1>4 DEF Timeout, Resolve, Settled, Shape, TypeOK, NoGen
<1> QED
    BY <1>6, <1>7, <1>8, <1>9, <1>10, <1>11, <1>12, <1>13, <1>14, <1>15, <1>16, <1>17

\* The recovery is called; until its turn nobody is told that replies are recovered.
LEMMA RecoverKeeps == ASSUME ~DeleteUnseen, Inv, Recover PROVE Inv'
<1> USE DEF Inv
<1> DEFINE c == Call("recover", None)
<1>1. c \in Calls /\ c.name = "recover" /\ c.on = None
    BY CallIs DEF Call, Calls, Shape, TypeOK, Statuses
<1>2. /\ chain' = Append(chain, c) /\ recovery' = FALSE
      /\ UNCHANGED <<mode, open, attached, mem, eph, idb, journal, ephemeralIds, ready, gen,
                     status, dead, deletion, used, temporary, session, pending>>
    BY DEF Recover, store
<1> HIDE DEF c
<1>3. Longer(c)
    BY <1>1, <1>2, Appended DEF Shape, TypeOK
<1>4. \A u \in Threads : View(u)' = View(u) /\ Shown(u)' = Shown(u)
    BY <1>2 DEF View, Shown, Persist
<1>5. \A n, u : Called(n, u)' <=> Called(n, u) \/ (c.name = n /\ c.on = u)
    BY <1>3, CalledLonger
<1>6. Shape'
    <2>0. recovery' \in BOOLEAN /\ chain' \in Seq(Calls)
        BY <1>2, <1>3 DEF Longer
    <2>1. TypeOK'
        BY <1>2, <2>0 DEF Shape, TypeOK
    <2>2. \A i \in DOMAIN chain' : chain'[i].name \notin {"recover", "attach"}
              => chain'[i].on \in Threads
        BY <1>1, <1>3 DEF Shape, Longer
    <2> QED
        BY <1>2, <2>1, <2>2 DEF Shape, NoGen, NoDeletion
<1>7. Opening'
    BY <1>1, <1>2, <1>3 DEF Opening, Longer
<1>8. JournalIsMemory'
    BY <1>2 DEF JournalIsMemory, Journaling
<1>9. Apart'
    BY <1>1, <1>2, <1>3 DEF Apart, Touched, Shape, TypeOK, Longer
<1>10. Unused'
    BY <1>1, <1>2, <1>3 DEF Unused, Shape, TypeOK, NoGen, NoDeletion, Longer
<1>11. Creating'
    BY <1>1, <1>2, <1>3, <1>4, <1>5 DEF Creating, Shape, TypeOK, NoGen, NoDeletion, Longer
<1>12. Living'
    BY <1>1, <1>2, <1>3, <1>4, <1>5 DEF Living, Afoot, Shape, TypeOK, NoGen, NoDeletion, Longer
<1>13. Dying'
    BY <1>1, <1>2, <1>4, <1>5 DEF Dying, Shape, TypeOK, NoGen, NoDeletion
<1>14. Writing'
    BY <1>1, <1>2, <1>3 DEF Writing, Afoot, Shape, TypeOK, NoGen, NoDeletion, Longer
<1>15. NoOrphan'
    BY <1>2 DEF NoOrphan
<1>16. NoGhostReply'
    <2>1. Len(chain) + 1 \in DOMAIN chain' /\ chain'[Len(chain) + 1].name = "recover"
        BY <1>1, <1>3 DEF Longer
    <2> QED
        BY <2>1 DEF NoGhostReply, Recovered
<1>17. Settled'
    BY <1>2, <1>4 DEF Settled, Shape, TypeOK, NoGen
<1> QED
    BY <1>6, <1>7, <1>8, <1>9, <1>10, <1>11, <1>12, <1>13, <1>14, <1>15, <1>16, <1>17

\* The reader's and the stream's calls wait at the end of the chain.
LEMMA UpdateThreadKeeps ==
    ASSUME ~DeleteUnseen, Inv, NEW t \in Threads, UpdateThread(t)
    PROVE  Inv'
<1> USE DEF Inv
<1> DEFINE c == Call("update", t)
<1>1. c \in Calls /\ c.name = "update" /\ c.on = t
    BY CallIs DEF Call, Calls, Shape, TypeOK, Statuses
<1>2. /\ chain' = Append(chain, c) /\ Shown(t).thread
      /\ UNCHANGED <<mode, open, attached, mem, eph, idb, journal, ephemeralIds, ready,
                     recovery, gen, status, dead, deletion, used, temporary, session, pending>>
    BY DEF UpdateThread, store, window
<1> HIDE DEF c
<1>3. Longer(c)
    BY <1>1, <1>2, Appended DEF Shape, TypeOK
<1>4. \A u \in Threads : View(u)' = View(u) /\ Shown(u)' = Shown(u)
    BY <1>2 DEF View, Shown, Persist
<1>5. \A n, u : Called(n, u)' <=> Called(n, u) \/ (c.name = n /\ c.on = u)
    BY <1>3, CalledLonger
<1>6. View(t).thread /\ View(t) # Blank
    BY <1>2, ShownIsView, BlankIs
<1>7. Shape'
    <2>1. TypeOK'
        BY <1>2, <1>3 DEF Shape, TypeOK, Longer
    <2>2. \A i \in DOMAIN chain' : chain'[i].name \notin {"recover", "attach"}
              => chain'[i].on \in Threads
        BY <1>1, <1>3 DEF Shape, Longer
    <2> QED
        BY <1>2, <2>1, <2>2 DEF Shape, NoGen, NoDeletion
<1>8. Opening'
    BY <1>1, <1>2, <1>3 DEF Opening, Longer
<1>9. JournalIsMemory'
    BY <1>2 DEF JournalIsMemory, Journaling
<1>10. Apart'
    BY <1>1, <1>2, <1>3 DEF Apart, Touched, Shape, TypeOK, Longer
<1>11. Unused'
    <2>1. t \in used
        BY <1>6 DEF Unused, View, Persist, Apart, Shape, TypeOK
    <2> QED
        BY <1>1, <1>2, <1>3, <2>1 DEF Unused, Longer
<1>12. Creating'
    BY <1>1, <1>2, <1>3, <1>4, <1>5, <1>6 DEF Creating, Shape, TypeOK, NoGen, NoDeletion, Longer
<1>13. Living'
    BY <1>1, <1>2, <1>3, <1>4, <1>5 DEF Living, Afoot, Shape, TypeOK, NoGen, NoDeletion, Longer
<1>14. Dying'
    BY <1>1, <1>2, <1>4, <1>5 DEF Dying, Shape, TypeOK, NoGen, NoDeletion
<1>15. Writing'
    BY <1>1, <1>2, <1>3 DEF Writing, Afoot, Shape, TypeOK, NoGen, NoDeletion, Longer
<1>16. NoOrphan'
    BY <1>2 DEF NoOrphan
<1>17. NoGhostReply'
    BY <1>1, <1>2, <1>3, <1>4 DEF NoGhostReply, Recovered, Shape, TypeOK, NoGen, Longer
<1>18. Settled'
    BY <1>2, <1>4 DEF Settled, Shape, TypeOK, NoGen
<1> QED
    BY <1>7, <1>8, <1>9, <1>10, <1>11, <1>12, <1>13, <1>14, <1>15, <1>16, <1>17, <1>18

LEMMA AskGenerateKeeps == ASSUME ~DeleteUnseen, Inv, NEW t \in Threads, AskGenerate(t) PROVE Inv'
<1> USE DEF Inv
<1>4. \A u \in Threads : View(u)' = View(u) /\ Shown(u)' = Shown(u)
    BY DEF AskGenerate, store, View, Shown, Persist
<1>5. \A m, u : Called(m, u)' <=> Called(m, u)
    BY DEF AskGenerate, store, Called
<1>6. Shape'
    BY DEF AskGenerate, store, Shape, TypeOK, NoGen, NoDeletion, Statuses
<1>7. Opening'
    BY DEF AskGenerate, store, Opening
<1>8. JournalIsMemory'
    BY DEF AskGenerate, store, JournalIsMemory, Journaling
<1>9. Apart'
    BY DEF AskGenerate, store, Apart, Touched, Shape, TypeOK
<1>10. Unused'
    BY DEF AskGenerate, store, Unused, Shape, TypeOK, NoGen, NoDeletion
<1>11. Creating'
    BY <1>4, <1>5 DEF AskGenerate, store, Creating, Shape, TypeOK, NoGen, NoDeletion
<1>12. Living'
    BY <1>4, <1>5 DEF AskGenerate, store, Living, Afoot, Shape, TypeOK, NoGen, NoDeletion
<1>13. Dying'
    BY <1>4, <1>5 DEF AskGenerate, store, Dying, Shape, TypeOK, NoGen, NoDeletion
<1>14. Writing'
    BY DEF AskGenerate, store, Writing, Afoot, Shape, TypeOK, NoGen, NoDeletion
<1>15. NoOrphan'
    BY DEF AskGenerate, store, NoOrphan
<1>16. NoGhostReply'
    BY <1>4 DEF AskGenerate, store, NoGhostReply, Recovered, Shape, TypeOK, NoGen
<1>17. Settled'
    BY <1>4 DEF AskGenerate, store, Settled, Shape, TypeOK, NoGen
<1> QED
    BY <1>6, <1>7, <1>8, <1>9, <1>10, <1>11, <1>12, <1>13, <1>14, <1>15, <1>16, <1>17

LEMMA StartGenerationKeeps == ASSUME ~DeleteUnseen, Inv, StartGeneration PROVE Inv'
<1> USE DEF Inv
<1>4. \A u \in Threads : View(u)' = View(u) /\ Shown(u)' = Shown(u)
    BY DEF StartGeneration, store, View, Shown, Persist
<1>5. \A m, u : Called(m, u)' <=> Called(m, u)
    BY DEF StartGeneration, store, Called
<1>6. Shape'
    BY DEF StartGeneration, store, Shape, TypeOK, NoGen, NoDeletion, Statuses
<1>7. Opening'
    BY DEF StartGeneration, store, Opening
<1>8. JournalIsMemory'
    BY DEF StartGeneration, store, JournalIsMemory, Journaling
<1>9. Apart'
    BY DEF StartGeneration, store, Apart, Touched, Shape, TypeOK
<1>10. Unused'
    BY DEF StartGeneration, store, Unused, Shape, TypeOK, NoGen, NoDeletion
<1>11. Creating'
    BY <1>4, <1>5 DEF StartGeneration, store, Creating, Shape, TypeOK, NoGen, NoDeletion
<1>12. Living'
    BY <1>4, <1>5 DEF StartGeneration, store, Living, Afoot, Shape, TypeOK, NoGen, NoDeletion
<1>13. Dying'
    BY <1>4, <1>5 DEF StartGeneration, store, Dying, Shape, TypeOK, NoGen, NoDeletion
<1>14. Writing'
    BY DEF StartGeneration, store, Writing, Afoot, Shape, TypeOK, NoGen, NoDeletion
<1>15. NoOrphan'
    BY DEF StartGeneration, store, NoOrphan
<1>16. NoGhostReply'
    BY <1>4 DEF StartGeneration, store, NoGhostReply, Recovered, Shape, TypeOK, NoGen
<1>17. Settled'
    BY <1>4 DEF StartGeneration, store, Settled, Shape, TypeOK, NoGen
<1> QED
    BY <1>6, <1>7, <1>8, <1>9, <1>10, <1>11, <1>12, <1>13, <1>14, <1>15, <1>16, <1>17

LEMMA CheckpointKeeps == ASSUME ~DeleteUnseen, Inv, Checkpoint PROVE Inv'
<1> USE DEF Inv
<1>4. \A u \in Threads : View(u)' = View(u) /\ Shown(u)' = Shown(u)
    BY DEF Checkpoint, store, window, View, Shown, Persist
<1>5. \A m, u : Called(m, u)' <=> Called(m, u)
    BY DEF Checkpoint, store, window, Called
<1>6. Shape'
    BY DEF Checkpoint, store, window, Shape, TypeOK, NoGen, NoDeletion, Statuses
<1>7. Opening'
    BY DEF Checkpoint, store, window, Opening
<1>8. JournalIsMemory'
    BY DEF Checkpoint, store, window, JournalIsMemory, Journaling
<1>9. Apart'
    BY DEF Checkpoint, store, window, Apart, Touched, Shape, TypeOK
<1>10. Unused'
    BY DEF Checkpoint, store, window, Unused, Shape, TypeOK, NoGen, NoDeletion
<1>11. Creating'
    BY <1>4, <1>5 DEF Checkpoint, store, window, Creating, Shape, TypeOK, NoGen, NoDeletion
<1>12. Living'
    BY <1>4, <1>5 DEF Checkpoint, store, window, Living, Afoot, Shape, TypeOK, NoGen, NoDeletion
<1>13. Dying'
    BY <1>4, <1>5 DEF Checkpoint, store, window, Dying, Shape, TypeOK, NoGen, NoDeletion
<1>14. Writing'
    BY DEF Checkpoint, store, window, Writing, Afoot, Shape, TypeOK, NoGen, NoDeletion
<1>15. NoOrphan'
    BY DEF Checkpoint, store, window, NoOrphan
<1>16. NoGhostReply'
    BY <1>4 DEF Checkpoint, store, window, NoGhostReply, Recovered, Shape, TypeOK, NoGen
<1>17. Settled'
    BY <1>4 DEF Checkpoint, store, window, Settled, Shape, TypeOK, NoGen
<1> QED
    BY <1>6, <1>7, <1>8, <1>9, <1>10, <1>11, <1>12, <1>13, <1>14, <1>15, <1>16, <1>17

LEMMA CheckpointFiresKeeps ==
    ASSUME ~DeleteUnseen, Inv, NEW t \in Threads, CheckpointFires(t)
    PROVE  Inv'
<1> USE DEF Inv
<1> DEFINE c == [Call("put", t) EXCEPT !.to = status[t]]
<1>1. c \in Calls /\ c.name = "put" /\ c.on = t
    <2>1. status[t] \in Statuses
        BY DEF Shape, TypeOK
    <2>2. Call("put", t) \in Calls /\ Call("put", t).name = "put" /\ Call("put", t).on = t
        BY CallIs
    <2> QED
        BY <2>1, <2>2 DEF Calls
<1>0. gen.on = t /\ gen.pc \in {"streaming", "ending"} /\ status[t] # None /\ t \in used
    <2>1. t \in pending
        BY DEF CheckpointFires
    <2> QED
        BY <2>1 DEF Writing, Living, Afoot, Unused
<1>2. /\ chain' = Append(chain, c) /\ t \in pending /\ pending' = pending \ {t}
      /\ UNCHANGED <<mode, open, attached, mem, eph, idb, journal, ephemeralIds, ready,
                     recovery, gen, status, dead, deletion, used, temporary, session>>
    BY DEF CheckpointFires, store, window
<1> HIDE DEF c
<1>3. Longer(c)
    BY <1>1, <1>2, Appended DEF Shape, TypeOK
<1>4. \A u \in Threads : View(u)' = View(u) /\ Shown(u)' = Shown(u)
    BY <1>2 DEF View, Shown, Persist
<1>5. \A n, u : Called(n, u)' <=> Called(n, u) \/ (c.name = n /\ c.on = u)
    BY <1>3, CalledLonger
<1>6. Shape'
    <2>1. TypeOK'
        BY <1>2, <1>3 DEF Shape, TypeOK, Longer
    <2>2. \A i \in DOMAIN chain' : chain'[i].name \notin {"recover", "attach"}
              => chain'[i].on \in Threads
        BY <1>1, <1>3 DEF Shape, Longer
    <2> QED
        BY <1>2, <2>1, <2>2 DEF Shape, NoGen, NoDeletion
<1>7. Opening'
    BY <1>1, <1>2, <1>3 DEF Opening, Longer
<1>8. JournalIsMemory'
    BY <1>2 DEF JournalIsMemory, Journaling
<1>9. Apart'
    <2>1. \A u \in Threads : Touched(u)' => Touched(u)
        BY <1>0, <1>1, <1>2, <1>3 DEF Touched, Longer
    <2> QED
        BY <1>2, <2>1 DEF Apart
<1>10. Unused'
    BY <1>0, <1>1, <1>2, <1>3 DEF Unused, Longer
<1>11. Creating'
    BY <1>1, <1>2, <1>3, <1>4, <1>5 DEF Creating, Shape, TypeOK, NoGen, NoDeletion, Longer
<1>12. Living'
    BY <1>1, <1>2, <1>3, <1>4, <1>5 DEF Living, Afoot, Shape, TypeOK, NoGen, NoDeletion, Longer
<1>13. Dying'
    BY <1>1, <1>2, <1>4, <1>5 DEF Dying, Shape, TypeOK, NoGen, NoDeletion
<1>14. Writing'
    BY <1>1, <1>2, <1>3 DEF Writing, Afoot, Shape, TypeOK, NoGen, NoDeletion, Longer
<1>15. NoOrphan'
    BY <1>2 DEF NoOrphan
<1>16. NoGhostReply'
    BY <1>1, <1>2, <1>3, <1>4 DEF NoGhostReply, Recovered, Shape, TypeOK, NoGen, Longer
<1>17. Settled'
    BY <1>2, <1>4 DEF Settled, Shape, TypeOK, NoGen
<1> QED
    BY <1>6, <1>7, <1>8, <1>9, <1>10, <1>11, <1>12, <1>13, <1>14, <1>15, <1>16, <1>17

LEMMA StreamEndsKeeps == ASSUME ~DeleteUnseen, Inv, StreamEnds PROVE Inv'
<1> USE DEF Inv
<1>1. /\ gen.pc = "streaming" /\ gen.on \in Threads /\ status[gen.on] # None
      /\ gen' = [on |-> gen.on, pc |-> "ending", ahead |-> gen.ahead]
      /\ status' = [status EXCEPT ![gen.on] = "done"] /\ status' \in [Threads -> Statuses]
      /\ UNCHANGED <<mode, open, attached, mem, eph, idb, journal, ephemeralIds, ready,
                     recovery, dead, deletion, used, temporary, session, chain, pending>>
    BY DEF StreamEnds, store, Shape, TypeOK, Living, Afoot, Statuses
<1>4. \A u \in Threads : View(u)' = View(u) /\ Shown(u)' = Shown(u)
    BY DEF StreamEnds, store, View, Shown, Persist
<1>5. \A m, u : Called(m, u)' <=> Called(m, u)
    BY DEF StreamEnds, store, Called
<1>6. Shape'
    <2>1. TypeOK'
        BY <1>1 DEF Shape, TypeOK
    <2> QED
        BY <1>1, <2>1 DEF Shape
<1>7. Opening'
    BY DEF StreamEnds, store, Opening
<1>8. JournalIsMemory'
    BY DEF StreamEnds, store, JournalIsMemory, Journaling
<1>9. Apart'
    <2>1. \A u \in Threads : Touched(u)' => Touched(u)
        BY DEF StreamEnds, store, Touched, Living, Afoot, Shape, TypeOK
    <2> QED
        BY <2>1 DEF StreamEnds, store, Apart
<1>10. Unused'
    BY DEF StreamEnds, store, Unused, Shape, TypeOK, NoGen, NoDeletion
<1>11. Creating'
    BY <1>1, <1>4, <1>5 DEF Creating
<1>12. Living'
    BY <1>4, <1>5 DEF StreamEnds, store, Living, Afoot, Shape, TypeOK, NoGen, NoDeletion
<1>13. Dying'
    BY <1>4, <1>5 DEF StreamEnds, store, Dying, Shape, TypeOK, NoGen, NoDeletion
<1>14. Writing'
    BY DEF StreamEnds, store, Writing, Afoot, Shape, TypeOK, NoGen, NoDeletion
<1>15. NoOrphan'
    BY DEF StreamEnds, store, NoOrphan
<1>16. NoGhostReply'
    BY <1>4 DEF StreamEnds, store, NoGhostReply, Recovered, Shape, TypeOK, NoGen
<1>17. Settled'
    BY <1>4 DEF StreamEnds, store, Settled, Shape, TypeOK, NoGen
<1> QED
    BY <1>6, <1>7, <1>8, <1>9, <1>10, <1>11, <1>12, <1>13, <1>14, <1>15, <1>16, <1>17

LEMMA ReleaseKeeps == ASSUME ~DeleteUnseen, Inv, Release PROVE Inv'
<1> USE DEF Inv
<1>4. \A u \in Threads : View(u)' = View(u) /\ Shown(u)' = Shown(u)
    BY DEF Release, store, View, Shown, Persist
<1>5. \A m, u : Called(m, u)' <=> Called(m, u)
    BY DEF Release, store, Called
<1>6. Shape'
    BY DEF Release, store, Shape, TypeOK, NoGen, NoDeletion, Statuses
<1>7. Opening'
    BY DEF Release, store, Opening
<1>8. JournalIsMemory'
    BY DEF Release, store, JournalIsMemory, Journaling
<1>9. Apart'
    BY DEF Release, store, Apart, Touched, Shape, TypeOK
<1>10. Unused'
    BY DEF Release, store, Unused, Shape, TypeOK, NoGen, NoDeletion
<1>11. Creating'
    BY <1>4, <1>5 DEF Release, store, Creating, Shape, TypeOK, NoGen, NoDeletion
<1>12. Living'
    BY <1>4, <1>5 DEF Release, store, Living, Afoot, Shape, TypeOK, NoGen, NoDeletion
<1>13. Dying'
    BY <1>4, <1>5 DEF Release, store, Dying, Shape, TypeOK, NoGen, NoDeletion
<1>14. Writing'
    BY DEF Release, store, Writing, Afoot, Shape, TypeOK, NoGen, NoDeletion
<1>15. NoOrphan'
    BY DEF Release, store, NoOrphan
<1>16. NoGhostReply'
    <2>1. gen.on \in Threads /\ Shown(gen.on) = View(gen.on)
        BY ShownIsView DEF Release, Shape
    <2>2. Shown(gen.on).reply # "streaming"
        BY <2>1 DEF Release, Settled
    <2>3. Recovered' <=> Recovered
        BY DEF Release, store, Recovered
    <2> QED
        BY <1>4, <2>2, <2>3 DEF NoGhostReply
<1>17. Settled'
    BY <1>4 DEF Release, store, Settled, Shape, TypeOK, NoGen
<1> QED
    BY <1>6, <1>7, <1>8, <1>9, <1>10, <1>11, <1>12, <1>13, <1>14, <1>15, <1>16, <1>17

\* A thread that is shown was created, is not deleted, and is not of the last session's while
\* the database is not attached.
LEMMA OnceShown ==
    ASSUME Inv, NEW t \in Threads, Shown(t).thread
    PROVE  /\ View(t).thread /\ View(t) # Blank /\ View(t) = Shown(t)
           /\ t \in used /\ t \notin dead
           /\ ~attached => idb[t] = Blank
           /\ \A i \in DOMAIN chain : chain[i].name = "create" => chain[i].on # t
<1> USE DEF Inv
<1>1. View(t).thread /\ View(t) # Blank /\ View(t) = Shown(t)
    BY ShownIsView, BlankIs
<1>2. t \in used
    BY <1>1 DEF Unused, View, Persist, Apart, Shape, TypeOK
<1>3. ~attached => idb[t] = Blank
    <2>1. CASE t \in ephemeralIds
        BY <2>1 DEF Apart
    <2>2. CASE t \notin ephemeralIds /\ ~attached
        <3>1. mem[t] # Blank
            BY <1>1, <2>2 DEF View, Persist
        <3> QED
            BY <2>2, <3>1 DEF Apart, Touched
    <2> QED
        BY <2>1, <2>2
<1> QED
    BY <1>1, <1>2, <1>3 DEF Dying, Creating

\* A new thread is nowhere yet, and its creation the only call about it.
LEMMA CreateThreadKeeps ==
    ASSUME Inv, NEW t \in Threads, NEW e \in BOOLEAN, CreateThread(t, e)
    PROVE  Inv'
<1> USE DEF Inv
<1> DEFINE c == [Call("create", t) EXCEPT !.ephemeral = e]
<1>1. c \in Calls /\ c.name = "create" /\ c.on = t /\ c.ephemeral = e
    <2>1. /\ Call("create", t) \in Calls
          /\ Call("create", t).name = "create" /\ Call("create", t).on = t
        BY CallIs
    <2> QED
        BY <2>1 DEF Calls
<1>2. /\ chain' = Append(chain, c) /\ t \notin used /\ used' = used \cup {t}
      /\ ephemeralIds' = IF e THEN ephemeralIds \cup {t} ELSE ephemeralIds
      /\ temporary' = IF e THEN temporary \cup {t} ELSE temporary
      /\ UNCHANGED <<mode, open, attached, mem, eph, idb, journal, ready, pending, recovery, gen,
                     status, dead, deletion, session>>
    BY DEF CreateThread
<1> HIDE DEF c
<1>3. Longer(c)
    BY <1>1, <1>2, Appended DEF Shape, TypeOK
<1>4. /\ mem[t] = Blank /\ idb[t] = Blank /\ eph[t] = Blank /\ status[t] = None /\ gen.on # t
      /\ deletion.on # t /\ t \notin dead /\ \A i \in DOMAIN chain : chain[i].on # t
      /\ t \notin ephemeralIds /\ t \notin temporary
    BY <1>2 DEF Unused, Apart, Shape, TypeOK
<1>5. /\ \A u \in Threads : View(u)' = View(u) /\ Shown(u)' = Shown(u)
      /\ View(t) = Blank
    BY <1>2, <1>4 DEF View, Shown, Persist
<1>6. \A n, u : Called(n, u)' <=> Called(n, u) \/ (c.name = n /\ c.on = u)
    BY <1>3, CalledLonger
<1>7. Shape'
    <2>1. TypeOK'
        BY <1>2, <1>3 DEF Shape, TypeOK, Longer
    <2>2. \A i \in DOMAIN chain' : chain'[i].name \notin {"recover", "attach"}
              => chain'[i].on \in Threads
        BY <1>1, <1>3 DEF Shape, Longer
    <2> QED
        BY <1>2, <2>1, <2>2 DEF Shape, NoGen, NoDeletion
<1>8. Opening'
    BY <1>1, <1>2, <1>3 DEF Opening, Longer
<1>9. JournalIsMemory'
    BY <1>2 DEF JournalIsMemory, Journaling
<1>10. Apart'
    <2>1. \A u \in Threads : Touched(u)' => Touched(u) \/ u = t
        BY <1>1, <1>2, <1>3 DEF Touched, Longer
    <2> QED
        BY <1>2, <1>4, <2>1 DEF Apart
<1>11. Unused'
    BY <1>1, <1>2, <1>3 DEF Unused, Longer
<1>12. Creating'
    <2>1. ASSUME NEW i \in DOMAIN chain', NEW u \in Threads, chain'[i].name = "create",
                 chain'[i].on = u
          PROVE  /\ chain'[i].ephemeral = (u \in ephemeralIds')
                 /\ u \in temporary' => u \in ephemeralIds'
                 /\ View(u)' = Blank /\ u \notin dead /\ deletion.on # u
                 /\ ~Called("delete", u)
                 /\ gen.on = u => gen.pc = "get"
                 /\ \A j \in DOMAIN chain' : chain'[j].name = "create" /\ chain'[j].on = u
                        => i = j
        <3>1. CASE i \in DOMAIN chain
            BY <1>1, <1>2, <1>3, <1>4, <1>5, <2>1, <3>1 DEF Creating, Longer
        <3>2. CASE i = Len(chain) + 1
            <4>1. ~Called("delete", t)
                BY <1>4 DEF Called
            <4>2. u = t /\ chain'[i].ephemeral = e
                BY <1>1, <1>3, <2>1, <3>2 DEF Longer
            <4>3. \A j \in DOMAIN chain' : chain'[j].on = t => j = i
                BY <1>3, <1>4, <3>2 DEF Longer
            <4> QED
                BY <1>2, <1>4, <1>5, <4>1, <4>2, <4>3
        <3> QED
            BY <1>3, <3>1, <3>2 DEF Longer
    <2>2. \A u : Called("delete", u)' <=> Called("delete", u)
        BY <1>1, <1>6
    <2> QED
        BY <1>2, <2>1, <2>2 DEF Creating
<1>13. Living'
    <2>1. \A u : Called("delete", u)' <=> Called("delete", u)
        BY <1>1, <1>6
    <2>2. \A i \in DOMAIN chain' : chain'[i].name = "delete"
              => i \in DOMAIN chain /\ chain'[i] = chain[i]
        BY <1>1, <1>3 DEF Longer
    <2> QED
        BY <1>1, <1>2, <1>5, <1>6, <2>1, <2>2 DEF Living, Afoot, Shape
<1>14. Dying'
    BY <1>2, <1>4, <1>5, <1>6 DEF Dying, Shape, TypeOK
<1>15. Writing'
    BY <1>1, <1>2, <1>3, <1>4 DEF Writing, Afoot, Longer
<1>16. NoOrphan'
    BY <1>2 DEF NoOrphan
<1>17. NoGhostReply'
    BY <1>1, <1>2, <1>3, <1>5 DEF NoGhostReply, Recovered, Longer
<1>18. Settled'
    BY <1>2, <1>5 DEF Settled, Shape
<1> QED
    BY <1>7, <1>8, <1>9, <1>10, <1>11, <1>12, <1>13, <1>14, <1>15, <1>16, <1>17, <1>18

\* What is left of a session is what IndexedDB holds.
LEMMA CloseWindowKeeps == ASSUME Inv, CloseWindow PROVE Inv'
<1> USE DEF Inv, CloseWindow
<1>0. Nothing \in Backends /\ \A t \in Threads : Nothing[t] = Blank
    BY BlankIs DEF Nothing, Backends
<1>1. chain' = <<>> /\ journal' = <<>> /\ DOMAIN chain' = {} /\ DOMAIN journal' = {}
    OBVIOUS
<1>2. Shape'
    <2>1. TypeOK'
        <3>1. journal' \in Seq(Writes) /\ chain' \in Seq(Calls) /\ session' \in 1 .. MaxSessions
            BY <1>1 DEF Shape, TypeOK
        <3>2. gen' = NoGen /\ deletion' = NoDeletion /\ status' \in [Threads -> Statuses]
            BY DEF Statuses
        <3>3. /\ mem' \in [Threads -> Chats] /\ eph' \in [Threads -> Chats]
              /\ idb' \in [Threads -> Chats]
              /\ used' \subseteq Threads /\ temporary' \subseteq used'
            BY <1>0 DEF Shape, TypeOK, Backends
        <3>4. /\ gen' \in [on : Threads \cup {None}, ahead : Nat,
                           pc : {"off", "get", "building", "streaming", "ending", "finishing"}]
              /\ deletion' \in [on : Threads \cup {None}, pc : {"off", "waits", "called"}]
            BY <3>2 DEF NoGen, NoDeletion
        <3> QED
            BY <3>1, <3>2, <3>3, <3>4 DEF TypeOK
    <2> QED
        BY <1>1, <2>1 DEF Shape, NoGen, NoDeletion
<1>3. Opening'
    BY <1>1 DEF Opening
<1>4. JournalIsMemory'
    BY <1>0, <1>1, AppliedNone DEF JournalIsMemory
<1>5. Apart'
    <2>1. \A t \in Threads : ~Touched(t)'
        BY <1>0, <1>1, ChatStoreAssumption DEF Touched, NoDeletion
    <2>2. \A t \in temporary : mem'[t] = Blank /\ eph' = Nothing /\ idb'[t] = Blank
        BY <1>0 DEF Apart, Shape, TypeOK
    <2> QED
        BY <1>0, <2>1, <2>2 DEF Apart
<1>6. Unused'
    BY <1>0, <1>1 DEF Unused, NoGen, NoDeletion
<1>7. Creating' /\ Living' /\ Dying' /\ Writing' /\ NoGhostReply' /\ Settled'
    BY <1>1 DEF Creating, Living, Dying, Writing, NoGhostReply, Recovered, Settled, NoGen,
       NoDeletion, Afoot
<1>8. NoOrphan'
    BY <1>0, BlankIs DEF NoOrphan
<1> QED
    BY <1>2, <1>3, <1>4, <1>5, <1>6, <1>7, <1>8
\* A reply is begun: no deletion of its thread is under way, for the reply asked for the thread
\* behind all of them and found it.
LEMMA AppendBeginsKeeps ==
    ASSUME ~DeleteUnseen, Inv, AppendReply, Shown(gen.on).thread
    PROVE  Inv'
<1> USE DEF Inv
<1> DEFINE c == Call("append", gen.on)
<1>1. c \in Calls /\ c.name = "append" /\ c.on = gen.on
      /\ c.ephemeral = (gen.on \in ephemeralIds) /\ gen.on \in Threads
      /\ gen.pc = "get" /\ gen.ahead = 0
    BY CallIs DEF AppendReply, Shape, NoGen
<1>2. /\ chain' = Append(chain, c)
      /\ status' = [status EXCEPT ![gen.on] = "streaming"]
      /\ gen' = [gen EXCEPT !.pc = "building"]
      /\ UNCHANGED <<mode, open, attached, mem, eph, idb, journal, ephemeralIds, ready,
                     recovery, dead, deletion, used, temporary, session, pending>>
    BY DEF AppendReply, store
<1> HIDE DEF c
<1>3. Longer(c)
    BY <1>1, <1>2, Appended DEF Shape, TypeOK
<1>4. \A u \in Threads : View(u)' = View(u) /\ Shown(u)' = Shown(u)
    BY <1>2 DEF View, Shown, Persist
<1>5. \A n, u : Called(n, u)' <=> Called(n, u) \/ (c.name = n /\ c.on = u)
    BY <1>3, CalledLonger
<1>6. /\ View(gen.on).thread /\ View(gen.on) # Blank /\ gen.on \in used /\ gen.on \notin dead
      /\ ~attached => idb[gen.on] = Blank
      /\ deletion.on # gen.on /\ ~Called("delete", gen.on)
      /\ gen' = [on |-> gen.on, pc |-> "building", ahead |-> gen.ahead]
      /\ \A i \in DOMAIN chain : chain[i].name = "create" => chain[i].on # gen.on
    <2>1. ~Called("delete", gen.on)
        BY <1>1 DEF Living, Called, Shape, TypeOK
    <2>2. deletion.on # gen.on
        BY <1>1, <2>1 DEF Living, Dying, Shape, TypeOK, NoDeletion
    <2>3. gen' = [on |-> gen.on, pc |-> "building", ahead |-> gen.ahead]
        BY <1>2 DEF Shape, TypeOK
    <2> QED
        BY <1>1, <2>1, <2>2, <2>3, OnceShown
<1>20. Shape'
    <2>1. TypeOK'
        BY <1>2, <1>3 DEF Shape, TypeOK, Longer, Statuses
    <2>2. \A i \in DOMAIN chain' : chain'[i].name \notin {"recover", "attach"}
              => chain'[i].on \in Threads
        BY <1>1, <1>3 DEF Shape, Longer
    <2> QED
        BY <1>1, <1>2, <1>6, <2>1, <2>2 DEF Shape
<1>21. Opening'
    BY <1>1, <1>2, <1>3 DEF Opening, Longer
<1>22. JournalIsMemory'
    BY <1>2 DEF JournalIsMemory, Journaling
<1>23. Apart'
    <2>1. \A u \in Threads : Touched(u)' => Touched(u) \/ (~attached => idb[u] = Blank)
        BY <1>1, <1>2, <1>3, <1>6 DEF Touched, Longer
    <2> QED
        BY <1>2, <2>1 DEF Apart
<1>24. Unused'
    BY <1>1, <1>2, <1>3, <1>6 DEF Unused, Longer
<1>25. Creating'
    BY <1>1, <1>2, <1>3, <1>4, <1>5, <1>6 DEF Creating, Longer
<1>26. Living'
    BY <1>1, <1>2, <1>3, <1>4, <1>5, <1>6 DEF Living, Afoot, Longer, Shape, TypeOK
<1>27. Dying'
    BY <1>1, <1>2, <1>3, <1>4, <1>5, <1>6 DEF Dying, Shape, TypeOK, NoDeletion
<1>28. Writing'
    BY <1>1, <1>2, <1>3, <1>6 DEF Writing, Afoot, Longer
<1>29. NoOrphan'
    BY <1>2 DEF NoOrphan
<1>30. NoGhostReply'
    BY <1>1, <1>2, <1>3, <1>4, <1>6 DEF NoGhostReply, Recovered, Longer
<1>31. Settled'
    BY <1>2, <1>4 DEF Settled, Shape, Longer
<1> QED
    BY <1>20, <1>21, <1>22, <1>23, <1>24, <1>25, <1>26, <1>27, <1>28, <1>29, <1>30, <1>31

\* The last write of a reply goes behind all its others.
LEMMA FinalizeKeeps ==
    ASSUME ~DeleteUnseen, Inv, Finalize
    PROVE  Inv'
<1> USE DEF Inv
<1> DEFINE c == [Call("put", gen.on) EXCEPT !.to = status[gen.on]]
<1>1. c \in Calls /\ c.name = "put" /\ c.on = gen.on
      /\ c.to = "done" /\ gen.on \in Threads /\ gen.pc = "ending"
    <2>1. gen.pc = "ending" /\ gen.on \in Threads /\ status[gen.on] = "done"
        BY DEF Finalize, Shape, NoGen, Living
    <2>2. Call("put", gen.on) \in Calls /\ Call("put", gen.on).name = "put"
          /\ Call("put", gen.on).on = gen.on
        BY <2>1, CallIs
    <2> QED
        BY <2>1, <2>2 DEF Calls, Statuses
<1>2. /\ pending' = pending \ {gen.on} /\ chain' = Append(chain, c)
      /\ gen' = [gen EXCEPT !.pc = "finishing", !.ahead = Len(chain) + 1]
      /\ UNCHANGED <<mode, open, attached, mem, eph, idb, journal, ephemeralIds, ready,
                     recovery, status, dead, deletion, used, temporary, session>>
    BY DEF Finalize, store, Living, Afoot
<1> HIDE DEF c
<1>3. Longer(c)
    BY <1>1, <1>2, Appended DEF Shape, TypeOK
<1>4. \A u \in Threads : View(u)' = View(u) /\ Shown(u)' = Shown(u)
    BY <1>2 DEF View, Shown, Persist
<1>5. \A n, u : Called(n, u)' <=> Called(n, u) \/ (c.name = n /\ c.on = u)
    BY <1>3, CalledLonger
<1>6. /\ gen' = [on |-> gen.on, pc |-> "finishing", ahead |-> Len(chain) + 1] /\ gen.on \in used
      /\ status[gen.on] # None /\ pending' = {}
    BY <1>1, <1>2 DEF Shape, TypeOK, Living, Unused, Writing
<1>20. Shape'
    <2>1. TypeOK'
        BY <1>1, <1>2, <1>3, <1>6 DEF Shape, TypeOK, Longer
    <2>2. \A i \in DOMAIN chain' : chain'[i].name \notin {"recover", "attach"}
              => chain'[i].on \in Threads
        BY <1>1, <1>3 DEF Shape, Longer
    <2> QED
        BY <1>1, <1>2, <1>6, <2>1, <2>2 DEF Shape
<1>21. Opening'
    BY <1>1, <1>2, <1>3 DEF Opening, Longer
<1>22. JournalIsMemory'
    BY <1>2 DEF JournalIsMemory, Journaling
<1>23. Apart'
    <2>1. \A u \in Threads : Touched(u)' => Touched(u) \/ (~attached => idb[u] = Blank)
        BY <1>1, <1>2, <1>3, <1>6 DEF Touched, Longer
    <2> QED
        BY <1>2, <2>1 DEF Apart
<1>24. Unused'
    BY <1>1, <1>2, <1>3, <1>6 DEF Unused, Longer
<1>25. Creating'
    BY <1>1, <1>2, <1>3, <1>4, <1>5, <1>6 DEF Creating, Longer
<1>26. Living'
    BY <1>1, <1>2, <1>3, <1>4, <1>5, <1>6 DEF Living, Afoot, Longer, Shape
<1>27. Dying'
    BY <1>1, <1>2, <1>3, <1>4, <1>5, <1>6 DEF Dying, Shape, TypeOK, NoDeletion
<1>28. Writing'
    BY <1>1, <1>2, <1>3, <1>6 DEF Writing, Afoot, Longer
<1>29. NoOrphan'
    BY <1>2 DEF NoOrphan
<1>30. NoGhostReply'
    BY <1>1, <1>2, <1>3, <1>4, <1>6 DEF NoGhostReply, Recovered, Longer
<1>31. Settled'
    BY <1>2, <1>4 DEF Settled, Shape, Longer
<1> QED
    BY <1>20, <1>21, <1>22, <1>23, <1>24, <1>25, <1>26, <1>27, <1>28, <1>29, <1>30, <1>31

\* A deletion is called when no reply of the thread is afoot, so nothing is written after it.
LEMMA CallDeleteKeeps ==
    ASSUME ~DeleteUnseen, Inv, NEW t \in Threads, CallDelete(t), gen.on # t,
           ~attached => idb[t] = Blank,
           t \in used, \A i \in DOMAIN chain : chain[i].name = "create" => chain[i].on # t,
           UNCHANGED <<store, recovery, gen, status, dead, used, temporary, session>>
    PROVE  Inv'
<1> USE DEF Inv
<1> DEFINE c == Call("delete", t)
<1>1. c \in Calls /\ c.name = "delete" /\ c.on = t
    BY CallIs
<1>2. /\ pending' = pending \ {t} /\ chain' = Append(chain, c)
      /\ deletion' = [on |-> t, pc |-> "called"]
      /\ UNCHANGED <<mode, open, attached, mem, eph, idb, journal, ephemeralIds, ready,
                     recovery, gen, status, dead, used, temporary, session>>
    BY DEF CallDelete, store
<1> HIDE DEF c
<1>3. Longer(c)
    BY <1>1, <1>2, Appended DEF Shape, TypeOK
<1>4. \A u \in Threads : View(u)' = View(u) /\ Shown(u)' = Shown(u)
    BY <1>2 DEF View, Shown, Persist
<1>5. \A n, u : Called(n, u)' <=> Called(n, u) \/ (c.name = n /\ c.on = u)
    BY <1>3, CalledLonger
<1>6. pending' = pending /\ deletion'.on = t /\ deletion'.pc = "called"
    BY <1>2 DEF Writing
<1>20. Shape'
    <2>1. TypeOK'
        BY <1>2, <1>3 DEF Shape, TypeOK, Longer, Statuses
    <2>2. \A i \in DOMAIN chain' : chain'[i].name \notin {"recover", "attach"}
              => chain'[i].on \in Threads
        BY <1>1, <1>3 DEF Shape, Longer
    <2> QED
        BY <1>2, <2>1, <2>2 DEF Shape, NoGen, NoDeletion
<1>21. Opening'
    BY <1>1, <1>2, <1>3 DEF Opening, Longer
<1>22. JournalIsMemory'
    BY <1>2 DEF JournalIsMemory, Journaling
<1>23. Apart'
    <2>1. \A u \in Threads : Touched(u)' => Touched(u) \/ (~attached => idb[u] = Blank)
        BY <1>1, <1>2, <1>3, <1>6 DEF Touched, Longer
    <2> QED
        BY <1>2, <2>1 DEF Apart
<1>24. Unused'
    BY <1>1, <1>2, <1>3, <1>6 DEF Unused, Longer
<1>25. Creating'
    BY <1>1, <1>2, <1>3, <1>4, <1>5, <1>6 DEF Creating, Longer
<1>26. Living'
    BY <1>1, <1>2, <1>3, <1>4, <1>5, <1>6 DEF Living, Afoot, Longer, Shape
<1>27. Dying'
    BY <1>1, <1>2, <1>3, <1>4, <1>5, <1>6 DEF Dying, Shape, TypeOK, NoDeletion
<1>28. Writing'
    BY <1>1, <1>2, <1>3, <1>6 DEF Writing, Afoot, Longer
<1>29. NoOrphan'
    BY <1>2 DEF NoOrphan
<1>30. NoGhostReply'
    BY <1>1, <1>2, <1>3, <1>4, <1>6 DEF NoGhostReply, Recovered, Longer
<1>31. Settled'
    BY <1>2, <1>4 DEF Settled, Shape, Longer
<1> QED
    BY <1>20, <1>21, <1>22, <1>23, <1>24, <1>25, <1>26, <1>27, <1>28, <1>29, <1>30, <1>31

\* generate() finds no thread: it was deleted meanwhile.
LEMMA NothingBegins ==
    ASSUME Inv, AppendReply, ~Shown(gen.on).thread
    PROVE  Inv'
<1> USE DEF Inv
<1>4. \A u \in Threads : View(u)' = View(u) /\ Shown(u)' = Shown(u)
    BY DEF AppendReply, store, View, Shown, Persist
<1>5. \A m, u : Called(m, u)' <=> Called(m, u)
    BY DEF AppendReply, store, Called
<1>6. Shape'
    BY DEF AppendReply, store, Shape, TypeOK, NoGen, NoDeletion, Statuses
<1>7. Opening'
    BY DEF AppendReply, store, Opening
<1>8. JournalIsMemory'
    BY DEF AppendReply, store, JournalIsMemory, Journaling
<1>9. Apart'
    BY DEF AppendReply, store, Apart, Touched, Shape, TypeOK
<1>10. Unused'
    BY DEF AppendReply, store, Unused, Shape, TypeOK, NoGen, NoDeletion
<1>11. Creating'
    BY <1>4, <1>5 DEF AppendReply, store, Creating, Shape, TypeOK, NoGen, NoDeletion
<1>12. Living'
    BY <1>4, <1>5 DEF AppendReply, store, Living, Afoot, Shape, TypeOK, NoGen, NoDeletion
<1>13. Dying'
    BY <1>4, <1>5 DEF AppendReply, store, Dying, Shape, TypeOK, NoGen, NoDeletion
<1>14. Writing'
    BY DEF AppendReply, store, Writing, Afoot, Shape, TypeOK, NoGen, NoDeletion
<1>15. NoOrphan'
    BY DEF AppendReply, store, NoOrphan
<1>16. NoGhostReply'
    <2>1. gen.on \in Threads
        BY DEF AppendReply, Shape
    <2>2. Shown(gen.on).reply # "streaming"
        BY <2>1, BlankIs DEF Shown, Persist, NoOrphan
    <2>3. Recovered' <=> Recovered
        BY DEF AppendReply, store, Recovered
    <2> QED
        BY <1>4, <2>2, <2>3 DEF NoGhostReply
<1>17. Settled'
    BY <1>4 DEF AppendReply, store, Settled, Shape, TypeOK, NoGen
<1> QED
    BY <1>6, <1>7, <1>8, <1>9, <1>10, <1>11, <1>12, <1>13, <1>14, <1>15, <1>16, <1>17

\* The sidebar aborts the stream and waits for the reply to settle.
LEMMA DeletionWaits ==
    ASSUME Inv, NEW t \in Threads, AskDelete(t), Active(t)
    PROVE  Inv'
<1> USE DEF Inv
<1>3. /\ t \in used /\ t \notin dead /\ View(t).thread /\ View(t) # Blank
      /\ \A i \in DOMAIN chain : chain[i].name = "create" => chain[i].on # t
    BY OnceShown DEF AskDelete
<1>4. \A u \in Threads : View(u)' = View(u) /\ Shown(u)' = Shown(u)
    BY DEF AskDelete, Active, store, View, Shown, Persist
<1>5. \A m, u : Called(m, u)' <=> Called(m, u)
    BY DEF AskDelete, Active, store, Called
<1>6. Shape'
    BY DEF AskDelete, Active, store, Shape, TypeOK, NoGen, NoDeletion, Statuses
<1>7. Opening'
    BY DEF AskDelete, Active, store, Opening
<1>8. JournalIsMemory'
    BY DEF AskDelete, Active, store, JournalIsMemory, Journaling
<1>9. Apart'
    <2>1. \A u \in Threads : Touched(u)' => Touched(u)
        BY DEF AskDelete, Active, store, Touched, Living, Afoot
    <2> QED
        BY <2>1 DEF AskDelete, Active, store, Apart
<1>10. Unused'
    BY <1>3 DEF AskDelete, Active, store, Unused, Shape, TypeOK, NoGen, NoDeletion
<1>11. Creating'
    BY <1>3, <1>4, <1>5 DEF AskDelete, Active, store, Creating, Shape, TypeOK, NoGen, NoDeletion
<1>12. Living'
    BY <1>4, <1>5 DEF AskDelete, Active, store, Living, Afoot, Shape, TypeOK, NoGen, NoDeletion
<1>13. Dying'
    <2>1. /\ deletion' = [on |-> t, pc |-> "waits"] /\ gen.on = t /\ gen.pc = "streaming"
          /\ UNCHANGED <<dead, ephemeralIds, status>>
        BY DEF AskDelete, Active, store
    <2>2. status[t] # None
        BY <2>1 DEF Living, Afoot
    <2> QED
        BY <1>4, <2>1, <2>2 DEF Dying, Shape, TypeOK
<1>14. Writing'
    BY DEF AskDelete, Active, store, Writing, Afoot, Shape, TypeOK, NoGen, NoDeletion
<1>15. NoOrphan'
    BY DEF AskDelete, Active, store, NoOrphan
<1>16. NoGhostReply'
    BY <1>4 DEF AskDelete, Active, store, NoGhostReply, Recovered, Shape, TypeOK, NoGen
<1>17. Settled'
    BY <1>4 DEF AskDelete, Active, store, Settled, Shape, TypeOK, NoGen
<1> QED
    BY <1>6, <1>7, <1>8, <1>9, <1>10, <1>11, <1>12, <1>13, <1>14, <1>15, <1>16, <1>17

LEMMA AppendReplyKeeps == ASSUME ~DeleteUnseen, Inv, AppendReply PROVE Inv'
<1>1. CASE Shown(gen.on).thread
    BY <1>1, AppendBeginsKeeps
<1>2. CASE ~Shown(gen.on).thread
    BY <1>2, NothingBegins
<1> QED
    BY <1>1, <1>2

LEMMA AskDeleteKeeps == ASSUME ~DeleteUnseen, Inv, NEW t \in Threads, AskDelete(t) PROVE Inv'
<1> USE DEF Inv
<1>1. /\ t \in used /\ t \notin dead /\ View(t) # Blank
      /\ ~attached => idb[t] = Blank
      /\ \A i \in DOMAIN chain : chain[i].name = "create" => chain[i].on # t
    BY OnceShown DEF AskDelete
<1>2. CASE Active(t)
    BY <1>2, DeletionWaits
<1>3. CASE ~Active(t)
    <2>1. CallDelete(t) /\ gen.on # t
        BY <1>3 DEF AskDelete, Active
    <2>2. UNCHANGED <<store, recovery, gen, status, dead, used, temporary, session>>
        BY DEF AskDelete
    <2> QED
        BY <1>1, <2>1, <2>2, CallDeleteKeeps
<1> QED
    BY <1>2, <1>3

LEMMA DeleteGoesOnKeeps == ASSUME ~DeleteUnseen, Inv, DeleteGoesOn PROVE Inv'
<1> USE DEF Inv
<1>1. /\ deletion.on \in Threads /\ deletion.on \in used
      /\ ~attached => idb[deletion.on] = Blank
      /\ \A i \in DOMAIN chain : chain[i].name = "create" => chain[i].on # deletion.on
    BY DEF DeleteGoesOn, Shape, NoDeletion, Unused, Apart, Touched, Creating
<1>2. PICK t \in Threads : t = deletion.on
    BY <1>1
<1>3. CallDelete(t) /\ gen.on # t
    BY <1>2 DEF DeleteGoesOn
<1>4. UNCHANGED <<store, recovery, gen, status, dead, used, temporary, session>>
    BY DEF DeleteGoesOn
<1> QED
    BY <1>1, <1>2, <1>3, <1>4, CallDeleteKeeps
-----------------------------------------------------------------------------
(* The turn of a call. *)

\* What every turn does: the head of the chain is gone, and generate() has one call fewer
\* before its own.
Turn ==
    /\ Shorter
    /\ gen'.on = gen.on /\ gen'.pc = gen.pc /\ gen'.ahead \in Nat
    /\ gen' \in [on : Threads \cup {None}, ahead : Nat,
                 pc : {"off", "get", "building", "streaming", "ending", "finishing"}]
    /\ gen = NoGen => gen' = NoGen
    /\ gen.ahead \in Nat /\ gen'.ahead = IF gen.ahead = 0 THEN 0 ELSE gen.ahead - 1
    /\ UNCHANGED <<pending, status, used, temporary, session>>

\* What taking a turn leaves of everything but the backends.
LEMMA TurnTaken == ASSUME Inv, Run PROVE Turn /\ Head(chain) \in Calls
<1>1. Shorter
    BY Shifted DEF Run, Inv, Shape, TypeOK
<1>2. /\ gen.ahead \in Nat
      /\ gen' = [on |-> gen.on, pc |-> gen.pc,
                 ahead |-> IF gen.ahead = 0 THEN 0 ELSE gen.ahead - 1]
    BY DEF Run, Inv, Shape, TypeOK
<1>3. gen' \in [on : Threads \cup {None}, ahead : Nat,
                pc : {"off", "get", "building", "streaming", "ending", "finishing"}]
    BY <1>2 DEF Inv, Shape, TypeOK
<1>4. UNCHANGED <<pending, status, used, temporary, session>>
    BY DEF Run
<1> QED
    BY <1>1, <1>2, <1>3, <1>4 DEF Turn, Shorter, NoGen

\* What a turn leaves in place of the parts that are about the chain.
LEMMA TurnOpening ==
    ASSUME Inv, Turn, UNCHANGED <<mode, open, attached, ready>>
    PROVE  Opening'
BY DEF Inv, Turn, Shorter, Opening

LEMMA TurnWriting ==
    ASSUME Inv, Turn, gen.pc \in Afoot => (gen.on \in ephemeralIds' <=> gen.on \in ephemeralIds)
    PROVE  Writing'
<1> USE DEF Inv, Turn, Shorter
<1>1. pending' \subseteq {gen'.on} /\ (pending' # {} => gen'.pc \in {"streaming", "ending"})
    BY DEF Writing
<1>2. ASSUME NEW i \in DOMAIN chain', chain'[i].name \in {"append", "put"}
      PROVE  /\ gen'.pc \in Afoot /\ chain'[i].on = gen'.on
             /\ gen'.pc = "finishing" => i <= gen'.ahead
             /\ chain'[i].name = "append" => chain'[i].ephemeral = (gen'.on \in ephemeralIds')
    <2>1. i + 1 \in DOMAIN chain /\ chain'[i] = chain[i + 1] /\ i \in Nat
        OBVIOUS
    <2> QED
        BY <1>2, <2>1 DEF Writing
<1>3. gen'.pc = "finishing" /\ gen'.ahead > 0 =>
          /\ gen'.ahead \in DOMAIN chain'
          /\ chain'[gen'.ahead].name = "put" /\ chain'[gen'.ahead].to = "done"
    <2> SUFFICES ASSUME gen.pc = "finishing", gen'.ahead > 0
                 PROVE  /\ gen'.ahead \in DOMAIN chain'
                        /\ chain'[gen'.ahead].name = "put" /\ chain'[gen'.ahead].to = "done"
        OBVIOUS
    <2>1. gen.ahead > 1 /\ gen'.ahead = gen.ahead - 1 /\ gen.ahead \in DOMAIN chain
        BY DEF Writing
    <2>2. chain'[gen'.ahead] = chain[gen.ahead] /\ gen'.ahead \in DOMAIN chain'
        BY <2>1
    <2> QED
        BY <2>1, <2>2 DEF Writing
<1> QED
    BY <1>1, <1>2, <1>3 DEF Writing

\* The deletions that generate()'s question waits for.
LEMMA TurnGet ==
    ASSUME Inv, Turn, gen.pc = "get", NEW i \in DOMAIN chain', chain'[i].name = "delete",
           chain'[i].on = gen.on
    PROVE  i <= gen'.ahead
<1>1. i + 1 \in DOMAIN chain /\ chain'[i] = chain[i + 1] /\ i \in Nat
    BY DEF Turn, Shorter
<1>2. i + 1 <= gen.ahead
    BY <1>1 DEF Inv, Living
<1> QED
    BY <1>1, <1>2 DEF Turn

-----------------------------------------------------------------------------
(* The turn of a call about one thread. *)

\* Thread t is r from now on, where it is kept, and nothing else changes.
Put(t, r) ==
    /\ eph' \in Backends /\ mem' \in Backends /\ idb' \in Backends
    /\ \A u \in Threads : u # t => eph'[u] = eph[u] /\ mem'[u] = mem[u] /\ idb'[u] = idb[u]
    /\ eph'[t] = IF t \in ephemeralIds THEN r ELSE eph[t]
    /\ mem'[t] = IF t \notin ephemeralIds /\ ~attached THEN r ELSE mem[t]
    /\ idb'[t] = IF t \notin ephemeralIds /\ attached THEN r ELSE idb[t]
    /\ journal' \in Seq(Writes)
    /\ \A u : (\E i \in DOMAIN journal' : journal'[i].of = u)
                => (\E i \in DOMAIN journal : journal[i].of = u) \/ u = t
    /\ Journaling => Applied(Nothing, journal') = mem'

\* The writes of a call about one thread, where they land.
LEMMA Written ==
    ASSUME Inv, NEW t \in Threads, NEW w \in Seq(Writes), \A i \in DOMAIN w : w[i].of = t,
           Apply(w, t \in ephemeralIds)
    PROVE  Put(t, Applied([u \in Threads |-> View(t)], w)[t])
<1> USE DEF Inv
<1> DEFINE r == Applied([u \in Threads |-> View(t)], w)[t]
<1>1. /\ eph \in Backends /\ mem \in Backends /\ idb \in Backends /\ Nothing \in Backends
      /\ journal \in Seq(Writes)
    BY BlankIs DEF Shape, TypeOK, Backends, Nothing
<1>2. ASSUME NEW b \in Backends
      PROVE  /\ Applied(b, w) \in Backends
             /\ \A u \in Threads : u # t => Applied(b, w)[u] = b[u]
             /\ b[t] = View(t) => Applied(b, w)[t] = r
    <2>1. Applied(b, w) \in Backends
        BY AppliedType
    <2>2. \A u \in Threads : u # t => Applied(b, w)[u] = b[u]
        BY AppliedUntouched
    <2>3. b[t] = View(t) => Applied(b, w)[t] = r
        BY DEF Applied
    <2> QED
        BY <2>1, <2>2, <2>3
<1> SUFFICES Put(t, r)
    OBVIOUS
<1> HIDE DEF r
<1>3. /\ journal \o w \in Seq(Writes)
      /\ \A u : (\E i \in DOMAIN (journal \o w) : (journal \o w)[i].of = u)
                  => (\E i \in DOMAIN journal : journal[i].of = u) \/ u = t
    <2>1. /\ journal \o w \in Seq(Writes)
              /\ DOMAIN (journal \o w) = 1 .. (Len(journal) + Len(w))
          /\ \A i \in 1 .. (Len(journal) + Len(w)) :
                (journal \o w)[i] = IF i <= Len(journal) THEN journal[i] ELSE w[i - Len(journal)]
          /\ Len(journal) \in Nat /\ Len(w) \in Nat
          /\ DOMAIN journal = 1 .. Len(journal) /\ DOMAIN w = 1 .. Len(w)
        BY <1>1
    <2> QED
        BY <2>1
<1>4. Journaling => Applied(Nothing, journal \o w) = Applied(mem, w)
    BY <1>1, AppliedConcat DEF JournalIsMemory
<1>5. CASE t \in ephemeralIds
    <2>1. eph' = Applied(eph, w) /\ UNCHANGED <<mem, idb, journal>> /\ eph[t] = View(t)
        BY <1>5 DEF Apply, View
    <2>2. /\ eph' \in Backends /\ eph'[t] = r
          /\ \A u \in Threads : u # t => eph'[u] = eph[u]
        BY <1>1, <1>2, <2>1
    <2>3. Journaling => Applied(Nothing, journal') = mem'
        BY <2>1 DEF JournalIsMemory
    <2>4. mem' = mem /\ idb' = idb /\ journal' = journal
        BY <2>1
    <2> QED
        BY <1>1, <1>5, <2>2, <2>3, <2>4 DEF Put
<1>6. CASE t \notin ephemeralIds
    <2>1. /\ eph' = eph
          /\ idb' = IF attached THEN Applied(idb, w) ELSE idb
          /\ mem' = IF attached THEN mem ELSE Applied(mem, w)
          /\ journal' = IF Journaling THEN journal \o w ELSE journal
          /\ View(t) = IF attached THEN idb[t] ELSE mem[t]
        BY <1>6 DEF Apply, Persisted, View, Persist
    <2>2. Journaling => ~attached
        BY DEF Journaling
    <2>3. CASE attached
        <3>1. mem' = mem /\ eph' = eph /\ journal' = journal /\ ~Journaling
            BY <2>1, <2>2, <2>3
        <3>2. /\ idb' \in Backends /\ idb'[t] = r
              /\ \A u \in Threads : u # t => idb'[u] = idb[u]
            BY <1>1, <1>2, <2>1, <2>3
        <3> QED
            BY <1>1, <1>6, <2>3, <3>1, <3>2 DEF Put
    <2>4. CASE ~attached
        <3>1. idb' = idb /\ eph' = eph
            BY <2>1, <2>4
        <3>2. /\ mem' \in Backends /\ mem'[t] = r
              /\ \A u \in Threads : u # t => mem'[u] = mem[u]
            BY <1>1, <1>2, <2>1, <2>4
        <3>3. /\ journal' \in Seq(Writes)
              /\ \A u : (\E i \in DOMAIN journal' : journal'[i].of = u)
                          => (\E i \in DOMAIN journal : journal[i].of = u) \/ u = t
              /\ Journaling => Applied(Nothing, journal') = mem'
            <4>1. CASE Journaling
                BY <1>3, <1>4, <2>1, <2>4, <4>1
            <4>2. CASE ~Journaling
                BY <1>1, <2>1, <4>2
            <4> QED
                BY <4>1, <4>2
        <3> QED
            BY <1>1, <1>6, <2>4, <3>1, <3>2, <3>3 DEF Put
    <2> QED
        BY <2>3, <2>4
<1> QED
    BY <1>5, <1>6
\* A turn that writes one thread, if what it writes agrees with the thread's creation, its reply
\* and its deletion.
LEMMA PutKeeps ==
    ASSUME Inv, Turn, NEW t \in Threads, NEW r \in Chats, Put(t, r), Quiet,
           Head(chain).name \notin {"recover", "delete"}, t \in used,
           r.reply # None => r.thread,
           View(t).thread => r.thread,
           r.thread => t \notin dead,
           t \in temporary /\ t \notin ephemeralIds => r = Blank,
           (~attached => idb[t] = Blank) \/ (r = View(t) /\ journal' = journal),
           \A i \in DOMAIN chain' : chain'[i].name = "create" /\ chain'[i].on = t => r = Blank,
           r.reply = "streaming" => View(t).reply = "streaming" \/ t = gen.on,
           gen'.pc = "finishing" /\ gen'.ahead = 0 =>
              IF t = gen.on THEN r.reply # "streaming" ELSE gen.ahead = 0
    PROVE  Inv'
<1> USE DEF Inv, Backends
<1>1. UNCHANGED <<mode, open, attached, ephemeralIds, ready, recovery, dead, deletion,
                  pending, status, used, temporary, session>>
    BY DEF Quiet, Turn
<1>2. gen'.on = gen.on /\ gen'.pc = gen.pc
    BY DEF Turn
<1>3. /\ \A u \in Threads : View(u)' = IF u = t THEN r ELSE View(u)
      /\ \A u \in Threads : Shown(u)' = IF u = t THEN r ELSE View(u)
    <2>1. \A u \in Threads : Shown(u) = View(u)
        BY ShownIsView
    <2>2. \A u \in Threads : u # t => View(u)' = View(u) /\ Shown(u)' = Shown(u)
        BY <1>1 DEF Put, View, Shown, Persist
    <2>3. CASE t \in ephemeralIds
        <3>1. eph'[t] = r /\ Persist'[t] = Blank
            BY <1>1, <2>3 DEF Put, Persist, Apart
        <3> QED
            BY <1>1, <2>1, <2>2, <2>3, <3>1 DEF View, Shown
    <2>4. CASE t \notin ephemeralIds
        <3>1. eph'[t] = Blank /\ Persist'[t] = r
            BY <1>1, <2>4 DEF Put, Persist, Apart
        <3> QED
            BY <1>1, <2>1, <2>2, <2>4, <3>1 DEF View, Shown
    <2> QED
        BY <2>3, <2>4
<1>4. /\ \A n, u : Called(n, u)' => Called(n, u)
      /\ \A u : Called("delete", u) => Called("delete", u)'
    BY CalledShorter DEF Turn
<1>5. /\ \A i \in DOMAIN chain' : i + 1 \in DOMAIN chain /\ chain'[i] = chain[i + 1] /\ i \in Nat
      /\ chain' \in Seq(Calls)
    BY DEF Turn, Shorter
<1>6. Shape'
    <2>1. TypeOK'
        BY <1>1, <1>5 DEF Shape, TypeOK, Put, Turn
    <2>2. gen'.pc = "off" => gen' = NoGen
        BY <1>2 DEF Shape, Turn
    <2> QED
        BY <1>1, <1>2, <1>5, <2>1, <2>2 DEF Shape
<1>7. Opening'
    BY <1>1, TurnOpening
<1>8. JournalIsMemory'
    BY <1>1 DEF JournalIsMemory, Journaling, Put
<1>9. Apart'
    <2>1. \A u \in Threads : u # t /\ Touched(u)' => Touched(u)
        <3> SUFFICES ASSUME NEW u \in Threads, u # t, Touched(u)' PROVE Touched(u)
            OBVIOUS
        <3>1. mem'[u] = mem[u]
            BY DEF Put
        <3>2. (\E i \in DOMAIN journal' : journal'[i].of = u)
                  => \E i \in DOMAIN journal : journal[i].of = u
            BY DEF Put
        <3>3. (\E i \in DOMAIN chain' : chain'[i].on = u /\ chain'[i].name # "update")
                 => \E i \in DOMAIN chain : chain[i].on = u /\ chain[i].name # "update"
            BY <1>5
        <3> QED
            BY <1>1, <3>1, <3>2, <3>3 DEF Touched
    <2>2. ASSUME ~attached, Touched(t)' PROVE idb'[t] = Blank
        <3>1. CASE idb[t] = Blank
            BY <2>2, <3>1 DEF Put
        <3>2. CASE r = View(t) /\ journal' = journal
            <4>1. mem'[t] = mem[t] /\ idb'[t] = idb[t]
                BY <2>2, <3>2 DEF Put, View, Persist
            <4>2. Touched(t)
                BY <1>1, <1>5, <2>2, <3>2, <4>1 DEF Touched
            <4> QED
                BY <2>2, <4>1, <4>2 DEF Apart
        <3> QED
            BY <2>2, <3>1, <3>2
    <2>3. \A u \in Threads \ ephemeralIds : eph'[u] = Blank
        BY DEF Put, Apart
    <2>4. \A u \in temporary : mem'[u] = Blank /\ idb'[u] = Blank
        BY DEF Put, Apart, Shape, TypeOK
    <2>5. ~attached => \A u \in Threads : Touched(u)' => idb'[u] = Blank
        BY <2>1, <2>2 DEF Put, Apart
    <2> QED
        BY <1>1, <2>3, <2>4, <2>5 DEF Apart
<1>10. Unused'
    <2>1. \A u \in Threads \ used : u # t /\ mem'[u] = mem[u] /\ idb'[u] = idb[u]
        BY DEF Put
    <2>2. \A u \in Threads \ used : \A i \in DOMAIN chain' : chain'[i].on # u
        BY <1>5 DEF Unused
    <2> QED
        BY <1>1, <1>2, <2>1, <2>2 DEF Unused
<1>11. Creating'
    <2> SUFFICES ASSUME NEW i \in DOMAIN chain', NEW u \in Threads, chain'[i].name = "create",
                        chain'[i].on = u
                 PROVE  /\ chain'[i].ephemeral = (u \in ephemeralIds')
                        /\ u \in temporary' => u \in ephemeralIds'
                        /\ View(u)' = Blank /\ u \notin dead' /\ deletion'.on # u
                        /\ ~Called("delete", u)'
                        /\ gen'.on = u => gen'.pc = "get"
                        /\ \A j \in DOMAIN chain' :
                              chain'[j].name = "create" /\ chain'[j].on = u => i = j
        BY DEF Creating
    <2>1. i + 1 \in DOMAIN chain /\ chain[i + 1] = chain'[i]
        BY <1>5
    <2>2. View(u)' = Blank
        BY <1>3, <2>1 DEF Creating
    <2>3. \A j \in DOMAIN chain' : chain'[j].name = "create" /\ chain'[j].on = u => i = j
        <3> SUFFICES ASSUME NEW j \in DOMAIN chain', chain'[j].name = "create", chain'[j].on = u
                     PROVE  i = j
            OBVIOUS
        <3>1. i + 1 = j + 1 /\ i \in Nat /\ j \in Nat
            BY <1>5, <2>1 DEF Creating
        <3> QED
            BY <3>1
    <2> QED
        BY <1>1, <1>2, <1>4, <2>1, <2>2, <2>3 DEF Creating
<1>12. Living'
    <2>1. CASE gen.pc \in Afoot
        <3>1. PICK g \in Threads : g = gen.on
            BY <2>1 DEF Shape, Afoot
        <3>2. View(g)'.thread /\ g \notin dead /\ ~Called("delete", g)' /\ status[g] # None
            BY <1>3, <1>4, <2>1, <3>1 DEF Living
        <3> QED
            BY <1>1, <1>2, <2>1, <3>1, <3>2 DEF Living, Afoot, View, Called, Persist
    <2>2. CASE gen.pc = "get"
        BY <1>1, <1>2, <2>2, TurnGet DEF Living, Afoot
    <2>3. CASE gen.pc \notin Afoot /\ gen.pc # "get"
        BY <1>2, <2>3 DEF Living, Afoot
    <2> QED
        BY <2>1, <2>2, <2>3
<1>13. Dying'
    <2>1. \A u \in dead : u \notin ephemeralIds /\ ~View(u)'.thread
        BY <1>3 DEF Dying, Shape, TypeOK
    <2>2. deletion.pc = "called" => Called("delete", deletion.on)'
        <3>1. \A u : Called("delete", u)
                  => \E i \in DOMAIN chain' : chain'[i].name = "delete" /\ chain'[i].on = u
            BY <1>4 DEF Called
        <3> QED
            BY <1>1, <3>1 DEF Dying, Called
    <2> QED
        BY <1>1, <2>1, <2>2 DEF Dying
<1>14. Writing'
    BY <1>1, TurnWriting
<1>15. NoOrphan'
    BY DEF NoOrphan, Put
<1>16. NoGhostReply'
    <2>1. Recovered' => Recovered
        BY <1>1 DEF Recovered, Turn, Shorter
    <2>2. \A u \in Threads : Shown(u) = View(u)
        BY ShownIsView
    <2> QED
        BY <1>2, <1>3, <2>1, <2>2 DEF NoGhostReply
<1>17. Settled'
    <2> SUFFICES ASSUME gen'.pc = "finishing", gen'.ahead = 0
                 PROVE  (View(gen.on)').reply # "streaming"
        BY <1>2 DEF Settled
    <2>1. PICK g \in Threads : g = gen.on
        BY <1>2 DEF Shape
    <2>2. View(g)'.reply # "streaming"
        BY <1>2, <1>3, <2>1 DEF Settled
    <2> QED
        BY <1>1, <1>2, <2>1, <2>2 DEF View, Persist
<1> QED
    BY <1>6, <1>7, <1>8, <1>9, <1>10, <1>11, <1>12, <1>13, <1>14, <1>15, <1>16, <1>17

\* Whose turn it is.
LEMMA HeadCall ==
    ASSUME Inv, Turn
    PROVE  /\ Head(chain) = chain[1] /\ 1 \in DOMAIN chain /\ Head(chain) \in Calls
           /\ Head(chain).name \notin {"recover", "attach"} =>
                 Head(chain).on \in Threads /\ Head(chain).on \in used
           /\ \A i \in DOMAIN chain' :
                  i + 1 \in DOMAIN chain /\ i + 1 # 1 /\ chain'[i] = chain[i + 1]
<1>1. /\ Head(chain) = chain[1] /\ 1 \in DOMAIN chain /\ Head(chain) \in Calls
      /\ \A i \in DOMAIN chain' : i + 1 \in DOMAIN chain /\ i + 1 # 1 /\ chain'[i] = chain[i + 1]
    BY DEF Turn, Shorter
<1> QED
    BY <1>1 DEF Inv, Shape, Unused

\* When generate() waits no more, its last write has been made or is the one whose turn it is.
LEMMA LastWrite ==
    ASSUME Inv, Turn, gen'.pc = "finishing", gen'.ahead = 0
    PROVE  LET c == Head(chain)
           IN  \/ /\ gen.ahead = 0 /\ c.name \notin {"append", "put"}
                  /\ View(gen.on).reply # "streaming"
               \/ c.name = "put" /\ c.on = gen.on /\ c.to = "done"
<1>1. gen.pc = "finishing" /\ gen.ahead \in {0, 1} /\ Head(chain) = chain[1] /\ 1 \in DOMAIN chain
    BY HeadCall DEF Turn
<1>2. CASE gen.ahead = 0
    BY <1>1, <1>2 DEF Inv, Writing, Settled
<1>3. CASE gen.ahead = 1
    BY <1>1, <1>3 DEF Inv, Writing
<1> QED
    BY <1>1, <1>2, <1>3

\* The seven calls.
LEMMA RunCreateKeeps ==
    ASSUME Inv, Turn, NEW c, c = Head(chain), c.name = "create", RunCreate(c)
    PROVE  Inv'
<1> USE DEF Inv
<1>1. PICK t \in Threads : t = c.on /\ t \in used /\ chain[1] = c /\ 1 \in DOMAIN chain
    BY HeadCall
<1> DEFINE r == [thread |-> TRUE, reply |-> None]
<1>2. /\ c.ephemeral = (t \in ephemeralIds) /\ (t \in temporary => t \in ephemeralIds)
      /\ View(t) = Blank /\ t \notin dead
      /\ gen.on = t => gen.pc = "get"
    BY <1>1 DEF Creating
<1>3. ~attached => idb[t] = Blank
    BY <1>1 DEF Apart, Touched
<1>4. Put(t, r)
    <2>1. /\ <<Thread(t, TRUE)>> \in Seq(Writes)
          /\ \A i \in DOMAIN <<Thread(t, TRUE)>> : <<Thread(t, TRUE)>>[i].of = t
        BY DEF Thread, Writes
    <2>2. Put(t, Applied([u \in Threads |-> View(t)], <<Thread(t, TRUE)>>)[t])
        BY <1>1, <1>2, <2>1, Written DEF RunCreate
    <2>3. [u \in Threads |-> View(t)] \in Backends
        BY <1>2, BlankIs DEF Backends
    <2>4. Applied([u \in Threads |-> View(t)], <<Thread(t, TRUE)>>)[t] = r
        <3>1. [[u \in Threads |-> View(t)] EXCEPT ![t].thread = TRUE][t]
                = [View(t) EXCEPT !.thread = TRUE]
            OBVIOUS
        <3>2. View(t) \in Chats /\ View(t).reply = None
            BY <1>2, BlankIs
        <3>3. [View(t) EXCEPT !.thread = TRUE] = r
            BY <3>2, ChatWith
        <3> QED
            BY <2>3, <3>1, <3>3, AppliedThread
    <2> QED
        BY <2>2, <2>4
<1>5. \A i \in DOMAIN chain' : chain'[i].name = "create" => chain'[i].on # t
    BY <1>1, HeadCall DEF Creating
<1>6. gen'.pc = "finishing" /\ gen'.ahead = 0 => t # gen.on /\ gen.ahead = 0
    BY <1>2, LastWrite DEF Turn
<1>7. r \in Chats /\ r.thread /\ r.reply = None /\ "streaming" # None
    BY DEF Chats, Statuses
<1>8. Quiet
    BY DEF RunCreate
<1> HIDE DEF r
<1> QED
    BY <1>1, <1>2, <1>3, <1>4, <1>5, <1>6, <1>7, <1>8, PutKeeps

LEMMA RunUpdateKeeps ==
    ASSUME Inv, Turn, NEW c, c = Head(chain), c.name = "update", RunUpdate(c)
    PROVE  Inv'
<1> USE DEF Inv
<1>1. PICK t \in Threads : t = c.on /\ t \in used /\ chain[1] = c /\ 1 \in DOMAIN chain
    BY HeadCall
<1> DEFINE w == IF Shown(t).thread THEN <<Thread(t, TRUE)>> ELSE <<>>
           r == View(t)
<1>2. r \in Chats /\ Shown(t) = r
    BY ShownIsView
<1>3. (eph[t].thread \/ t \in ephemeralIds) <=> t \in ephemeralIds
    BY BlankIs DEF Apart
<1>4. Put(t, r) /\ (~r.thread => journal' = journal)
    <2>1. w \in Seq(Writes) /\ \A i \in DOMAIN w : w[i].of = t
        <3>1. CASE Shown(t).thread
            BY <3>1 DEF Thread, Writes
        <3>2. CASE ~Shown(t).thread
            BY <3>2
        <3> QED
            BY <3>1, <3>2
    <2>2. Apply(w, t \in ephemeralIds)
        BY <1>1, <1>3 DEF RunUpdate, Apply
    <2>3. [u \in Threads |-> r] \in Backends
        BY <1>2 DEF Backends
    <2>4. Applied([u \in Threads |-> r], w)[t] = r
        <3>1. CASE r.thread
            <4>1. [[u \in Threads |-> r] EXCEPT ![t].thread = TRUE][t]
                    = [r EXCEPT !.thread = TRUE]
                OBVIOUS
            <4>2. [r EXCEPT !.thread = TRUE] = r
                BY <1>2, <3>1 DEF Chats
            <4> QED
                BY <1>2, <2>3, <3>1, <4>1, <4>2, AppliedThread
        <3>2. CASE ~r.thread
            BY <1>2, <2>3, <3>2, AppliedNone
        <3> QED
            BY <3>1, <3>2
    <2>5. Put(t, r)
        <3> HIDE DEF w
        <3> QED
            BY <2>1, <2>2, <2>4, Written
    <2>6. ~r.thread => journal' = journal
        <3>1. ASSUME w = <<>> PROVE journal' = journal
            <4>1. journal \o <<>> = journal
                BY DEF Shape, TypeOK
            <4> QED
                BY <2>2, <3>1, <4>1 DEF Apply, Persisted
        <3> QED
            BY <1>2, <3>1
    <2> QED
        BY <2>5, <2>6
<1>5. r.thread => /\ t \notin dead
                  /\ ~attached => idb[t] = Blank
                  /\ t \in temporary => t \in ephemeralIds
    <2>1. r.thread /\ t \in temporary => t \in ephemeralIds
        BY BlankIs DEF Apart, View, Persist
    <2> QED
        BY <1>2, <2>1, OnceShown
<1>6. r.reply # None => r.thread
    BY BlankIs DEF View, Persist, NoOrphan
<1>7. r = Blank \/ r.thread
    BY <1>2, <1>6 DEF Chats, Blank
<1>8. \A i \in DOMAIN chain' : chain'[i].name = "create" /\ chain'[i].on = t => r = Blank
    BY <1>1, HeadCall DEF Creating
<1>9. gen'.pc = "finishing" /\ gen'.ahead = 0
          => gen.ahead = 0 /\ (t = gen.on => r.reply # "streaming")
    BY LastWrite
<1>10. Quiet
    BY DEF RunUpdate
<1> HIDE DEF r, w
<1> QED
    BY <1>1, <1>2, <1>4, <1>5, <1>6, <1>7, <1>8, <1>9, <1>10, PutKeeps DEF r

\* Whose reply a write is of: one that is afoot, with its thread.
LEMMA WriteOfReply ==
    ASSUME Inv, Turn, Head(chain).name \in {"append", "put"}, NEW t \in Threads,
           t = Head(chain).on
    PROVE  /\ t = gen.on /\ gen.pc \in Afoot
           /\ View(t) \in Chats /\ View(t).thread /\ View(t) # Blank
           /\ t \in used /\ t \notin dead
           /\ ~attached => idb[t] = Blank
           /\ t \in temporary => t \in ephemeralIds
           /\ \A i \in DOMAIN chain' : chain'[i].name = "create" => chain'[i].on # t
           /\ Head(chain).name = "append" => Head(chain).ephemeral = (t \in ephemeralIds)
           /\ gen'.pc = "finishing" /\ gen'.ahead = 0
                  => Head(chain).name = "put" /\ Head(chain).to = "done"
<1> USE DEF Inv
<1>1. /\ t = gen.on /\ gen.pc \in Afoot
      /\ Head(chain).name = "append" => Head(chain).ephemeral = (t \in ephemeralIds)
    BY HeadCall DEF Writing
<1>2. View(t).thread /\ View(t) \in Chats /\ Shown(t) = View(t)
    BY <1>1, ShownIsView DEF Living
<1>3. t \in temporary => t \in ephemeralIds
    BY <1>2, BlankIs DEF Apart, View, Persist
<1>4. \A i \in DOMAIN chain' : chain'[i].name = "create" => chain'[i].on # t
    BY <1>2, HeadCall, OnceShown
<1>5. gen'.pc = "finishing" /\ gen'.ahead = 0
          => Head(chain).name = "put" /\ Head(chain).to = "done"
    BY LastWrite
<1> QED
    BY <1>1, <1>2, <1>3, <1>4, <1>5, OnceShown

LEMMA RunAppendKeeps ==
    ASSUME Inv, Turn, NEW c, c = Head(chain), c.name = "append", RunAppend(c)
    PROVE  Inv'
<1> USE DEF Inv
<1>1. PICK t \in Threads : t = c.on
    BY HeadCall
<1>2. /\ t = gen.on /\ View(t) \in Chats /\ View(t).thread /\ t \in used /\ t \notin dead
      /\ ~attached => idb[t] = Blank
      /\ t \in temporary => t \in ephemeralIds
      /\ \A i \in DOMAIN chain' : chain'[i].name = "create" => chain'[i].on # t
      /\ c.ephemeral = (t \in ephemeralIds)
      /\ ~(gen'.pc = "finishing" /\ gen'.ahead = 0)
    BY <1>1, WriteOfReply
<1> DEFINE v == <<Reply(t, "streaming")>>
           w == <<Thread(t, TRUE)>>
           b == [u \in Threads |-> View(t)]
           r == [thread |-> TRUE, reply |-> "streaming"]
<1>3. Put(t, r)
    <2>1. v \in Seq(Writes) /\ w \in Seq(Writes) /\ v \o w \in Seq(Writes)
        BY DEF Reply, Thread, Writes, Statuses
    <2>2. \A i \in DOMAIN (v \o w) : (v \o w)[i].of = t
        BY DEF Reply, Thread
    <2>3. Apply(v \o w, t \in ephemeralIds)
        BY <1>1, <1>2, ShownIsView DEF RunAppend
    <2>4. b \in Backends
        BY <1>2 DEF Backends
    <2>5. Applied(b, v \o w)[t] = r
        <3>1. Applied(b, v) = [b EXCEPT ![t].reply = "streaming"]
            BY <2>4, AppliedReply DEF Statuses
        <3>2. Applied(b, v) \in Backends
            BY <2>1, <2>4, AppliedType
        <3>3. Applied(b, v \o w) = [Applied(b, v) EXCEPT ![t].thread = TRUE]
            <4>1. Applied(Applied(b, v), w) = [Applied(b, v) EXCEPT ![t].thread = TRUE]
                <5> HIDE DEF b, v
                <5> QED
                    BY <3>2, AppliedThread
            <4>2. Applied(b, v \o w) = Applied(Applied(b, v), w)
                <5> HIDE DEF b, v, w
                <5> QED
                    BY <2>1, <2>4, AppliedConcat
            <4> QED
                BY <4>1, <4>2
        <3>4. Applied(b, v)[t] = [View(t) EXCEPT !.reply = "streaming"]
            BY <3>1
        <3>5. Applied(b, v \o w)[t] = [Applied(b, v)[t] EXCEPT !.thread = TRUE]
            BY <3>2, <3>3 DEF Backends
        <3>6. View(t).thread = TRUE /\ View(t) \in Chats
            BY <1>2 DEF Chats
        <3>7. Applied(b, v)[t] = [thread |-> TRUE, reply |-> "streaming"]
            BY <3>4, <3>6, ChatWith
        <3> HIDE DEF b, v, w
        <3>8. PICK x \in Chats : x = Applied(b, v)[t]
            BY <3>2 DEF Backends
        <3>9. [x EXCEPT !.thread = TRUE] = [thread |-> TRUE, reply |-> x.reply]
            BY ChatWith
        <3>10. x.reply = "streaming"
            BY <3>7, <3>8
        <3> QED
            BY <3>5, <3>8, <3>9, <3>10
    <2> HIDE DEF v, w
    <2> QED
        BY <2>1, <2>2, <2>3, <2>5, Written
<1>4. r \in Chats /\ r.thread /\ r # Blank
    BY BlankIs DEF Chats, Statuses
<1>5. Quiet
    BY DEF RunAppend
<1> HIDE DEF r
<1> QED
    BY <1>1, <1>2, <1>3, <1>4, <1>5, PutKeeps

LEMMA RunPutKeeps ==
    ASSUME Inv, Turn, NEW c, c = Head(chain), c.name = "put", RunPut(c)
    PROVE  Inv'
<1> USE DEF Inv
<1>1. PICK t \in Threads : t = c.on
    BY HeadCall
<1>2. /\ t = gen.on /\ View(t) \in Chats /\ View(t).thread /\ t \in used /\ t \notin dead
      /\ ~attached => idb[t] = Blank
      /\ t \in temporary => t \in ephemeralIds
      /\ \A i \in DOMAIN chain' : chain'[i].name = "create" => chain'[i].on # t
      /\ gen'.pc = "finishing" /\ gen'.ahead = 0 => c.to = "done"
    BY <1>1, WriteOfReply
<1>3. c.to \in Statuses
    BY HeadCall DEF Calls
<1> DEFINE w == <<Reply(t, c.to)>>
           b == [u \in Threads |-> View(t)]
           r == [thread |-> TRUE, reply |-> c.to]
<1>4. Put(t, r)
    <2>1. w \in Seq(Writes) /\ \A i \in DOMAIN w : w[i].of = t
        BY <1>3 DEF Reply, Writes
    <2>2. Apply(w, t \in ephemeralIds)
        BY <1>1 DEF RunPut
    <2>3. b \in Backends
        BY <1>2 DEF Backends
    <2>4. Applied(b, w)[t] = r
        <3>1. Applied(b, w) = [b EXCEPT ![t].reply = c.to]
            BY <1>3, <2>3, AppliedReply
        <3>2. Applied(b, w)[t] = [View(t) EXCEPT !.reply = c.to]
            BY <3>1
        <3> QED
            BY <1>2, <3>2 DEF Chats
    <2> HIDE DEF w
    <2> QED
        BY <2>1, <2>2, <2>4, Written
<1>5. r \in Chats /\ r.thread /\ r # Blank /\ r.reply = c.to
    BY <1>3, BlankIs DEF Chats
<1>6. Quiet
    BY DEF RunPut
<1> HIDE DEF r
<1> QED
    BY <1>1, <1>2, <1>4, <1>5, <1>6, PutKeeps

LEMMA RunDeleteKeeps ==
    ASSUME Inv, Turn, NEW c, c = Head(chain), c.name = "delete", RunDelete(c)
    PROVE  Inv'
<1> USE DEF Inv
<1>1. PICK t \in Threads : t = c.on /\ t \in used /\ chain[1] = c /\ 1 \in DOMAIN chain
    BY HeadCall
<1>2. /\ UNCHANGED <<mode, open, attached, ready, recovery, pending, status, used, temporary,
                     session>>
      /\ ephemeralIds' = ephemeralIds \ {t} /\ dead' = dead \cup {t} /\ deletion' = NoDeletion
      /\ gen'.on = gen.on /\ gen'.pc = gen.pc
    BY <1>1 DEF RunDelete, Turn
<1>3. View(t) \in Chats /\ \A u \in Threads : Shown(u) = View(u)
    BY ShownIsView
<1>4. Put(t, Blank)
    <2> DEFINE v == <<Thread(t, FALSE)>>
               w == IF View(t).reply # None THEN <<Reply(t, None)>> ELSE <<>>
               b == [u \in Threads |-> View(t)]
               d == Applied(b, v)
    <2>1. /\ v \in Seq(Writes) /\ v \o w \in Seq(Writes)
          /\ \A i \in DOMAIN (v \o w) : (v \o w)[i].of = t
        <3>1. CASE View(t).reply # None
            BY <3>1 DEF Reply, Thread, Writes, Statuses
        <3>2. CASE View(t).reply = None
            BY <3>2 DEF Thread, Writes
        <3> QED
            BY <3>1, <3>2
    <2>2. Apply(v \o w, t \in ephemeralIds)
        <3>1. (IF t \in ephemeralIds THEN eph ELSE Persist)[t] = View(t)
            BY DEF View
        <3> QED
            BY <1>1, <3>1 DEF RunDelete
    <2>3. b \in Backends
        BY <1>3 DEF Backends
    <2>4. d \in Backends /\ d[t] = [View(t) EXCEPT !.thread = FALSE]
        <3>1. d = [b EXCEPT ![t].thread = FALSE]
            BY <2>3, AppliedThread
        <3>2. d \in Backends
            BY <2>1, <2>3, AppliedType
        <3> QED
            BY <3>1, <3>2
    <2>5. d[t] = [thread |-> FALSE, reply |-> View(t).reply]
        BY <1>3, <2>4, ChatWith
    <2>6. Applied(b, v \o w)[t] = Blank
        <3>1. CASE View(t).reply # None
            <4>1. <<Reply(t, None)>> \in Seq(Writes)
                BY DEF Reply, Writes, Statuses
            <4>2. Applied(b, v \o <<Reply(t, None)>>) = Applied(d, <<Reply(t, None)>>)
                <5> HIDE DEF b, v
                <5> QED
                    BY <2>1, <2>3, <4>1, AppliedConcat
            <4>3. Applied(d, <<Reply(t, None)>>) = [d EXCEPT ![t].reply = None]
                <5> HIDE DEF d
                <5> QED
                    BY <2>4, AppliedReply DEF Statuses
            <4>4. [d EXCEPT ![t].reply = None][t] = [d[t] EXCEPT !.reply = None]
                <5> HIDE DEF d
                <5> QED
                    BY <2>4 DEF Backends
            <4>5. [d[t] EXCEPT !.reply = None] = Blank
                <5>1. d[t] \in Chats
                    <6> HIDE DEF d
                    <6> QED
                        BY <2>4 DEF Backends
                <5>2. [d[t] EXCEPT !.reply = None] = [thread |-> d[t].thread, reply |-> None]
                    <6> HIDE DEF d
                    <6> QED
                        BY <5>1, ChatWith
                <5>3. d[t].thread = FALSE
                    BY <2>5
                <5> QED
                    BY <5>2, <5>3 DEF Blank
            <4> QED
                BY <3>1, <4>2, <4>3, <4>4, <4>5
        <3>2. CASE View(t).reply = None
            <4>1. v \o <<>> = v
                OBVIOUS
            <4> QED
                BY <2>5, <3>2, <4>1 DEF Blank
        <3> QED
            BY <3>1, <3>2
    <2> HIDE DEF v, w
    <2> QED
        BY <2>1, <2>2, <2>6, Written
<1>5. /\ \A u \in Threads : View(u)' = IF u = t THEN Blank ELSE View(u)
      /\ \A u \in Threads : Shown(u)' = IF u = t THEN Blank ELSE View(u)
      /\ eph'[t] = Blank
    <2>1. \A u \in Threads : u # t => View(u)' = View(u) /\ Shown(u)' = Shown(u)
        BY <1>2, <1>4 DEF Put, View, Shown, Persist
    <2>2. eph'[t] = Blank
        BY <1>4 DEF Put, Apart
    <2>3. Persist'[t] = Blank
        BY <1>2, <1>4 DEF Put, Persist, Apart
    <2> QED
        BY <1>2, <1>3, <2>1, <2>2, <2>3 DEF View, Shown
<1>6. \A n, u : Called(n, u)' => Called(n, u)
    BY CalledShorter DEF Turn
<1>7. Called("delete", t)
    BY <1>1 DEF Called
<1>8. gen.pc \in Afoot => gen.on # t
    BY <1>7 DEF Living
<1>9. /\ \A i \in DOMAIN chain' : i + 1 \in DOMAIN chain /\ chain'[i] = chain[i + 1] /\ i \in Nat
      /\ chain' \in Seq(Calls)
    BY DEF Turn, Shorter
<1>10. Shape'
    <2>1. TypeOK'
        BY <1>2, <1>4, <1>9 DEF Shape, TypeOK, Put, Turn, NoDeletion, Backends
    <2>2. gen'.pc = "off" => gen' = NoGen
        BY <1>2 DEF Shape, Turn
    <2> QED
        BY <1>2, <1>9, <2>1, <2>2 DEF Shape, NoDeletion
<1>11. Opening'
    BY <1>2, TurnOpening
<1>12. JournalIsMemory'
    BY <1>2, <1>4 DEF JournalIsMemory, Journaling, Put
<1>13. Apart'
    <2>1. \A u \in Threads : Touched(u)' => Touched(u) \/ u = t
        <3> SUFFICES ASSUME NEW u \in Threads, u # t, Touched(u)' PROVE Touched(u)
            OBVIOUS
        <3>1. mem'[u] = mem[u]
            BY <1>4 DEF Put
        <3>2. (\E i \in DOMAIN journal' : journal'[i].of = u)
                  => \E i \in DOMAIN journal : journal[i].of = u
            BY <1>4 DEF Put
        <3>3. (\E i \in DOMAIN chain' : chain'[i].on = u /\ chain'[i].name # "update")
                 => \E i \in DOMAIN chain : chain[i].on = u /\ chain[i].name # "update"
            BY <1>9
        <3> QED
            BY <1>2, <3>1, <3>2, <3>3 DEF Touched, NoDeletion
    <2>2. Touched(t)
        BY <1>1 DEF Touched
    <2>3. \A u \in temporary : mem'[u] = Blank /\ idb'[u] = Blank
        BY <1>4 DEF Put, Apart, Shape, TypeOK
    <2>4. ~attached => \A u \in Threads : Touched(u)' => idb'[u] = Blank
        BY <1>4, <2>1, <2>2 DEF Put, Apart
    <2>5. \A u \in Threads \ ephemeralIds' : eph'[u] = Blank
        BY <1>2, <1>4, <1>5 DEF Put, Apart
    <2> QED
        BY <1>2, <2>3, <2>4, <2>5 DEF Apart
<1>14. Unused'
    <2>1. \A u \in Threads \ used : u # t /\ mem'[u] = mem[u] /\ idb'[u] = idb[u]
        BY <1>1, <1>4 DEF Put
    <2>2. \A u \in Threads \ used : \A i \in DOMAIN chain' : chain'[i].on # u
        BY <1>9 DEF Unused
    <2> QED
        BY <1>2, <2>1, <2>2 DEF Unused, NoDeletion
<1>15. Creating'
    <2> SUFFICES ASSUME NEW i \in DOMAIN chain', NEW u \in Threads, chain'[i].name = "create",
                        chain'[i].on = u
                 PROVE  /\ chain'[i].ephemeral = (u \in ephemeralIds')
                        /\ u \in temporary' => u \in ephemeralIds'
                        /\ View(u)' = Blank /\ u \notin dead' /\ deletion'.on # u
                        /\ ~Called("delete", u)'
                        /\ gen'.on = u => gen'.pc = "get"
                        /\ \A j \in DOMAIN chain' :
                              chain'[j].name = "create" /\ chain'[j].on = u => i = j
        BY DEF Creating
    <2>1. i + 1 \in DOMAIN chain /\ chain[i + 1] = chain'[i]
        BY <1>9
    <2>2. View(u)' = Blank /\ u # t
        BY <1>5, <1>7, <2>1 DEF Creating
    <2>3. \A j \in DOMAIN chain' : chain'[j].name = "create" /\ chain'[j].on = u => i = j
        <3> SUFFICES ASSUME NEW j \in DOMAIN chain', chain'[j].name = "create", chain'[j].on = u
                     PROVE  i = j
            OBVIOUS
        <3>1. i + 1 = j + 1 /\ i \in Nat /\ j \in Nat
            BY <1>9, <2>1 DEF Creating
        <3> QED
            BY <3>1
    <2> QED
        BY <1>2, <1>6, <2>1, <2>2, <2>3 DEF Creating, NoDeletion
<1>16. Living'
    <2>1. CASE gen.pc \in Afoot
        <3>1. PICK g \in Threads : g = gen.on /\ g # t
            BY <1>8, <2>1 DEF Shape, Afoot
        <3>2. View(g)'.thread /\ g \notin dead' /\ ~Called("delete", g)' /\ status[g] # None
            BY <1>2, <1>5, <1>6, <2>1, <3>1 DEF Living
        <3> QED
            BY <1>2, <2>1, <3>1, <3>2 DEF Living, Afoot, View, Called, Persist, NoDeletion
    <2>2. CASE gen.pc = "get"
        BY <1>2, <2>2, TurnGet DEF Living, Afoot
    <2>3. CASE gen.pc \notin Afoot /\ gen.pc # "get"
        BY <1>2, <2>3 DEF Living, Afoot
    <2> QED
        BY <2>1, <2>2, <2>3
<1>17. Dying'
    <2>1. \A u \in dead' : u \notin ephemeralIds' /\ ~View(u)'.thread
        BY <1>2, <1>5, BlankIs DEF Dying, Shape, TypeOK
    <2> QED
        BY <1>2, <2>1 DEF Dying, NoDeletion
<1>18. Writing'
    BY <1>2, <1>8, TurnWriting
<1>19. NoOrphan'
    BY <1>4, BlankIs DEF NoOrphan, Put
<1>20. NoGhostReply'
    <2>1. Recovered' => Recovered
        BY <1>1, <1>2 DEF Recovered, Turn, Shorter
    <2> QED
        BY <1>2, <1>3, <1>5, <2>1, BlankIs DEF NoGhostReply
<1>21. Settled'
    <2> SUFFICES ASSUME gen'.pc = "finishing", gen'.ahead = 0
                 PROVE  (View(gen.on)').reply # "streaming"
        BY <1>2 DEF Settled
    <2>1. PICK g \in Threads : g = gen.on /\ g # t
        BY <1>2, <1>8 DEF Shape, Afoot
    <2>2. View(g)'.reply # "streaming"
        BY <1>1, <1>5, <2>1, LastWrite
    <2> QED
        BY <1>2, <2>1, <2>2 DEF View, Persist
<1> QED
    BY <1>10, <1>11, <1>12, <1>13, <1>14, <1>15, <1>16, <1>17, <1>18, <1>19, <1>20, <1>21

-----------------------------------------------------------------------------
(* The turns that are about every thread. *)

CutOff(x) == IF x.reply = "streaming" THEN [x EXCEPT !.reply = "interrupted"] ELSE x

\* What the recovery makes of a chat.
LEMMA CutOffIs ==
    ASSUME NEW x \in Chats
    PROVE  /\ CutOff(x) \in Chats /\ CutOff(x).thread = x.thread
           /\ CutOff(x).reply # "streaming" /\ (CutOff(x).reply # None <=> x.reply # None)
           /\ CutOff(x) = Blank <=> x = Blank
<1>1. CASE x.reply = "streaming"
    <2>1. CutOff(x) = [thread |-> x.thread, reply |-> "interrupted"]
        BY <1>1, ChatWith DEF CutOff
    <2> QED
        BY <1>1, <2>1, BlankIs DEF Chats, Statuses
<1>2. CASE x.reply # "streaming"
    BY <1>2, BlankIs DEF CutOff
<1> QED
    BY <1>1, <1>2

\* A chain whose head is nobody's keeps what is known of the threads' calls.
LEMMA TurnOfNobody ==
    ASSUME Inv, Turn, Head(chain).name \in {"recover", "attach"}
    PROVE  /\ \A n, u : Called(n, u)' => Called(n, u)
           /\ \A u : Called("delete", u) => Called("delete", u)'
           /\ \A i \in DOMAIN chain' :
                  i + 1 \in DOMAIN chain /\ chain'[i] = chain[i + 1] /\ i \in Nat
           /\ chain' \in Seq(Calls)
           /\ gen'.pc = "finishing" /\ gen'.ahead = 0 => View(gen.on).reply # "streaming"
<1>1. \A n, u : Called(n, u)' => Called(n, u)
    BY CalledShorter DEF Turn
<1>2. \A u : Called("delete", u) => Called("delete", u)'
    BY CalledShorter DEF Turn
<1>3. /\ \A i \in DOMAIN chain' : i + 1 \in DOMAIN chain /\ chain'[i] = chain[i + 1] /\ i \in Nat
      /\ chain' \in Seq(Calls)
    BY DEF Turn, Shorter
<1>4. gen'.pc = "finishing" /\ gen'.ahead = 0 => View(gen.on).reply # "streaming"
    BY LastWrite
<1> QED
    BY <1>1, <1>2, <1>3, <1>4

\* Such a turn keeps the parts that are about the threads' calls, if a thread that is blank
\* stays blank, one that is there stays there and one that is deleted stays away.
LEMMA TurnOfNobodyKeeps ==
    ASSUME Inv, Turn, Head(chain).name \in {"recover", "attach"},
           UNCHANGED <<ephemeralIds, dead, deletion>>,
           \A u \in Threads : Called("create", u) => View(u)' = Blank,
           \A u \in Threads : View(u).thread => View(u)'.thread,
           \A u \in dead : ~View(u)'.thread,
           \A u \in Threads : gen.on = u /\ gen.pc \in Afoot =>
              (View(u)'.reply = "streaming" => View(u).reply = "streaming")
    PROVE  Creating' /\ Living' /\ Dying' /\ Writing' /\ Settled'
<1> USE DEF Inv
<1>1. gen'.on = gen.on /\ gen'.pc = gen.pc /\ UNCHANGED <<pending, status, used, temporary,
                                                          session>>
    BY DEF Turn
<1>2. Creating'
    <2> SUFFICES ASSUME NEW i \in DOMAIN chain', NEW u \in Threads, chain'[i].name = "create",
                        chain'[i].on = u
                 PROVE  /\ chain'[i].ephemeral = (u \in ephemeralIds')
                        /\ u \in temporary' => u \in ephemeralIds'
                        /\ View(u)' = Blank /\ u \notin dead' /\ deletion'.on # u
                        /\ ~Called("delete", u)'
                        /\ gen'.on = u => gen'.pc = "get"
                        /\ \A j \in DOMAIN chain' :
                              chain'[j].name = "create" /\ chain'[j].on = u => i = j
        BY DEF Creating
    <2>1. i + 1 \in DOMAIN chain /\ chain[i + 1] = chain'[i]
        BY TurnOfNobody
    <2>2. View(u)' = Blank
        BY <2>1 DEF Called
    <2>3. \A j \in DOMAIN chain' : chain'[j].name = "create" /\ chain'[j].on = u => i = j
        <3> SUFFICES ASSUME NEW j \in DOMAIN chain', chain'[j].name = "create", chain'[j].on = u
                     PROVE  i = j
            OBVIOUS
        <3>1. i + 1 = j + 1 /\ i \in Nat /\ j \in Nat
            BY TurnOfNobody, <2>1 DEF Creating
        <3> QED
            BY <3>1
    <2> QED
        BY <1>1, TurnOfNobody, <2>1, <2>2, <2>3 DEF Creating
<1>3. Living'
    <2>1. CASE gen.pc \in Afoot
        <3>1. PICK g \in Threads : g = gen.on
            BY <2>1 DEF Shape, Afoot
        <3>2. View(g)'.thread /\ g \notin dead /\ ~Called("delete", g)' /\ status[g] # None
            BY <2>1, <3>1, TurnOfNobody DEF Living
        <3> QED
            BY <1>1, <2>1, <3>1, <3>2 DEF Living, Afoot, View, Called, Persist
    <2>2. CASE gen.pc = "get"
        BY <1>1, <2>2, TurnGet DEF Living, Afoot
    <2>3. CASE gen.pc \notin Afoot /\ gen.pc # "get"
        BY <1>1, <2>3 DEF Living, Afoot
    <2> QED
        BY <2>1, <2>2, <2>3
<1>4. Dying'
    <2>1. \A u \in dead : u \notin ephemeralIds /\ ~View(u)'.thread
        BY DEF Dying
    <2>2. deletion.pc = "called" => Called("delete", deletion.on)'
        <3>1. \A u : Called("delete", u)
                  => \E i \in DOMAIN chain' : chain'[i].name = "delete" /\ chain'[i].on = u
            BY TurnOfNobody DEF Called
        <3> QED
            BY <3>1 DEF Dying, Called
    <2> QED
        BY <1>1, <2>1, <2>2 DEF Dying
<1>5. Writing'
    BY TurnWriting
<1>6. Settled'
    <2> SUFFICES ASSUME gen'.pc = "finishing", gen'.ahead = 0
                 PROVE  (View(gen.on)').reply # "streaming"
        BY <1>1 DEF Settled
    <2>1. PICK g \in Threads : g = gen.on
        BY <1>1 DEF Shape
    <2>2. View(g)'.reply # "streaming"
        BY <1>1, <2>1, TurnOfNobody DEF Afoot
    <2> QED
        BY <1>1, <2>1, <2>2 DEF View, Persist
<1> QED
    BY <1>2, <1>3, <1>4, <1>5, <1>6

LEMMA RunRecoverKeeps ==
    ASSUME Inv, Turn, NEW c, c = Head(chain), c.name = "recover", RunRecover(c)
    PROVE  Inv'
<1> USE DEF Inv
<1> DEFINE w == Interrupted(Persist)
<1>1. /\ UNCHANGED <<mode, open, attached, ephemeralIds, ready, recovery, dead, deletion,
                     pending, status, used, temporary, session>>
      /\ gen'.on = gen.on /\ gen'.pc = gen.pc
    BY DEF RunRecover, Quiet, Turn
<1>2. /\ eph \in Backends /\ mem \in Backends /\ idb \in Backends /\ Persist \in Backends
      /\ Nothing \in Backends /\ journal \in Seq(Writes)
    BY BlankIs DEF Shape, TypeOK, Backends, Persist, Nothing
<1>3. ASSUME NEW b \in Backends
      PROVE  /\ Applied(b, Interrupted(b)) \in Backends
             /\ \A u \in Threads : Applied(b, Interrupted(b))[u] = CutOff(b[u])
    <2>1. Applied(b, Interrupted(b)) \in Backends
        BY AppliedType, AppliedInterrupted
    <2> QED
        BY <2>1, AppliedInterrupted DEF CutOff
<1>4. w \in Seq(Writes) /\ \A i \in DOMAIN w : Persist[w[i].of].reply = "streaming"
    BY <1>2, AppliedInterrupted
<1>5. eph' \in Backends /\ \A u \in Threads : eph'[u] = CutOff(eph[u])
    BY <1>2, <1>3 DEF RunRecover
<1>6. /\ idb' = IF attached THEN Applied(idb, w) ELSE idb
      /\ mem' = IF attached THEN mem ELSE Applied(mem, w)
      /\ journal' = IF Journaling THEN journal \o w ELSE journal
    BY DEF RunRecover, Persisted
<1>7. /\ idb' \in Backends /\ mem' \in Backends
      /\ \A u \in Threads : idb'[u] = IF attached THEN CutOff(idb[u]) ELSE idb[u]
      /\ \A u \in Threads : mem'[u] = IF attached THEN mem[u] ELSE CutOff(mem[u])
    BY <1>2, <1>3, <1>6 DEF Persist
<1>8. \A u \in Threads : eph[u] \in Chats /\ mem[u] \in Chats /\ idb[u] \in Chats
    BY <1>2 DEF Backends
<1>9. \A u \in Threads : View(u)' = CutOff(View(u)) /\ Shown(u)' = CutOff(Shown(u))
    <2>1. \A u \in Threads : eph'[u] = Blank <=> eph[u] = Blank
        BY <1>5, <1>8, CutOffIs
    <2>2. \A u \in Threads : Persist'[u] = CutOff(Persist[u])
        BY <1>1, <1>7 DEF Persist
    <2> QED
        BY <1>1, <1>5, <2>1, <2>2 DEF View, Shown
<1>10. \A u \in Threads : View(u) \in Chats /\ Shown(u) = View(u)
    BY ShownIsView
<1> HIDE DEF w
<1>11. /\ journal' \in Seq(Writes)
       /\ Journaling => Applied(Nothing, journal') = mem'
       /\ ~attached => \A i \in DOMAIN journal' :
             \/ \E j \in DOMAIN journal : journal[j].of = journal'[i].of
             \/ mem[journal'[i].of].reply = "streaming"
    <2>1. CASE Journaling
        <3>1. /\ journal \o w \in Seq(Writes)
              /\ DOMAIN (journal \o w) = 1 .. (Len(journal) + Len(w))
              /\ \A i \in 1 .. (Len(journal) + Len(w)) :
                    (journal \o w)[i] = IF i <= Len(journal) THEN journal[i]
                                         ELSE w[i - Len(journal)]
              /\ Len(journal) \in Nat /\ Len(w) \in Nat
              /\ DOMAIN journal = 1 .. Len(journal) /\ DOMAIN w = 1 .. Len(w)
            BY <1>2, <1>4
        <3>2. ~attached /\ Persist = mem /\ journal' = journal \o w /\ mem' = Applied(mem, w)
            BY <1>6, <2>1 DEF Journaling, Persist
        <3>3. Applied(Nothing, journal \o w) = mem'
            BY <1>2, <1>4, <2>1, <3>2, AppliedConcat DEF JournalIsMemory
        <3>4. \A i \in DOMAIN journal' :
                 \/ \E j \in DOMAIN journal : journal[j].of = journal'[i].of
                 \/ mem[journal'[i].of].reply = "streaming"
            BY <1>4, <3>1, <3>2
        <3> QED
            BY <3>1, <3>2, <3>3, <3>4
    <2>2. CASE ~Journaling
        BY <1>2, <1>6, <2>2
    <2> QED
        BY <2>1, <2>2
<1>12. Shape'
    <2>1. TypeOK'
        BY <1>1, <1>5, <1>7, <1>11, TurnOfNobody DEF Shape, TypeOK, Turn, Backends
    <2>2. gen'.pc = "off" => gen' = NoGen
        BY <1>1 DEF Shape, Turn
    <2>3. \A i \in DOMAIN chain' : chain'[i].name \notin {"recover", "attach"}
              => chain'[i].on \in Threads
        BY TurnOfNobody DEF Shape
    <2> QED
        BY <1>1, <2>1, <2>2, <2>3 DEF Shape
<1>13. Opening'
    BY <1>1, TurnOpening
<1>14. JournalIsMemory'
    BY <1>1, <1>11 DEF JournalIsMemory, Journaling
<1>15. Apart'
    <2>1. ASSUME NEW u \in Threads, ~attached, Touched(u)' PROVE Touched(u)
        <3>1. mem'[u] # Blank => mem[u] # Blank
            BY <1>7, <1>8, <2>1, CutOffIs
        <3>2. (\E i \in DOMAIN journal' : journal'[i].of = u)
                => mem[u] # Blank \/ \E i \in DOMAIN journal : journal[i].of = u
            BY <1>11, <2>1, BlankIs
        <3>3. (\E i \in DOMAIN chain' : chain'[i].on = u /\ chain'[i].name # "update")
                 => \E i \in DOMAIN chain : chain[i].on = u /\ chain[i].name # "update"
            BY TurnOfNobody
        <3> QED
            BY <1>1, <2>1, <3>1, <3>2, <3>3 DEF Touched
    <2>2. CutOff(Blank) = Blank
        BY BlankIs DEF CutOff
    <2>3. \A u \in Threads \ ephemeralIds : eph'[u] = Blank
        BY <1>5, <2>2 DEF Apart
    <2>4. \A u \in temporary : mem'[u] = Blank /\ idb'[u] = Blank
        BY <1>7, <2>2 DEF Apart, Shape, TypeOK
    <2>5. ~attached => \A u \in Threads : Touched(u)' => idb'[u] = Blank
        BY <1>7, <2>1 DEF Apart
    <2> QED
        BY <1>1, <2>3, <2>4, <2>5 DEF Apart
<1>16. Unused'
    <2>1. CutOff(Blank) = Blank
        BY BlankIs DEF CutOff
    <2>2. \A u \in Threads \ used : mem'[u] = Blank /\ idb'[u] = Blank
        BY <1>7, <2>1 DEF Unused
    <2>3. \A u \in Threads \ used : \A i \in DOMAIN chain' : chain'[i].on # u
        BY TurnOfNobody DEF Unused
    <2> QED
        BY <1>1, <2>2, <2>3 DEF Unused
<1>17. Creating' /\ Living' /\ Dying' /\ Writing' /\ Settled'
    <2>1. \A u \in Threads : Called("create", u) => View(u)' = Blank
        BY <1>9, <1>10, CutOffIs DEF Creating, Called
    <2>2. \A u \in Threads : /\ View(u)'.thread = View(u).thread
                             /\ View(u)'.reply # "streaming"
        BY <1>9, <1>10, CutOffIs
    <2>3. \A u \in dead : ~View(u)'.thread
        BY <2>2 DEF Dying, Shape, TypeOK
    <2> QED
        BY <1>1, <2>1, <2>2, <2>3, TurnOfNobodyKeeps
<1>18. NoOrphan'
    BY <1>5, <1>7, <1>8, CutOffIs DEF NoOrphan
<1>19. NoGhostReply'
    BY <1>9, <1>10, CutOffIs DEF NoGhostReply
<1> QED
    BY <1>12, <1>13, <1>14, <1>15, <1>16, <1>17, <1>18, <1>19

\* What the late replay makes of a thread: what memory holds of it, if the journal is about it,
\* and what the database held otherwise.
LEMMA Replayed ==
    ASSUME Inv, ~attached, Journaling, NEW u \in Threads
    PROVE  /\ Applied(idb, journal)[u] \in Chats
           /\ \/ Applied(idb, journal)[u] = mem[u] /\ idb[u] = Blank
              \/ Applied(idb, journal)[u] = idb[u] /\ mem[u] = Blank
<1> USE DEF Inv
<1>1. idb \in Backends /\ Nothing \in Backends /\ journal \in Seq(Writes) /\ Nothing[u] = Blank
    BY BlankIs DEF Shape, TypeOK, Backends, Nothing
<1>2. Applied(idb, journal)[u] \in Chats
    BY <1>1, AppliedType DEF Backends
<1>3. mem[u] = Applied(Nothing, journal)[u]
    BY DEF JournalIsMemory
<1>4. CASE \E i \in DOMAIN journal : journal[i].of = u
    <2>1. idb[u] = Blank
        BY <1>4 DEF Apart, Touched
    <2> QED
        BY <1>1, <1>2, <1>3, <2>1, AppliedAgrees
<1>5. CASE \A i \in DOMAIN journal : journal[i].of # u
    BY <1>1, <1>2, <1>3, <1>5, AppliedUntouched
<1> QED
    BY <1>4, <1>5

LEMMA RunAttachKeeps ==
    ASSUME Inv, Turn, NEW c, c = Head(chain), c.name = "attach", RunAttach(c)
    PROVE  Inv'
<1> USE DEF Inv
<1>1. /\ UNCHANGED <<open, mem, eph, ephemeralIds, dead, deletion, pending, status, used,
                     temporary, session>>
      /\ gen'.on = gen.on /\ gen'.pc = gen.pc /\ journal' = <<>> /\ ready' = TRUE
    BY DEF RunAttach, Turn
<1>2. /\ open = "open" /\ ~attached /\ mode \in {"pending", "memory"} /\ Journaling
      /\ ready => c.late
      /\ \A j \in DOMAIN chain' : chain'[j].name # "attach"
    <2>1. chain[1] = c /\ 1 \in DOMAIN chain
        BY HeadCall
    <2> QED
        BY <2>1, HeadCall DEF Opening, Journaling
<1>3. eph \in Backends /\ mem \in Backends /\ idb \in Backends /\ journal \in Seq(Writes)
    BY DEF Shape, TypeOK, Backends
<1>4. \A u \in Threads : View(u) \in Chats /\ Shown(u) = View(u)
    BY ShownIsView
<1>5. gen'.pc = "off" => gen' = NoGen
    BY <1>1 DEF Shape, Turn
<1>6. \A i \in DOMAIN chain' : chain'[i].name \notin {"recover", "attach"}
          => chain'[i].on \in Threads
    BY TurnOfNobody DEF Shape
<1>7. \A u \in Threads \ used : \A i \in DOMAIN chain' : chain'[i].on # u
    BY TurnOfNobody DEF Unused
<1>8. CASE idb' = Applied(idb, journal) /\ attached' = TRUE /\ mode' = "idb"
           /\ recovery' = (recovery \/ ~ready \/ c.late)
    <2>1. /\ idb' \in Backends
          /\ \A u \in Threads : \/ idb'[u] = mem[u] /\ idb[u] = Blank
                                \/ idb'[u] = idb[u] /\ mem[u] = Blank
        BY <1>2, <1>3, <1>8, AppliedType, Replayed
    <2>2. \A u \in Threads : View(u) = (IF u \in ephemeralIds THEN eph[u] ELSE mem[u])
                             /\ View(u)' = (IF u \in ephemeralIds THEN eph[u] ELSE idb'[u])
        BY <1>1, <1>2, <1>8 DEF View, Persist
    <2>3. TypeOK'
        BY <1>1, <1>3, <1>8, <2>1, TurnOfNobody DEF Shape, TypeOK, Turn, Backends
    <2>4. Shape'
        BY <1>1, <1>5, <1>6, <2>3 DEF Shape
    <2>5. Opening'
        BY <1>1, <1>2, <1>8 DEF Opening
    <2>6. JournalIsMemory'
        BY <1>8 DEF JournalIsMemory, Journaling
    <2>7. Apart'
        BY <1>1, <1>8, <2>1 DEF Apart, Shape, TypeOK
    <2>8. Unused'
        BY <1>1, <1>7, <2>1 DEF Unused
    <2>9. Creating' /\ Living' /\ Dying' /\ Writing' /\ Settled'
        <3>1. \A u \in Threads : Called("create", u) => View(u)' = Blank
            <4> SUFFICES ASSUME NEW u \in Threads, Called("create", u) PROVE View(u)' = Blank
                OBVIOUS
            <4>1. View(u) = Blank /\ idb[u] = Blank
                BY <1>2 DEF Creating, Called, Apart, Touched
            <4> QED
                BY <2>1, <2>2, <4>1
        <3>2. \A u \in Threads : View(u).thread => View(u)' = View(u)
            BY <2>1, <2>2, BlankIs
        <3>3. \A u \in dead : ~View(u)'.thread
            <4> SUFFICES ASSUME NEW u \in dead PROVE ~View(u)'.thread
                OBVIOUS
            <4>1. u \in Threads /\ ~View(u).thread /\ idb[u] = Blank
                BY <1>2 DEF Dying, Apart, Touched, Shape, TypeOK
            <4> QED
                BY <2>1, <2>2, <4>1, BlankIs
        <3>4. \A u \in Threads : gen.on = u /\ gen.pc \in Afoot =>
                 (View(u)'.reply = "streaming" => View(u).reply = "streaming")
            BY <3>2 DEF Living
        <3> QED
            BY <1>1, <3>1, <3>2, <3>3, <3>4, TurnOfNobodyKeeps
    <2>10. NoOrphan'
        BY <1>1, <2>1, BlankIs DEF NoOrphan
    <2>11. NoGhostReply'
        BY <1>2, <1>8, TurnOfNobody DEF NoGhostReply, Recovered
    <2> QED
        BY <2>4, <2>5, <2>6, <2>7, <2>8, <2>9, <2>10, <2>11
<1>9. CASE /\ mode' = "memory-final" /\ recovery' = (recovery \/ ~ready)
           /\ UNCHANGED <<idb, attached>>
    <2>1. \A u \in Threads : View(u)' = View(u) /\ Shown(u)' = Shown(u)
        BY <1>1, <1>9 DEF View, Shown, Persist
    <2>2. TypeOK'
        BY <1>1, <1>9, TurnOfNobody DEF Shape, TypeOK, Turn
    <2>3. Shape'
        BY <1>1, <1>5, <1>6, <2>2 DEF Shape
    <2>4. Opening'
        BY <1>1, <1>2, <1>9 DEF Opening
    <2>5. JournalIsMemory'
        BY <1>9 DEF JournalIsMemory, Journaling
    <2>6. Apart'
        <3>1. ASSUME NEW u \in Threads, Touched(u)' PROVE Touched(u)
            <4>1. (\E i \in DOMAIN chain' : chain'[i].on = u /\ chain'[i].name # "update")
                     => \E i \in DOMAIN chain : chain[i].on = u /\ chain[i].name # "update"
                BY TurnOfNobody
            <4> QED
                BY <1>1, <3>1, <4>1 DEF Touched
        <3> QED
            BY <1>1, <1>9, <3>1 DEF Apart
    <2>7. Unused'
        BY <1>1, <1>7, <1>9 DEF Unused
    <2>8. Creating' /\ Living' /\ Dying' /\ Writing' /\ Settled'
        <3>1. \A u \in Threads : Called("create", u) => View(u)' = Blank
            BY <2>1 DEF Creating, Called
        <3>2. \A u \in dead : ~View(u)'.thread
            BY <2>1 DEF Dying, Shape, TypeOK
        <3> QED
            BY <1>1, <2>1, <3>1, <3>2, TurnOfNobodyKeeps
    <2>9. NoOrphan'
        BY <1>1, <1>9 DEF NoOrphan
    <2>10. NoGhostReply'
        <3>1. Recovered' => Recovered
            BY <1>1, <1>9 DEF Recovered, Turn, Shorter
        <3> QED
            BY <1>1, <2>1, <3>1 DEF NoGhostReply
    <2> QED
        BY <2>3, <2>4, <2>5, <2>6, <2>7, <2>8, <2>9, <2>10
<1> QED
    BY <1>8, <1>9 DEF RunAttach

\* Any turn.
LEMMA RunKeeps == ASSUME Inv, Run PROVE Inv'
<1> DEFINE c == Head(chain)
<1>1. Turn /\ c \in Calls
    BY TurnTaken
<1>2. c.name \in {"create", "append", "update", "put", "delete", "recover", "attach"}
    BY <1>1 DEF Calls
<1>3. /\ c.name = "create" => RunCreate(c)
      /\ c.name = "update" => RunUpdate(c)
      /\ c.name = "append" => RunAppend(c)
      /\ c.name = "put" => RunPut(c)
      /\ c.name = "delete" => RunDelete(c)
      /\ c.name = "recover" => RunRecover(c)
      /\ c.name = "attach" => RunAttach(c)
    BY DEF Run
<1> HIDE DEF c
<1>4. c = Head(chain)
    BY DEF c
<1> QED
    BY <1>1, <1>2, <1>3, <1>4, RunCreateKeeps, RunUpdateKeeps, RunAppendKeeps, RunPutKeeps,
       RunDeleteKeeps, RunRecoverKeeps, RunAttachKeeps

LEMMA InitHolds == ASSUME Init PROVE Inv
<1> USE DEF Init
<1>1. Nothing \in Backends /\ \A t \in Threads : Nothing[t] = Blank
    BY BlankIs DEF Nothing, Backends
<1>2. DOMAIN chain = {} /\ DOMAIN journal = {} /\ chain \in Seq(Calls) /\ journal \in Seq(Writes)
    OBVIOUS
<1>3. None \notin Threads /\ MaxSessions \in Nat /\ 1 <= MaxSessions
    OBVIOUS
<1>4. Shape
    <2>1. gen = NoGen /\ deletion = NoDeletion /\ session \in 1 .. MaxSessions
        BY <1>3
    <2>2. /\ NoGen \in [on : Threads \cup {None}, ahead : Nat,
                        pc : {"off", "get", "building", "streaming", "ending", "finishing"}]
          /\ NoDeletion \in [on : Threads \cup {None}, pc : {"off", "waits", "called"}]
          /\ NoGen.pc = "off" /\ NoDeletion.pc = "off"
        BY DEF NoGen, NoDeletion
    <2>3. status \in [Threads -> Statuses]
        BY DEF Statuses
    <2>4. TypeOK
        BY <1>1, <1>2, <2>1, <2>2, <2>3 DEF TypeOK, Backends
    <2> QED
        BY <1>2, <2>1, <2>2, <2>4 DEF Shape
<1>5. Opening
    BY <1>2 DEF Opening
<1>6. JournalIsMemory
    BY <1>1, AppliedNone DEF JournalIsMemory
<1>7. Apart
    BY <1>1 DEF Apart
<1>8. Unused
    BY <1>1, <1>2, <1>3 DEF Unused, NoGen, NoDeletion
<1>9. Creating
    BY <1>2 DEF Creating
<1>10. Living /\ Dying /\ Settled
    BY DEF Living, Dying, Settled, NoGen, NoDeletion, Afoot
<1>11. Writing
    BY <1>2 DEF Writing, NoGen
<1>12. NoOrphan
    BY <1>1, BlankIs DEF NoOrphan
<1>13. NoGhostReply
    BY DEF NoGhostReply, Recovered
<1> QED
    BY <1>4, <1>5, <1>6, <1>7, <1>8, <1>9, <1>10, <1>11, <1>12, <1>13 DEF Inv

\* Nothing happens.
LEMMA StandingStill == ASSUME Inv, UNCHANGED vars PROVE Inv'
<1> USE DEF Inv, vars, store, window
<1>1. Shape' /\ Opening' /\ JournalIsMemory'
    BY DEF Shape, TypeOK, Opening, JournalIsMemory, Journaling
<1>2. Apart' /\ Unused'
    BY DEF Apart, Touched, Unused
<1>3. Creating' /\ Living' /\ Dying' /\ Writing' /\ Settled'
    BY DEF Creating, Called, View, Persist, Living, Afoot, Dying, Writing, Settled
<1>4. NoOrphan' /\ NoGhostReply'
    BY DEF NoOrphan, NoGhostReply, Recovered, Shown, Persist
<1> QED
    BY <1>1, <1>2, <1>3, <1>4

LEMMA StepKeeps == ASSUME ~DeleteUnseen, Inv, [Next]_vars PROVE Inv'
<1>1. ASSUME Reader PROVE Inv'
    BY <1>1, CreateThreadKeeps, UpdateThreadKeeps, AskGenerateKeeps, AskDeleteKeeps,
       CloseWindowKeeps DEF Reader
<1>2. ASSUME System PROVE Inv'
    BY <1>2, RunKeeps, OpenFailsKeeps, OpenSucceedsKeeps, TimeoutKeeps, RecoverKeeps,
       AppendReplyKeeps, StartGenerationKeeps, CheckpointKeeps, StreamEndsKeeps, FinalizeKeeps,
       ReleaseKeeps, DeleteGoesOnKeeps, CheckpointFiresKeeps DEF System
<1> QED
    BY <1>1, <1>2, StandingStill DEF Next

LEMMA InvHolds == ASSUME ~DeleteUnseen PROVE Spec => []Inv
<1>1. Init => Inv
    BY InitHolds
<1>2. Inv /\ [Next]_vars => Inv'
    BY StepKeeps
<1> QED
    BY <1>1, <1>2, PTL DEF Spec

-----------------------------------------------------------------------------
(* What the store promises. *)

\* Most of what happens is a write of the promise: where the store keeps, what is shown is what
\* is kept, and where it does not, the database is left alone.
LEMMA WriteStep ==
    ASSUME Inv, Inv', UNCHANGED <<attached, temporary>>, ~attached => idb' = idb
    PROVE  Kept!Next
<1> USE DEF Inv, Shape, TypeOK
<1>1. \A t \in Threads : Shown(t)' \in Chats
    BY DEF Shown, Persist
<1>2. ASSUME NEW t \in Threads
      PROVE  idb'[t] = IF attached /\ t \notin temporary THEN Shown(t)' ELSE idb[t]
    <2>1. CASE attached /\ t \notin temporary
        BY <2>1 DEF Apart, Shown, Persist
    <2>2. CASE t \in temporary
        BY <2>2 DEF Apart
    <2>3. CASE ~attached
        BY <2>3
    <2> QED
        BY <2>1, <2>2, <2>3
<1>3. idb' \in [Threads -> Chats]
    OBVIOUS
<1>4. idb' = [t \in Threads |-> IF attached /\ t \notin temporary THEN Shown(t)' ELSE idb[t]]
    BY <1>2, <1>3
<1>5. Kept!Write
    BY <1>1, <1>4 DEF Kept!Write
<1> QED
    BY <1>5 DEF Kept!Next

\* A temporary chat begins.
LEMMA TemporaryStep ==
    ASSUME Inv, NEW t \in Threads, NEW e \in BOOLEAN, CreateThread(t, e), Inv'
    PROVE  Kept!Next
<1>1. UNCHANGED <<attached, mem, eph, idb>> /\ t \notin used
    BY DEF CreateThread
<1>2. CASE ~e
    BY <1>1, <1>2, WriteStep DEF CreateThread
<1>3. CASE e
    <2>1. eph[t] = Blank /\ mem[t] = Blank /\ idb[t] = Blank
        BY <1>1 DEF Inv, Unused, Apart, Shape, TypeOK
    <2>2. Shown(t) = Blank
        BY <2>1 DEF Shown, Persist
    <2>3. \A u \in Threads : Shown(u)' = Shown(u)
        BY <1>1 DEF Shown, Persist
    <2>4. Kept!Temporary(t)
        BY <1>1, <1>3, <2>1, <2>2, <2>3 DEF CreateThread, Kept!Temporary
    <2> QED
        BY <2>4 DEF Kept!Next
<1> QED
    BY <1>2, <1>3

\* The window closes.
LEMMA CloseStep == ASSUME CloseWindow PROVE Kept!Next
<1>1. \A t \in Threads : Shown(t)' = Blank
    BY DEF CloseWindow, Shown, Persist, Nothing
<1>2. Kept!Close
    BY <1>1 DEF CloseWindow, Kept!Close, Kept!Nothing
<1> QED
    BY <1>2 DEF Kept!Next

\* The database is there: each thread is the journal's, or as it was.
LEMMA AttachStep ==
    ASSUME Inv, Inv', Turn, NEW c, c = Head(chain), c.name = "attach", RunAttach(c)
    PROVE  Kept!Next
<1> USE DEF Inv
<1>1. ~attached /\ Journaling
    <2>1. chain[1] = c /\ 1 \in DOMAIN chain
        BY HeadCall
    <2> QED
        BY <2>1, HeadCall DEF Opening, Journaling
<1>2. temporary' = temporary /\ eph' = eph
    BY DEF RunAttach, Turn
<1>3. CASE UNCHANGED <<idb, attached>>
    BY <1>2, <1>3, WriteStep
<1>4. CASE idb' = Applied(idb, journal) /\ attached' = TRUE
    <2>1. ASSUME NEW t \in Threads
          PROVE  /\ idb'[t] = IF t \in temporary \/ Shown(t) = Blank THEN idb[t] ELSE Shown(t)
                 /\ Shown(t)' = IF t \in temporary THEN Shown(t) ELSE idb'[t]
        <3>1. \/ idb'[t] = mem[t] /\ idb[t] = Blank
              \/ idb'[t] = idb[t] /\ mem[t] = Blank
            BY <1>1, <1>4, Replayed
        <3>2. CASE t \in temporary
            BY <1>1, <1>2, <1>4, <3>1, <3>2 DEF Apart, Shown, Persist
        <3>3. CASE t \notin temporary
            <4>1. eph[t] = Blank
                BY <3>3 DEF Apart
            <4>2. Shown(t) = mem[t] /\ Shown(t)' = idb'[t]
                BY <1>1, <1>2, <1>4, <4>1 DEF Shown, Persist
            <4> QED
                BY <3>1, <3>3, <4>2
        <3> QED
            BY <3>2, <3>3
    <2>2. idb' \in [Threads -> Chats]
        BY DEF Shape, TypeOK
    <2>3. /\ idb' = [t \in Threads |->
                       IF t \in temporary \/ Shown(t) = Blank THEN idb[t] ELSE Shown(t)]
          /\ [t \in Threads |-> Shown(t)'] =
                [t \in Threads |-> IF t \in temporary THEN Shown(t) ELSE idb'[t]]
        BY <2>1, <2>2
    <2>4. Kept!Keep
        BY <1>1, <1>2, <1>4, <2>3 DEF Kept!Keep
    <2> QED
        BY <2>4 DEF Kept!Next
<1> QED
    BY <1>3, <1>4 DEF RunAttach

\* Every other step writes into the backend in use.
LEMMA RunStep == ASSUME Inv, Inv', Run PROVE Kept!Next
<1> DEFINE c == Head(chain)
<1>1. Turn /\ c \in Calls
    BY TurnTaken
<1>2. c.name \in {"create", "append", "update", "put", "delete", "recover", "attach"}
    BY <1>1 DEF Calls
<1>3. CASE c.name = "attach"
    <2>1. RunAttach(c)
        BY <1>3 DEF Run
    <2> HIDE DEF c
    <2>2. c = Head(chain)
        BY DEF c
    <2> QED
        BY <1>1, <1>3, <2>1, <2>2, AttachStep
<1>4. CASE c.name # "attach"
    <2>1. /\ attached' = attached /\ temporary' = temporary
          /\ ~attached => idb' = idb
        BY <1>2, <1>4 DEF Run, RunCreate, RunUpdate, RunAppend, RunPut, RunDelete, RunRecover,
           Quiet, Apply, Persisted
    <2> QED
        BY <2>1, WriteStep
<1> QED
    BY <1>3, <1>4

\* Each step of the store is one of the promise's.
LEMMA KeptStep ==
    ASSUME Inv, Inv', [Next]_vars
    PROVE  [Kept!Next]_(Kept!keptVars)
<1>1. CASE Run
    BY <1>1, RunStep
<1>2. CASE CloseWindow
    BY <1>2, CloseStep
<1>3. CASE \E t \in Threads, e \in BOOLEAN : CreateThread(t, e)
    BY <1>3, TemporaryStep
<1>4. ASSUME UNCHANGED <<attached, temporary, idb>>
      PROVE  Kept!Next
    BY <1>4, WriteStep
<1>5. CASE \E t \in Threads : \/ UpdateThread(t) \/ AskGenerate(t) \/ AskDelete(t)
                              \/ CheckpointFires(t)
    BY <1>4, <1>5 DEF UpdateThread, AskGenerate, AskDelete, CheckpointFires, store, window
<1>6. CASE \/ OpenFails \/ OpenSucceeds \/ Timeout \/ Recover \/ AppendReply \/ StartGeneration
           \/ Checkpoint \/ StreamEnds \/ Finalize \/ Release \/ DeleteGoesOn
    BY <1>4, <1>6 DEF OpenFails, OpenSucceeds, Timeout, Recover, AppendReply, StartGeneration,
       Checkpoint, StreamEnds, Finalize, Release, DeleteGoesOn, store, window
<1>7. CASE UNCHANGED vars
    BY <1>4, <1>7 DEF vars, store, window
<1> QED
    BY <1>1, <1>2, <1>3, <1>5, <1>6, <1>7 DEF Next, Reader, System

-----------------------------------------------------------------------------
(* The journal, whoever deletes what and when. *)

Journaled == Shape /\ JournalIsMemory

\* What a write adds to the journal it adds to memory.
LEMMA Journals ==
    ASSUME Journaled, NEW w \in Seq(Writes)
    PROVE  /\ Persisted(w) =>
                /\ mem' \in Backends /\ idb' \in Backends /\ journal' \in Seq(Writes)
                /\ Journaling => Applied(Nothing, journal') = mem'
           /\ Applied(eph, w) \in Backends
<1> USE DEF Journaled, Shape, TypeOK
<1>1. mem \in Backends /\ idb \in Backends /\ eph \in Backends /\ Nothing \in Backends
    BY BlankIs DEF Backends, Nothing
<1>2. /\ Applied(mem, w) \in Backends /\ Applied(idb, w) \in Backends
      /\ Applied(eph, w) \in Backends
    BY <1>1, AppliedType
<1>3. journal \o w \in Seq(Writes)
    OBVIOUS
<1>4. ASSUME Persisted(w), Journaling PROVE Applied(Nothing, journal') = mem'
    <2>1. Applied(Nothing, journal \o w) = Applied(Applied(Nothing, journal), w)
        BY <1>1, AppliedConcat
    <2>2. journal' = journal \o w /\ mem' = Applied(mem, w)
        BY <1>4 DEF Persisted, Journaling
    <2> QED
        BY <1>4, <2>1, <2>2 DEF JournalIsMemory
<1> QED
    BY <1>1, <1>2, <1>3, <1>4 DEF Persisted

\* The writes of a call, when its turn comes.
LEMMA CallWrites ==
    ASSUME Journaled, Run, NEW w \in Seq(Writes), NEW e, Apply(w, e)
    PROVE  /\ mem' \in Backends /\ idb' \in Backends /\ eph' \in Backends
           /\ journal' \in Seq(Writes)
           /\ Journaling => Applied(Nothing, journal') = mem'
BY Journals DEF Apply, Journaled, Shape, TypeOK, JournalIsMemory, Backends

\* A turn keeps the journal, whatever its call, and whoever it finds.
LEMMA RunJournals == ASSUME Journaled, Run PROVE Journaled'
<1> USE DEF Journaled
<1> DEFINE c == Head(chain)
<1>1. Shorter
    BY Shifted DEF Run, Shape, TypeOK
<1>2. /\ c \in Calls
      /\ c.name \notin {"recover", "attach"} => c.on \in Threads
      /\ \A i \in DOMAIN chain' :
            chain'[i].name \notin {"recover", "attach"} => chain'[i].on \in Threads
      /\ chain' \in Seq(Calls)
    BY <1>1 DEF Shorter, Shape
<1>3. /\ gen.ahead \in Nat
      /\ gen' = [on |-> gen.on, pc |-> gen.pc,
                 ahead |-> IF gen.ahead = 0 THEN 0 ELSE gen.ahead - 1]
      /\ UNCHANGED <<pending, status, used, temporary, session>>
    BY DEF Run, Shape, TypeOK
<1>4. /\ gen' \in [on : Threads \cup {None}, ahead : Nat,
                   pc : {"off", "get", "building", "streaming", "ending", "finishing"}]
      /\ gen'.pc = "off" => gen' = NoGen
      /\ gen'.pc # "off" => gen'.on \in Threads
    BY <1>3 DEF Shape, TypeOK, NoGen
<1>5. ASSUME /\ mem' \in Backends /\ idb' \in Backends /\ eph' \in Backends
             /\ journal' \in Seq(Writes)
             /\ Journaling' => Applied(Nothing, journal') = mem',
             /\ mode' \in {"pending", "memory", "idb", "memory-final"} /\ open' = open
             /\ attached' \in BOOLEAN /\ ready' \in BOOLEAN /\ recovery' \in BOOLEAN,
             /\ ephemeralIds' \subseteq Threads /\ dead' \subseteq Threads
             /\ deletion' = deletion \/ deletion' = NoDeletion
      PROVE  Journaled'
    <2>1. NoDeletion \in [on : Threads \cup {None}, pc : {"off", "waits", "called"}]
        BY DEF NoDeletion
    <2>2. TypeOK'
        BY <1>2, <1>3, <1>4, <1>5, <2>1 DEF Shape, TypeOK, Backends
    <2>3. Shape'
        BY <1>2, <1>4, <1>5, <2>2 DEF Shape, NoDeletion
    <2> QED
        BY <1>5, <2>3 DEF JournalIsMemory
<1>6. ASSUME NEW w \in Seq(Writes), NEW e, Apply(w, e), Quiet
      PROVE  Journaled'
    <2>1. /\ mem' \in Backends /\ idb' \in Backends /\ eph' \in Backends
          /\ journal' \in Seq(Writes)
          /\ Journaling => Applied(Nothing, journal') = mem'
        BY <1>6, CallWrites
    <2>2. Journaling' => Journaling
        BY <1>6 DEF Journaling, Quiet
    <2> QED
        BY <1>5, <1>6, <2>1, <2>2 DEF Quiet, Shape, TypeOK
<1>7. ASSUME NEW t \in Threads
      PROVE  /\ \A x \in BOOLEAN : <<Thread(t, x)>> \in Seq(Writes)
             /\ \A x \in Statuses : <<Reply(t, x)>> \in Seq(Writes)
    BY DEF Thread, Reply, Writes
<1>8. <<>> \in Seq(Writes) /\ \A v, w \in Seq(Writes) : v \o w \in Seq(Writes)
    OBVIOUS
<1>9. {"streaming", None} \subseteq Statuses /\ c.to \in Statuses
    BY <1>2 DEF Statuses, Calls
<1>10. CASE c.name = "create"
    <2>1. c.on \in Threads /\ RunCreate(c)
        BY <1>2, <1>10 DEF Run
    <2> HIDE DEF c
    <2> QED
        BY <1>6, <1>7, <2>1 DEF RunCreate
<1>11. CASE c.name = "update"
    <2>1. c.on \in Threads /\ RunUpdate(c)
        BY <1>2, <1>11 DEF Run
    <2> HIDE DEF c
    <2>2. (IF Shown(c.on).thread THEN <<Thread(c.on, TRUE)>> ELSE <<>>) \in Seq(Writes)
        BY <1>7, <1>8, <2>1
    <2> QED
        BY <1>6, <2>1, <2>2 DEF RunUpdate
<1>12. CASE c.name = "append"
    <2>1. c.on \in Threads /\ RunAppend(c)
        BY <1>2, <1>12 DEF Run
    <2> HIDE DEF c
    <2>2. (IF Shown(c.on).thread THEN <<Thread(c.on, TRUE)>> ELSE <<>>) \in Seq(Writes)
        BY <1>7, <1>8, <2>1
    <2>3. <<Reply(c.on, "streaming")>> \in Seq(Writes)
        BY <1>7, <1>9, <2>1
    <2>4. <<Reply(c.on, "streaming")>>
            \o (IF Shown(c.on).thread THEN <<Thread(c.on, TRUE)>> ELSE <<>>) \in Seq(Writes)
        BY <1>8, <2>2, <2>3
    <2> QED
        BY <1>6, <2>1, <2>4 DEF RunAppend
<1>13. CASE c.name = "put"
    <2>1. c.on \in Threads /\ RunPut(c)
        BY <1>2, <1>13 DEF Run
    <2> HIDE DEF c
    <2> QED
        BY <1>6, <1>7, <1>9, <2>1 DEF RunPut
<1>14. CASE c.name = "delete"
    <2>1. c.on \in Threads /\ RunDelete(c)
        BY <1>2, <1>14 DEF Run
    <2> HIDE DEF c
    <2> DEFINE b == IF c.on \in ephemeralIds THEN eph ELSE Persist
               w == IF b[c.on].reply # None THEN <<Reply(c.on, None)>> ELSE <<>>
    <2>2. w \in Seq(Writes) /\ <<Thread(c.on, FALSE)>> \in Seq(Writes)
        BY <1>7, <1>8, <1>9, <2>1
    <2>3. /\ Apply(<<Thread(c.on, FALSE)>> \o w, c.on \in ephemeralIds)
          /\ ephemeralIds' = ephemeralIds \ {c.on} /\ dead' = dead \cup {c.on}
          /\ deletion' = NoDeletion /\ UNCHANGED <<mode, open, attached, ready, recovery>>
        BY <2>1 DEF RunDelete
    <2> HIDE DEF w
    <2>4. <<Thread(c.on, FALSE)>> \o w \in Seq(Writes)
        BY <1>8, <2>2
    <2>5. /\ mem' \in Backends /\ idb' \in Backends /\ eph' \in Backends
          /\ journal' \in Seq(Writes)
          /\ Journaling => Applied(Nothing, journal') = mem'
        BY <2>3, <2>4, CallWrites
    <2>6. Journaling' => Journaling
        BY <2>3 DEF Journaling
    <2> QED
        BY <1>5, <2>1, <2>3, <2>5, <2>6 DEF Shape, TypeOK
<1>15. CASE c.name = "recover"
    <2>1. RunRecover(c)
        BY <1>15 DEF Run
    <2>2. eph \in Backends /\ Persist \in Backends
        BY DEF Shape, TypeOK, Backends, Persist
    <2>3. Interrupted(eph) \in Seq(Writes) /\ Interrupted(Persist) \in Seq(Writes)
        BY <2>2, AppliedInterrupted
    <2>4. Persisted(Interrupted(Persist)) /\ eph' = Applied(eph, Interrupted(eph)) /\ Quiet
        BY <2>1 DEF RunRecover
    <2>5. /\ mem' \in Backends /\ idb' \in Backends /\ eph' \in Backends
          /\ journal' \in Seq(Writes)
          /\ Journaling => Applied(Nothing, journal') = mem'
        BY <2>3, <2>4, Journals
    <2>6. Journaling' => Journaling
        BY <2>4 DEF Journaling, Quiet
    <2> QED
        BY <1>5, <2>4, <2>5, <2>6 DEF Quiet, Shape, TypeOK
<1>16. CASE c.name = "attach"
    <2>1. RunAttach(c)
        BY <1>16 DEF Run
    <2>2. mem \in Backends /\ idb \in Backends /\ eph \in Backends
        BY DEF Shape, TypeOK, Backends
    <2>3. Applied(idb, journal) \in Backends
        BY <2>2, AppliedType DEF Shape, TypeOK
    <2>4. c.late \in BOOLEAN
        BY <1>2 DEF Calls
    <2> HIDE DEF c
    <2>5. idb' \in Backends /\ ~Journaling' /\ attached' \in BOOLEAN /\ recovery' \in BOOLEAN
        BY <2>1, <2>2, <2>3, <2>4 DEF RunAttach, Journaling, Shape, TypeOK
    <2> QED
        BY <1>5, <2>1, <2>2, <2>5 DEF RunAttach, Shape, TypeOK
<1> QED
    BY <1>2, <1>10, <1>11, <1>12, <1>13, <1>14, <1>15, <1>16 DEF Calls

\* A call goes to the end of the chain, and the backends and the journal stay.
LEMMA CallJournals ==
    ASSUME Journaled, NEW c \in Calls, chain' = Append(chain, c),
           c.name \notin {"recover", "attach"} => c.on \in Threads
    PROVE  /\ chain' \in Seq(Calls)
           /\ \A i \in DOMAIN chain' :
                 chain'[i].name \notin {"recover", "attach"} => chain'[i].on \in Threads
<1>1. Longer(c)
    BY Appended DEF Journaled, Shape, TypeOK
<1> QED
    BY <1>1 DEF Journaled, Shape, Longer

LEMMA StepJournals == ASSUME Journaled, [Next]_vars PROVE Journaled'
<1> USE DEF Journaled
<1>1. ASSUME UNCHANGED <<mode, attached, mem, journal>> PROVE JournalIsMemory'
    BY <1>1 DEF JournalIsMemory, Journaling
<1>2. ASSUME NEW t \in Threads \cup {None}, NEW x \in Statuses, NEW e \in BOOLEAN,
             NEW l \in BOOLEAN,
             NEW n \in {"create", "append", "update", "put", "delete", "recover", "attach"},
             n \notin {"recover", "attach"} => t \in Threads
      PROVE  \A c \in {Call(n, t), [Call(n, t) EXCEPT !.to = x], [Call(n, t) EXCEPT !.late = l],
                       [Call(n, t) EXCEPT !.ephemeral = e]} :
                chain' = Append(chain, c) =>
                   /\ chain' \in Seq(Calls)
                   /\ \A i \in DOMAIN chain' :
                         chain'[i].name \notin {"recover", "attach"} => chain'[i].on \in Threads
    <2> SUFFICES ASSUME NEW c \in {Call(n, t), [Call(n, t) EXCEPT !.to = x],
                                   [Call(n, t) EXCEPT !.late = l],
                                   [Call(n, t) EXCEPT !.ephemeral = e]},
                        chain' = Append(chain, c)
                 PROVE  /\ chain' \in Seq(Calls)
                        /\ \A i \in DOMAIN chain' :
                              chain'[i].name \notin {"recover", "attach"}
                                => chain'[i].on \in Threads
        OBVIOUS
    <2>1. Call(n, t) \in Calls /\ Call(n, t).name = n /\ Call(n, t).on = t
        BY <1>2, CallIs
    <2>2. c \in Calls /\ c.name = n /\ c.on = t
        BY <1>2, <2>1 DEF Calls
    <2> QED
        BY <1>2, <2>2, CallJournals
<1>3. None \in Threads \cup {None} /\ None \in Statuses
    BY DEF Statuses
<1>4. CASE OpenFails
    BY <1>4 DEF OpenFails, Resolve, Shape, TypeOK, JournalIsMemory, Journaling
<1>5. CASE OpenSucceeds
    <2>1. /\ chain' \in Seq(Calls)
          /\ \A i \in DOMAIN chain' :
                chain'[i].name \notin {"recover", "attach"} => chain'[i].on \in Threads
        BY <1>2, <1>3, <1>5 DEF OpenSucceeds
    <2> QED
        BY <1>1, <1>5, <2>1 DEF OpenSucceeds, window, Shape, TypeOK
<1>6. CASE Timeout
    BY <1>6 DEF Timeout, Resolve, Shape, TypeOK, JournalIsMemory, Journaling
<1>7. CASE Recover
    <2>1. /\ chain' \in Seq(Calls)
          /\ \A i \in DOMAIN chain' :
                chain'[i].name \notin {"recover", "attach"} => chain'[i].on \in Threads
        BY <1>2, <1>3, <1>7 DEF Recover
    <2>2. /\ recovery' \in BOOLEAN
          /\ UNCHANGED <<mode, open, attached, mem, eph, idb, journal, ephemeralIds, ready,
                         pending, gen, status, dead, deletion, used, temporary, session>>
        BY <1>7 DEF Recover, store
    <2>3. TypeOK'
        BY <2>1, <2>2 DEF Shape, TypeOK
    <2>4. JournalIsMemory'
        BY <1>1, <2>2
    <2> QED
        BY <2>1, <2>2, <2>3, <2>4 DEF Shape, NoGen, NoDeletion
<1>8. ASSUME NEW t \in Threads, NEW e \in BOOLEAN, CreateThread(t, e) PROVE Journaled'
    <2>1. /\ chain' \in Seq(Calls)
          /\ \A i \in DOMAIN chain' :
                chain'[i].name \notin {"recover", "attach"} => chain'[i].on \in Threads
        BY <1>2, <1>3, <1>8 DEF CreateThread
    <2> QED
        BY <1>1, <1>8, <2>1 DEF CreateThread, Shape, TypeOK
<1>9. ASSUME NEW t \in Threads, UpdateThread(t) PROVE Journaled'
    <2>1. /\ chain' \in Seq(Calls)
          /\ \A i \in DOMAIN chain' :
                chain'[i].name \notin {"recover", "attach"} => chain'[i].on \in Threads
        BY <1>2, <1>3, <1>9 DEF UpdateThread
    <2> QED
        BY <1>1, <1>9, <2>1 DEF UpdateThread, store, window, Shape, TypeOK
<1>10. ASSUME NEW t \in Threads, AskGenerate(t) PROVE Journaled'
    BY <1>1, <1>10 DEF AskGenerate, store, Shape, TypeOK
<1>11. CASE AppendReply
    <2>1. gen.on \in Threads
        BY <1>11 DEF AppendReply, Shape
    <2>2. /\ chain' \in Seq(Calls)
          /\ \A i \in DOMAIN chain' :
                chain'[i].name \notin {"recover", "attach"} => chain'[i].on \in Threads
        <3>1. CASE chain' = chain
            BY <3>1 DEF Shape, TypeOK
        <3> QED
            BY <1>2, <1>3, <1>11, <2>1, <3>1 DEF AppendReply
    <2>3. gen' = NoGen \/ gen' = [gen EXCEPT !.pc = "building"]
        BY <1>11 DEF AppendReply
    <2>4. status' \in [Threads -> Statuses]
        BY <1>11 DEF AppendReply, Shape, TypeOK, Statuses
    <2>5. UNCHANGED <<mode, open, attached, mem, eph, idb, journal, ephemeralIds, ready, recovery,
                      dead, deletion, used, temporary, session, pending>>
        BY <1>11 DEF AppendReply, store
    <2>6. /\ gen' \in [on : Threads \cup {None}, ahead : Nat,
                       pc : {"off", "get", "building", "streaming", "ending", "finishing"}]
          /\ gen'.pc = "off" => gen' = NoGen
          /\ gen'.pc # "off" => gen'.on \in Threads
        BY <2>1, <2>3 DEF NoGen, Shape, TypeOK
    <2>7. JournalIsMemory'
        BY <1>1, <2>5
    <2>8. TypeOK'
        BY <2>2, <2>4, <2>5, <2>6 DEF Shape, TypeOK
    <2> QED
        BY <2>2, <2>5, <2>6, <2>7, <2>8 DEF Shape
<1>12. CASE StartGeneration
    <2>1. /\ gen' = [on |-> gen.on, pc |-> "streaming", ahead |-> gen.ahead]
          /\ gen.on \in Threads /\ gen.ahead \in Nat
          /\ UNCHANGED <<mode, open, attached, mem, eph, idb, journal, ephemeralIds, ready, recovery,
                         dead, deletion, used, temporary, session, status, chain, pending>>
        BY <1>12 DEF StartGeneration, store, Shape, TypeOK
    <2>2. TypeOK'
        BY <2>1 DEF Shape, TypeOK
    <2> QED
        BY <1>1, <2>1, <2>2 DEF Shape
<1>13. CASE Checkpoint
    <2>1. gen.on \in Threads
        BY <1>13 DEF Checkpoint, Shape
    <2> QED
        BY <1>1, <1>13, <2>1 DEF Checkpoint, store, window, Shape, TypeOK
<1>14. ASSUME NEW t \in Threads, CheckpointFires(t) PROVE Journaled'
    <2>1. /\ chain' \in Seq(Calls)
          /\ \A i \in DOMAIN chain' :
                chain'[i].name \notin {"recover", "attach"} => chain'[i].on \in Threads
        <3>1. status[t] \in Statuses
            BY DEF Shape, TypeOK
        <3> QED
            BY <1>2, <1>14, <3>1 DEF CheckpointFires
    <2> QED
        BY <1>1, <1>14, <2>1 DEF CheckpointFires, store, window, Shape, TypeOK
<1>15. CASE StreamEnds
    BY <1>1, <1>15 DEF StreamEnds, store, Shape, TypeOK, Statuses
<1>16. CASE Finalize
    <2>1. gen.on \in Threads /\ status[gen.on] \in Statuses /\ Len(chain) \in Nat
        BY <1>16 DEF Finalize, Shape, TypeOK
    <2>2. /\ chain' \in Seq(Calls)
          /\ \A i \in DOMAIN chain' :
                chain'[i].name \notin {"recover", "attach"} => chain'[i].on \in Threads
        <3>1. CASE chain' = chain
            BY <3>1 DEF Shape, TypeOK
        <3> QED
            BY <1>2, <1>16, <2>1, <3>1 DEF Finalize
    <2>3. gen' = NoGen \/ gen' = [gen EXCEPT !.pc = "finishing", !.ahead = Len(chain) + 1]
        BY <1>16 DEF Finalize
    <2>4. pending' \subseteq pending
        BY <1>16 DEF Finalize
    <2>5. UNCHANGED <<mode, open, attached, mem, eph, idb, journal, ephemeralIds, ready, recovery,
                      dead, deletion, used, temporary, session, status>>
        BY <1>16 DEF Finalize, store
    <2>6. /\ gen' \in [on : Threads \cup {None}, ahead : Nat,
                       pc : {"off", "get", "building", "streaming", "ending", "finishing"}]
          /\ gen'.pc = "off" => gen' = NoGen
          /\ gen'.pc # "off" => gen'.on \in Threads
        <3>1. CASE gen' = NoGen
            BY <3>1 DEF NoGen
        <3>2. CASE gen' = [gen EXCEPT !.pc = "finishing", !.ahead = Len(chain) + 1]
            <4>1. gen' = [on |-> gen.on, pc |-> "finishing", ahead |-> Len(chain) + 1]
                BY <3>2 DEF Shape, TypeOK
            <4> QED
                BY <2>1, <4>1
        <3> QED
            BY <2>3, <3>1, <3>2
    <2>7. JournalIsMemory'
        BY <1>1, <2>5
    <2>8. TypeOK'
        BY <2>2, <2>4, <2>5, <2>6 DEF Shape, TypeOK
    <2> QED
        BY <2>2, <2>5, <2>6, <2>7, <2>8 DEF Shape
<1>17. CASE Release
    BY <1>1, <1>17 DEF Release, store, NoGen, Shape, TypeOK
<1>18. ASSUME NEW t \in Threads, CallDelete(t), UNCHANGED <<store, recovery, gen, status, dead,
                                                          used, temporary, session>>
       PROVE  Journaled'
    <2>1. /\ chain' \in Seq(Calls)
          /\ \A i \in DOMAIN chain' :
                chain'[i].name \notin {"recover", "attach"} => chain'[i].on \in Threads
        BY <1>2, <1>3, <1>18 DEF CallDelete
    <2> QED
        BY <1>1, <1>18, <2>1 DEF CallDelete, store, NoDeletion, Shape, TypeOK
<1>19. ASSUME NEW t \in Threads, AskDelete(t) PROVE Journaled'
    <2>1. CASE CallDelete(t)
        BY <1>18, <1>19, <2>1 DEF AskDelete
    <2>2. CASE Active(t)
        BY <1>1, <1>19, <2>2 DEF AskDelete, store, NoDeletion, Shape, TypeOK
    <2> QED
        BY <1>19, <2>1, <2>2 DEF AskDelete
<1>20. CASE DeleteGoesOn
    <2>1. deletion.on \in Threads
        BY <1>20 DEF DeleteGoesOn, Shape
    <2> QED
        BY <1>18, <1>20, <2>1 DEF DeleteGoesOn
<1>21. CASE CloseWindow
    <2>1. Nothing \in Backends /\ Applied(Nothing, <<>>) = Nothing
        BY BlankIs, AppliedNone DEF Nothing, Backends
    <2>2. <<>> \in Seq(Calls) /\ <<>> \in Seq(Writes) /\ DOMAIN chain' = {}
        BY <1>21 DEF CloseWindow
    <2>3. /\ NoGen \in [on : Threads \cup {None}, ahead : Nat,
                        pc : {"off", "get", "building", "streaming", "ending", "finishing"}]
          /\ NoDeletion \in [on : Threads \cup {None}, pc : {"off", "waits", "called"}]
          /\ NoGen.pc = "off" /\ NoDeletion.pc = "off"
        BY DEF NoGen, NoDeletion
    <2>4. session' \in 1 .. MaxSessions
        BY <1>21 DEF CloseWindow, Shape, TypeOK
    <2>5. TypeOK'
        BY <1>21, <2>1, <2>2, <2>3, <2>4 DEF CloseWindow, Shape, TypeOK, Backends, Statuses
    <2> QED
        BY <1>21, <2>1, <2>2, <2>3, <2>5 DEF CloseWindow, Shape, JournalIsMemory
<1>22. CASE UNCHANGED vars
    BY <1>1, <1>22 DEF vars, store, window, Shape, TypeOK
<1> QED
    BY RunJournals, <1>4, <1>5, <1>6, <1>7, <1>8, <1>9, <1>10, <1>11, <1>12, <1>13, <1>14, <1>15,
       <1>16, <1>17, <1>19, <1>20, <1>21, <1>22 DEF Next, Reader, System

LEMMA JournaledHolds == Spec => []Journaled
<1>1. Init => Journaled
    BY InitHolds DEF Inv, Journaled
<1>2. Journaled /\ [Next]_vars => Journaled'
    BY StepJournals
<1> QED
    BY <1>1, <1>2, PTL DEF Spec

-----------------------------------------------------------------------------
(* The theorems. *)

\* The types, whoever deletes what and when.
THEOREM TypeCorrect == Spec => []TypeOK
<1>1. Journaled => TypeOK
    BY DEF Journaled, Shape
<1> QED
    BY <1>1, JournaledHolds, PTL

\* While the database is not open, the replay of the journal gives what memory holds
\* (repo.mjs:137-145, 184-202), whoever deletes what and when.
THEOREM JournalIsTrue == Spec => []JournalIsMemory
<1>1. Journaled => JournalIsMemory
    BY DEF Journaled
<1> QED
    BY <1>1, JournaledHolds, PTL

\* A chat that is not deleted while generate() works unseen on its reply: the replies stored and
\* shown are what they say, in every backend (repo.mjs:305-332, main.mjs:311-339).
THEOREM RepliesAreTrue ==
    ASSUME ~DeleteUnseen
    PROVE  Spec => []RepliesTrue
<1>1. Inv => RepliesTrue
    BY DEF Inv, Shape, RepliesTrue
<1> QED
    BY <1>1, InvHolds, PTL

\* Then the store keeps the promise KeptChats states (repo.mjs:24-25, 182-202): each of its
\* steps is one of the promise's, or changes nothing of what is shown and kept.
THEOREM KeepsItsPromise ==
    ASSUME ~DeleteUnseen
    PROVE  Spec => KeptSpec
<1>1. Init => Kept!Init
    <2>1. Init => \A t \in Threads : Shown(t) = Blank
        BY DEF Init, Shown, Persist, Nothing
    <2> QED
        BY <2>1 DEF Init, Kept!Init, Kept!Nothing, Nothing
<1>2. Inv /\ Inv' /\ [Next]_vars => [Kept!Next]_(Kept!keptVars)
    BY KeptStep
<1> QED
    BY <1>1, <1>2, InvHolds, PTL DEF Spec, KeptSpec, Kept!Spec
=============================================================================
