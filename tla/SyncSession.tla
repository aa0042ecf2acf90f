---------------------------- MODULE SyncSession -----------------------------
(***************************************************************************)
(* The admin console's replica of a tenant: the client engine, its record  *)
(* store and its outbox of edits, against the tenant's object.             *)
(*                                                                         *)
(* One engine talks to the object through at most one current socket.      *)
(* Every other writer of the tenant, whatever its path, is the action      *)
(* ServerWrite.  A socket delivers in order; when it goes, what the client *)
(* had sent may still reach the object later ("stray"), and what the       *)
(* object had sent is lost.  The object handles a message in one step.  An *)
(* engine's continuation after a local save belongs to the step that       *)
(* handled the message: with MemorySyncStorage nothing else runs between,  *)
(* and what it keeps goes with the page.                                   *)
(* Continuations after a load, a connection attempt and a token refresh    *)
(* are "tasks" that carry the generation they started in.                  *)
(***************************************************************************)
EXTENDS Naturals, FiniteSets, SequencesExt

CONSTANTS
  Record,
  Change,             \* the edits the user can make
  EditOf,             \* the record an edit changes, and whether it deletes it
  PageSize,           \* SYNC_PAGE_SIZE
  MaxChangesPerPush,  \* MAX_CHANGES_PER_PUSH
  Resets,             \* whether the object's data can be replaced
  MaxSeq,             \* bound of the model: serverSeq
  MaxGeneration,      \* bound of the model: calls of start() and stop()
  MaxCloses           \* bound of the model: connections lost

ASSUME EditsAssumption == EditOf \in [Change -> [rec : Record, gone : BOOLEAN]]
ASSUME RecordAssumption == IsFiniteSet(Record) /\ Cardinality(Record) <= MaxSeq
ASSUME BoundsAssumption ==
  /\ {PageSize, MaxChangesPerPush} \subseteq Nat \ {0}
  /\ {MaxSeq, MaxGeneration, MaxCloses} \subseteq Nat
  /\ Resets \in BOOLEAN

VARIABLES
  rows,        \* the object's records: seq 0 if none, gone if a tombstone
  up, down,    \* the current socket, from and to the client
  stray,       \* what closed sockets may still bring to the object
  open,        \* this.socket # null
  generation, stopped, status,
  checkpoint,  \* currentCheckpoint
  awaitingResetWelcome,
  inFlight,
  store,       \* RecordStore: the seq known of each record, tombstones too
  outbox,      \* the entries of Outbox, in order of insertion
  tasks,       \* continuations that wait for a load, a connection, a token
  savedCheckpoint, savedOutbox,
  edit,        \* history: what became of each edit
  forgotten,   \* history: the object was reset and the client does not know
  closes       \* how many connections were lost

server == <<rows, stray>>
wire == <<up, down, open>>
engine == <<generation, stopped, status, checkpoint, awaitingResetWelcome, inFlight>>
local == <<store, outbox, savedCheckpoint, savedOutbox>>
history == <<edit, forgotten, closes>>
vars == <<server, wire, engine, local, tasks, history>>

Nothing == [seq |-> 0, gone |-> TRUE]
Live(row) == ~row.gone
HighestSeq(table) == CHOOSE n \in {0} \cup {table[r].seq : r \in Record} :
                  \A r \in Record : table[r].seq <= n

Init ==
  /\ rows \in {f \in [Record -> [seq : 0 .. Cardinality(Record), gone : BOOLEAN]] :
                 /\ \A r \in Record : f[r].gone <=> f[r].seq = 0
                 /\ \A r, s \in Record : f[r].seq = f[s].seq => r = s \/ f[r].seq = 0}
  /\ up = <<>> /\ down = <<>> /\ stray = {} /\ open = FALSE
  /\ generation = 0 /\ stopped = FALSE /\ status = "idle"
  /\ checkpoint = 0 /\ awaitingResetWelcome = FALSE /\ inFlight = {}
  /\ store = [r \in Record |-> Nothing]
  /\ outbox = <<>> /\ tasks = {}
  /\ savedCheckpoint = 0 /\ savedOutbox = <<>>
  /\ edit = [c \in Change |-> "new"]
  /\ forgotten = FALSE /\ closes = 0
-----------------------------------------------------------------------------
(* Messages.                                                               *)

Hello(n) == [type |-> "hello", checkpoint |-> n]
PushOf(cs) == [type |-> "push", changes |-> cs]
Welcome(n) == [type |-> "welcome", serverSeq |-> n]
Sync(recs, n, complete) ==
  [type |-> "sync", records |-> recs, serverSeq |-> n, complete |-> complete]
ChangeOf(r, row) == [type |-> "change", rec |-> r, row |-> row]
AckOf(c, ok, row) == [type |-> "ack", change |-> c, ok |-> ok, row |-> row]

(* The elements of a sequence at some of its positions, in order.          *)
Picked(s, positions) ==
  [k \in 1 .. Cardinality(positions) |->
     s[CHOOSE i \in positions : Cardinality({j \in positions : j <= i}) = k]]
Without(s, elements) == Picked(s, {i \in DOMAIN s : s[i] \notin elements})

(* Mistake: the whole outbox again.                                        *)
UnsentOrNot(box, flying) == box
(* Outbox entries the current socket has not carried yet, in batches.      *)
Unsent(box, flying) == Without(box, flying)
Batches(cs) ==
  LET k == MaxChangesPerPush
  IN  [i \in 1 .. ((Len(cs) + k - 1) \div k) |->
         PushOf(SubSeq(cs, (i - 1) * k + 1, IF i * k < Len(cs) THEN i * k ELSE Len(cs)))]
Flush(box, flying) ==
  IF open
    THEN /\ up' = up \o Batches(Unsent(box, flying))
         /\ inFlight' = flying \cup ToSet(box)
    ELSE up' = up /\ inFlight' = flying

(* The client lets go of its socket, or loses it.                          *)
Disconnect ==
  LET pushes == Picked(up, {i \in DOMAIN up : up[i].type = "push"})
  IN  /\ open' = FALSE /\ up' = <<>> /\ down' = <<>>
      /\ stray' = IF pushes = <<>> THEN stray ELSE stray \cup {pushes}

Task(kind, gen) == [kind |-> kind, gen |-> gen]
Current(t) == ~stopped /\ t.gen = generation

(* The loads of start() are over before the next event: only calls made in *)
(* the same turn come between.                                             *)
NextEvent == \A t \in tasks : t.kind # "load"

(* connectWithBackoff, entered with task "t" done: an old generation gives *)
(* up, the current one starts to connect.                                  *)
Connect(t) ==
  IF Current(t)
    THEN /\ tasks' = (tasks \ {t}) \cup {Task("connect", t.gen)}
         /\ status' = "connecting"
    ELSE tasks' = tasks \ {t} /\ status' = status
-----------------------------------------------------------------------------
(* The engine: start, stop and the connection.                             *)

Start ==
  /\ generation < MaxGeneration
  /\ generation' = generation + 1
  /\ stopped' = FALSE
  /\ Disconnect
  /\ tasks' = tasks \cup {Task("load", generation + 1)}
  /\ UNCHANGED <<rows, status, checkpoint, awaitingResetWelcome, inFlight, local, history>>

Stop ==
  /\ generation < MaxGeneration
  /\ generation' = generation + 1
  /\ stopped' = TRUE
  /\ status' = "closed"
  /\ Disconnect
  /\ UNCHANGED <<rows, checkpoint, awaitingResetWelcome, inFlight, local, tasks, history>>

(* The loads of start(): a checkpoint without records is not trusted, and  *)
(* stored edits come after those already made.  A storage answers in the   *)
(* order it was asked, so that the loads of one start() are one step.      *)
TrustedCheckpoint ==
  IF \E r \in Record : Live(store[r]) THEN savedCheckpoint ELSE 0
(* Mistake: stored edits that are in memory already come twice.            *)
HydratedTwice == outbox \o savedOutbox
Hydrated == outbox \o Without(savedOutbox, ToSet(outbox))

Loaded(t) ==
  /\ t.kind = "load" /\ \A u \in tasks : u.kind = "load" => u.gen >= t.gen
  /\ checkpoint' = TrustedCheckpoint
  /\ outbox' = Hydrated
  /\ Connect(t)
  /\ UNCHANGED <<server, wire, generation, stopped, awaitingResetWelcome, inFlight,
                 store, savedCheckpoint, savedOutbox, history>>

(* Mistake: the new socket inherits what the old one had sent.             *)
ConnectOkInFlightKept(t) ==
  /\ t.kind = "connect" /\ NextEvent
  /\ tasks' = tasks \ {t}
  /\ IF Current(t)
       THEN /\ open' = TRUE /\ up' = <<Hello(checkpoint)>> /\ down' = <<>>
            /\ awaitingResetWelcome' = FALSE /\ status' = "syncing"
            /\ UNCHANGED inFlight
       ELSE UNCHANGED <<wire, inFlight, awaitingResetWelcome, status>>
  /\ UNCHANGED <<server, generation, stopped, checkpoint, local, history>>

(* open(), once the transport has a socket: a new socket is a new round.   *)
ConnectOk(t) ==
  /\ t.kind = "connect" /\ NextEvent
  /\ tasks' = tasks \ {t}
  /\ IF Current(t)
       THEN /\ open' = TRUE /\ up' = <<Hello(checkpoint)>> /\ down' = <<>>
            /\ inFlight' = {} /\ awaitingResetWelcome' = FALSE
            /\ status' = "syncing"
       ELSE UNCHANGED <<wire, inFlight, awaitingResetWelcome, status>>
  /\ UNCHANGED <<server, generation, stopped, checkpoint, local, history>>

(* An attempt failed: there is a delay left, and an old generation does    *)
(* not survive it; or there is none, and the engine is offline.            *)
ConnectFails(t) ==
  /\ t.kind = "connect" /\ NextEvent
  /\ tasks' = tasks \ {t}
  /\ \/ status' = "closed"
     \/ ~Current(t) /\ status' = status
  /\ UNCHANGED <<server, wire, generation, stopped, checkpoint, awaitingResetWelcome,
                 inFlight, local, history>>

RefreshOk(t) ==
  /\ t.kind = "refresh" /\ NextEvent
  /\ Connect(t)
  /\ UNCHANGED <<server, wire, generation, stopped, checkpoint, awaitingResetWelcome,
                 inFlight, local, history>>

RefreshFails(t) ==
  /\ t.kind = "refresh" /\ NextEvent
  /\ tasks' = tasks \ {t}
  /\ status' = "closed"
  /\ UNCHANGED <<server, wire, generation, stopped, checkpoint, awaitingResetWelcome,
                 inFlight, local, history>>

(* handleClose: the network, an expired token, or the server's refusal of  *)
(* the user, which alone gives the outbox up.                              *)
SocketCloses ==
  /\ open /\ closes < MaxCloses /\ NextEvent
  /\ closes' = closes + 1
  /\ Disconnect
  /\ \/ /\ tasks' = tasks \cup {Task("connect", generation)}
        /\ status' = "connecting"
        /\ UNCHANGED <<outbox, savedOutbox, edit>>
     \/ /\ tasks' = tasks \cup {Task("refresh", generation)}
        /\ UNCHANGED <<status, outbox, savedOutbox, edit>>
     \/ /\ status' = "closed"
        /\ outbox' = <<>> /\ savedOutbox' = <<>>
        /\ edit' = [c \in Change |-> IF c \in ToSet(outbox) THEN "refused" ELSE edit[c]]
        /\ UNCHANGED tasks
  /\ UNCHANGED <<rows, generation, stopped, checkpoint, awaitingResetWelcome, inFlight,
                 store, savedCheckpoint, forgotten>>

(* The page is loaded again: all of the client is new, and the edits it    *)
(* had not sent, or had no answer to, are gone.  The generation only goes  *)
(* on to bound the model.                                                  *)
Reload ==
  /\ generation > 0 /\ NextEvent
  /\ Disconnect
  /\ stopped' = FALSE /\ status' = "idle" /\ tasks' = {}
  /\ checkpoint' = 0 /\ awaitingResetWelcome' = FALSE /\ inFlight' = {}
  /\ store' = [r \in Record |-> Nothing] /\ outbox' = <<>>
  /\ savedCheckpoint' = 0 /\ savedOutbox' = <<>>
  /\ edit' = [c \in Change |-> IF c \in ToSet(outbox) THEN "lost" ELSE edit[c]]
  /\ forgotten' = FALSE
  /\ UNCHANGED <<rows, generation, closes>>
-----------------------------------------------------------------------------
(* The engine: messages and edits.                                         *)

(* RecordStore.apply: the higher seq wins.                                 *)
Applied(table, r, row) ==
  IF row.seq > table[r].seq THEN [table EXCEPT ![r] = row] ELSE table

Push(c) ==
  /\ edit[c] = "new"
  /\ edit' = [edit EXCEPT ![c] = "pending"]
  /\ outbox' = Append(outbox, c)
  /\ savedOutbox' = Append(outbox, c)
  /\ Flush(Append(outbox, c), inFlight)
  /\ UNCHANGED <<server, down, open, generation, stopped, status, checkpoint,
                 awaitingResetWelcome, store, savedCheckpoint, tasks, forgotten, closes>>

(* Mistake: a reset is answered, the records of before it stay.            *)
OnWelcomeStoreKept(m) ==
  /\ m.type = "welcome"
  /\ IF m.serverSeq < checkpoint
       THEN /\ checkpoint' = 0 /\ savedCheckpoint' = 0
            /\ up' = Append(up, Hello(0))
            /\ awaitingResetWelcome' = TRUE
            /\ forgotten' = FALSE
       ELSE /\ awaitingResetWelcome' = FALSE
            /\ UNCHANGED <<checkpoint, savedCheckpoint, up, forgotten>>
  /\ UNCHANGED <<store, inFlight, status, outbox, savedOutbox, edit>>

(* A welcome behind the checkpoint is a reset: forget all, ask for all.    *)
OnWelcome(m) ==
  /\ m.type = "welcome"
  /\ IF m.serverSeq < checkpoint
       THEN /\ store' = [r \in Record |-> Nothing]
            /\ checkpoint' = 0 /\ savedCheckpoint' = 0
            /\ up' = Append(up, Hello(0))
            /\ awaitingResetWelcome' = TRUE
            /\ forgotten' = FALSE
       ELSE /\ awaitingResetWelcome' = FALSE
            /\ UNCHANGED <<store, checkpoint, savedCheckpoint, up, forgotten>>
  /\ UNCHANGED <<inFlight, status, outbox, savedOutbox, edit>>

(* Mistake: pages of the round before the reset count.                     *)
OnSyncOfAnyRound(m) ==
  /\ m.type = "sync"
  /\ store' = [r \in Record |-> IF r \in DOMAIN m.records
                 THEN Applied(store, r, m.records[r])[r] ELSE store[r]]
  /\ IF m.complete
       THEN /\ checkpoint' = m.serverSeq /\ savedCheckpoint' = m.serverSeq
            /\ status' = "ready"
            /\ Flush(outbox, inFlight)
       ELSE UNCHANGED <<checkpoint, savedCheckpoint, status, up, inFlight>>
  /\ UNCHANGED <<awaitingResetWelcome, outbox, savedOutbox, edit, forgotten>>

(* A page: dropped while the answer to a reset is awaited; the last one of *)
(* a bootstrap moves the checkpoint and sends the outbox.                  *)
OnSync(m) ==
  /\ m.type = "sync"
  /\ IF awaitingResetWelcome
       THEN UNCHANGED <<store, checkpoint, savedCheckpoint, status, up, inFlight>>
       ELSE /\ store' = [r \in Record |-> IF r \in DOMAIN m.records
                           THEN Applied(store, r, m.records[r])[r] ELSE store[r]]
            /\ IF m.complete
                 THEN /\ checkpoint' = m.serverSeq /\ savedCheckpoint' = m.serverSeq
                      /\ status' = "ready"
                      /\ Flush(outbox, inFlight)
                 ELSE UNCHANGED <<checkpoint, savedCheckpoint, status, up, inFlight>>
  /\ UNCHANGED <<awaitingResetWelcome, outbox, savedOutbox, edit, forgotten>>

OnChange(m) ==
  /\ m.type = "change"
  /\ store' = Applied(store, m.rec, m.row)
  /\ UNCHANGED <<checkpoint, savedCheckpoint, status, up, inFlight, awaitingResetWelcome,
                 outbox, savedOutbox, edit, forgotten>>

OnAck(m) ==
  /\ m.type = "ack"
  /\ store' = IF m.ok THEN Applied(store, EditOf[m.change].rec, m.row) ELSE store
  /\ inFlight' = inFlight \ {m.change}
  /\ IF m.change \in ToSet(outbox)
       THEN /\ outbox' = Without(outbox, {m.change})
            /\ savedOutbox' = Without(outbox, {m.change})
            /\ edit' = [edit EXCEPT ![m.change] = IF m.ok THEN "accepted" ELSE "refused"]
       ELSE UNCHANGED <<outbox, savedOutbox, edit>>
  /\ UNCHANGED <<checkpoint, savedCheckpoint, status, up, awaitingResetWelcome, forgotten>>

Receive ==
  /\ open /\ down # <<>> /\ NextEvent
  /\ \/ OnWelcome(Head(down))
     \/ OnSync(Head(down))
     \/ OnChange(Head(down))
     \/ OnAck(Head(down))
  /\ down' = Tail(down)
  /\ UNCHANGED <<server, open, generation, stopped, tasks, closes>>
-----------------------------------------------------------------------------
(* The object.                                                             *)

(* Pages of the records after a checkpoint, in order of seq; the last page *)
(* is the first one that is not full.                                      *)
After(n) == {r \in Record : rows[r].seq > n}
Rank(r, n) == Cardinality({s \in After(n) : rows[s].seq <= rows[r].seq})
Pages(n) ==
  LET full == Cardinality(After(n)) \div PageSize
      recs(i) == {r \in After(n) : Rank(r, n) \in ((i - 1) * PageSize + 1) .. (i * PageSize)}
  IN  [i \in 1 .. full + 1 |->
         Sync([r \in recs(i) |-> rows[r]], HighestSeq(rows), i = full + 1)]

(* handleHello.                                                            *)
ServeHello ==
  /\ open /\ up # <<>> /\ Head(up).type = "hello"
  /\ up' = Tail(up)
  /\ down' = down \o <<Welcome(HighestSeq(rows))>> \o Pages(Head(up).checkpoint)
  /\ UNCHANGED <<server, open, engine, local, tasks, history>>

(* Between a reset and the welcome that tells of it nobody removes: of the *)
(* last live record the client knows, a removal would make the next        *)
(* start() forget the checkpoint that detects resets.                      *)
Removable(row) == Live(row) /\ ~forgotten

(* What can come of a change: refused, by the rights, the validation, a    *)
(* conflict or the record's state; accepted with nothing to do; applied.   *)
Outcomes(row, e) ==
  IF e.gone
    THEN {"refused"} \cup (IF Removable(row) THEN {"applied"} ELSE {})
    ELSE {"refused"} \cup (IF row = Nothing THEN {"applied"}
                           ELSE IF Live(row) THEN {"applied", "same"} ELSE {})

(* handlePush on the changes of one message, given an outcome for each: the *)
(* changes applied among the first i, a record after these, and whether a  *)
(* change can have its outcome where the ones before it have left it.      *)
AppliedIn(outcome, i) == {j \in 1 .. i : outcome[j] = "applied"}
RowAfter(changes, outcome, r, i) ==
  LET own == {j \in AppliedIn(outcome, i) : EditOf[changes[j]].rec = r}
      last == CHOOSE j \in own : \A k \in own : k <= j
  IN  IF own = {} THEN rows[r]
      ELSE [seq |-> HighestSeq(rows) + Cardinality(AppliedIn(outcome, last)),
            gone |-> EditOf[changes[last]].gone]
Legal(changes, outcome) ==
  \A i \in DOMAIN changes :
    LET e == EditOf[changes[i]]
    IN  outcome[i] \in Outcomes(RowAfter(changes, outcome, e.rec, i - 1), e)

Served(changes, outcome) ==
  LET n == Len(changes)
      left(i) == RowAfter(changes, outcome, EditOf[changes[i]].rec, i)
      ack(i) == IF outcome[i] = "refused" THEN AckOf(changes[i], FALSE, Nothing)
                ELSE AckOf(changes[i], TRUE, left(i))
      change(i) == ChangeOf(EditOf[changes[i]].rec, left(i))
  IN  [rows |-> [r \in Record |-> RowAfter(changes, outcome, r, n)],
       acks |-> [i \in 1 .. n |-> ack(i)],
       news |-> Picked([i \in 1 .. n |-> change(i)], AppliedIn(outcome, n))]

(* A reset the client has not seen keeps the object behind the client's    *)
(* checkpoint, the only sign of a reset the protocol has.                  *)
Bounded(table) ==
  /\ HighestSeq(table) <= MaxSeq
  /\ forgotten => HighestSeq(table) < checkpoint

Results(changes) ==
  {s \in {Served(changes, o) : o \in {o \in [DOMAIN changes -> {"refused", "same", "applied"}] :
                                       Legal(changes, o)}} : Bounded(s.rows)}

(* A push on the current socket: its acks, and the news to the others.     *)
ServePush ==
  /\ open /\ up # <<>> /\ Head(up).type = "push"
  /\ up' = Tail(up)
  /\ \E s \in Results(Head(up).changes) : rows' = s.rows /\ down' = down \o s.acks
  /\ UNCHANGED <<stray, open, engine, local, tasks, history>>

(* Mistake: no news of what a closed socket brought.                       *)
ServeStrayUnheard ==
  \E q \in stray :
    /\ stray' = (stray \ {q}) \cup (IF Tail(q) = <<>> THEN {} ELSE {Tail(q)})
    /\ \E s \in Results(Head(q).changes) : rows' = s.rows
    /\ UNCHANGED <<wire, engine, local, tasks, history>>

(* A push of a socket that is gone: its acks go nowhere, its news to the   *)
(* sockets that are there.                                                 *)
ServeStray ==
  \E q \in stray :
    /\ stray' = (stray \ {q}) \cup (IF Tail(q) = <<>> THEN {} ELSE {Tail(q)})
    /\ \E s \in Results(Head(q).changes) :
         /\ rows' = s.rows
         /\ down' = IF open THEN down \o s.news ELSE down
    /\ UNCHANGED <<up, open, engine, local, tasks, history>>

LoseStray ==
  \E q \in stray :
    /\ stray' = stray \ {q}
    /\ UNCHANGED <<rows, wire, engine, local, tasks, history>>

(* A write, a removal or a restoration by anyone else.                     *)
ServerWrite(r) ==
  \E gone \in BOOLEAN :
    LET new == [seq |-> HighestSeq(rows) + 1, gone |-> gone]
    IN  /\ gone => Removable(rows[r])
        /\ rows' = [rows EXCEPT ![r] = new]
        /\ Bounded(rows')
        /\ down' = IF open THEN Append(down, ChangeOf(r, new)) ELSE down
        /\ UNCHANGED <<stray, up, open, engine, local, tasks, history>>

(* The object's data is replaced by none, which closes every socket; where *)
(* the client holds something of it and would see its checkpoint ahead.    *)
ServerReset ==
  /\ Resets /\ ~open /\ ~forgotten
  /\ checkpoint > 0 /\ \E r \in Record : Live(store[r])
  /\ rows' = [r \in Record |-> Nothing]
  /\ stray' = {}
  /\ forgotten' = TRUE
  /\ UNCHANGED <<wire, engine, local, tasks, edit, closes>>
-----------------------------------------------------------------------------
Next ==
  \/ Start \/ Stop \/ SocketCloses \/ Reload
  \/ \E t \in tasks : \/ Loaded(t) \/ ConnectOk(t) \/ ConnectFails(t)
                      \/ RefreshOk(t) \/ RefreshFails(t)
  \/ \E c \in Change : Push(c)
  \/ Receive
  \/ ServeHello \/ ServePush \/ ServeStray \/ LoseStray
  \/ \E r \in Record : ServerWrite(r)
  \/ ServerReset

Spec == Init /\ [][Next]_vars

(* The browser runs what is ready, an attempt to connect and a refresh end *)
(* one way or the other, and an open socket carries what was sent.         *)
Resumes ==
  \E t \in tasks : \/ Loaded(t) \/ ConnectOk(t) \/ ConnectFails(t)
                   \/ RefreshOk(t) \/ RefreshFails(t)
Fairness == WF_vars(Resumes) /\ WF_vars(Receive) /\ WF_vars(ServeHello \/ ServePush)
LiveSpec == Spec /\ Fairness
-----------------------------------------------------------------------------
Row == [seq : 0 .. MaxSeq, gone : BOOLEAN]
Page == UNION {[known -> Row] : known \in SUBSET Record}
PushMessage == [type : {"push"}, changes : Seq(Change)]
UpMessage == [type : {"hello"}, checkpoint : 0 .. MaxSeq] \cup PushMessage
DownMessage ==
  [type : {"welcome"}, serverSeq : 0 .. MaxSeq]
    \cup [type : {"sync"}, records : Page, serverSeq : 0 .. MaxSeq, complete : BOOLEAN]
    \cup [type : {"change"}, rec : Record, row : Row]
    \cup [type : {"ack"}, change : Change, ok : BOOLEAN, row : Row]

(* Type invariant: the wire carries each side's messages, one outbox entry *)
(* per edit, at most one continuation per generation.                      *)
TypeOK ==
  /\ rows \in [Record -> Row] /\ store \in [Record -> Row]
  /\ up \in Seq(UpMessage) /\ down \in Seq(DownMessage)
  /\ stray \subseteq Seq(PushMessage)
  /\ open \in BOOLEAN /\ stopped \in BOOLEAN /\ (open => ~stopped)
  /\ awaitingResetWelcome \in BOOLEAN /\ forgotten \in BOOLEAN
  /\ generation \in 0 .. MaxGeneration /\ closes \in 0 .. MaxCloses
  /\ status \in {"idle", "connecting", "syncing", "ready", "closed"}
  /\ checkpoint \in 0 .. MaxSeq /\ savedCheckpoint \in 0 .. MaxSeq
  /\ inFlight \subseteq Change
  /\ outbox \in Seq(Change) /\ IsInjective(outbox)
  /\ savedOutbox \in Seq(Change)
  /\ tasks \subseteq [kind : {"load", "connect", "refresh"}, gen : 1 .. MaxGeneration]
  /\ \A s, t \in tasks : s.gen = t.gen => s = t
  /\ edit \in [Change -> {"new", "pending", "accepted", "refused", "lost"}]

(* The checkpoint is a promise: whatever the object had written up to it,  *)
(* the store knows.  A client that breaks it never asks for those records  *)
(* again.  (engine.ts, handle: a page is dropped after a reset, only the   *)
(* last page moves the checkpoint, a checkpoint without records is not     *)
(* trusted.)                                                               *)
CheckpointHonest ==
  ~forgotten =>
    \A r \in Record : rows[r].seq \in 1 .. checkpoint => store[r] = rows[r]

(* With no message on the way and the bootstrap asked for and answered,    *)
(* the store is the object's table and every edit has its answer, whatever *)
(* was reordered with the bootstrap, resent, or brought by an old socket.  *)
(* (sync/handlers.ts and tenant-do.ts broadcast against RecordStore.apply; *)
(* flush leaves out what is in flight: nothing may stay there unsent.)     *)
QuietMeansSettled ==
  open /\ up = <<>> /\ down = <<>> =>
    store = rows /\ \A c \in Change : edit[c] # "pending"

(* On one socket an edit is on its way at most once: it is not sent again  *)
(* while its push or its ack is.  (flush and inFlight: the object would    *)
(* judge it again, with another seq and another broadcast.)                *)
OnTheWay(c) ==
  {<<"up", i>> : i \in {i \in DOMAIN up : up[i].type = "push" /\ c \in ToSet(up[i].changes)}}
    \cup {<<"down", i>> : i \in {i \in DOMAIN down : down[i].type = "ack" /\ down[i].change = c}}
NotSentTwice == \A c \in Change : \A p, q \in OnTheWay(c) : p = q

(* The status the console shows does not call a live connection closed:    *)
(* start() and stop() may be called again at any time, "engine 側が世代ガード *)
(* で多重呼び出しに耐える" (apps/admin/src/lib/sync.ts:78).                      *)
OpenIsNotClosed == open => status # "closed"

(* Unless the engine keeps being without a connection, every edit is       *)
(* answered: lost acks, lost pushes and old sockets are made up for by the *)
(* round of the next socket.                                               *)
Offline == ~open /\ tasks = {}
EveryEditAnswered ==
  <>[]~Offline => \A c \in Change : edit[c] = "pending" ~> edit[c] # "pending"

(* Unless the engine keeps being without a connection, the store ends up   *)
(* as the object's table once the writers are done, a reset included.      *)
CatchesUp == <>[]~Offline => <>[](store = rows)
=============================================================================
