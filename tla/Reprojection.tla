---------------------------- MODULE Reprojection ----------------------------
(***************************************************************************)
(* The rebuild of a tenant's public database, while publications and       *)
(* removals go on.  A rebuild is a chain of queue messages: each projects  *)
(* one page of the snapshots and sends the message of the next page, and   *)
(* the last one sweeps the rows that no write has stamped since the        *)
(* rebuild's epoch.  Nothing stops two rebuilds from running at once.      *)
(*                                                                         *)
(* Time is a discrete clock.  A consumer takes the time once per batch of  *)
(* messages and stamps every row the batch writes with it; the epoch comes *)
(* from another isolate's clock.  The object's side is reduced to its      *)
(* snapshots: a committed job is in the queue at once, which is sound      *)
(* because a job's delay in the outbox is a delay in the queue.            *)
(***************************************************************************)
EXTENDS ProjectionStore, FiniteSets

CONSTANTS
  Worker,       \* consumer invocations that can run at once
  PageSize,     \* REPROJECT_PAGE_SIZE
  BatchSize,    \* max_batch_size of the queue
  Margin,       \* SWEEP_SKEW_MARGIN_MS
  Skew,         \* how far the object's clock may be from the consumers'
  MaxBatch,     \* bound of the model: duration of a batch
  MaxSeq,       \* bound of the model: publish_seq
  MaxTime,      \* bound of the model: the clock
  MaxRebuilds   \* bound of the model: rebuilds started

(* Records are numbered, in the order of their ids; these numbers are also *)
(* the publications that are there at the start.                           *)
ASSUME RecordsAssumption == IsFiniteSet(Record) /\ Record = 1 .. Cardinality(Record)
ASSUME TimesAssumption ==
  /\ {Margin, Skew, MaxBatch, MaxSeq, MaxTime, MaxRebuilds} \subseteq Nat
  /\ {PageSize, BatchSize} \subseteq Nat \ {0}

VARIABLES
  clock,     \* the consumers' clock
  snapshot,  \* published_snapshots, as in PublishOutbox
  seq,       \* the last publish_seq in use
  rebuilds,  \* how many rebuilds were started
  queue,     \* PROJECTION_QUEUE: jobs and rebuild messages
  stamp,     \* projected_at of each row
  batch,     \* what each worker is doing
  removed    \* history: the newest delete job carried out for each record

vars == <<rows, tombs, derived, clock, snapshot, seq, rebuilds, queue, stamp,
          batch, removed>>

(* A rebuild message; "known" is history: the last publish_seq in use when *)
(* the rebuild started.                                                    *)
Rebuild(from, epoch, known) ==
  [kind |-> "reproject", from |-> from, epoch |-> epoch, known |-> known]

NoMessage == [kind |-> "none"]

(* A batch that is not in the middle of a message.                         *)
Between(time, jobs) ==
  [at |-> time, jobs |-> jobs, msg |-> NoMessage, todo |-> {}, next |-> 0]

(* The public database may have lost rows, or hold rows of an earlier life *)
(* of the tenant: that is what rebuilds are for.                           *)
Init ==
  /\ snapshot \in [Record -> Record \cup {0}] /\ rows \in [Record -> Record \cup {0}]
  /\ \A r \in Record : {snapshot[r], rows[r]} \subseteq {0, r}
  /\ derived = rows
  /\ tombs = [r \in Record |-> 0]
  /\ stamp = [r \in Record |-> 0]
  /\ seq = Cardinality(Record)
  /\ clock = 0
  /\ rebuilds = 0
  /\ queue = {}
  /\ batch = [w \in Worker |-> Between(0, {})]
  /\ removed = [r \in Record |-> 0]
-----------------------------------------------------------------------------
(* The tenant's object.                                                    *)

Publish(r) ==
  /\ seq < MaxSeq
  /\ seq' = seq + 1
  /\ snapshot' = [snapshot EXCEPT ![r] = seq + 1]
  /\ queue' = queue \cup {Upsert(r, seq + 1)}
  /\ UNCHANGED <<rows, tombs, derived, clock, rebuilds, stamp, batch, removed>>

Unpublish(r) ==
  /\ seq < MaxSeq /\ snapshot[r] # 0
  /\ seq' = seq + 1
  /\ snapshot' = [snapshot EXCEPT ![r] = 0]
  /\ queue' = queue \cup {Delete(r, seq + 1)}
  /\ UNCHANGED <<rows, tombs, derived, clock, rebuilds, stamp, batch, removed>>

(* startReprojection: the epoch is the object's time.                      *)
StartReprojection ==
  /\ rebuilds < MaxRebuilds
  /\ rebuilds' = rebuilds + 1
  /\ \E d \in -Skew .. Skew : queue' = queue \cup {Rebuild(0, clock + d, seq)}
  /\ UNCHANGED <<rows, tombs, derived, clock, snapshot, seq, stamp, batch, removed>>

(* loadPublishedPage: the next page of snapshots in the order of the ids,  *)
(* and the cursor after a full page.                                       *)
Page(from) ==
  {r \in Record : /\ snapshot[r] # 0 /\ r > from
                  /\ Cardinality({x \in Record : snapshot[x] # 0 /\ x > from /\ x < r})
                       < PageSize}
(* Mistake: every page is taken for the last.                              *)
NoNextCursor(page) == 0
NextCursor(page) ==
  IF Cardinality(page) = PageSize THEN CHOOSE r \in page : \A x \in page : x <= r ELSE 0
-----------------------------------------------------------------------------
(* The queue consumer.                                                     *)

InFlight == UNION {batch[w].jobs : w \in Worker}

(* queue(): nowMs is taken before the first message.                       *)
StartBatch(w) ==
  /\ batch[w].jobs = {}
  /\ \E ms \in SUBSET (queue \ InFlight) :
       /\ ms # {} /\ Cardinality(ms) <= BatchSize
       /\ batch' = [batch EXCEPT ![w] = Between(clock, ms)]
  /\ UNCHANGED <<rows, tombs, derived, clock, snapshot, seq, rebuilds, queue,
                 stamp, removed>>

(* The payloads a message projects are read from the object at once and    *)
(* written one batch of statements each.                                   *)
Payloads(m) ==
  LET recs == IF m.kind = "upsert" THEN {m.rec} ELSE Page(m.from)
  IN  {[rec |-> r, seq |-> snapshot[r]] : r \in {x \in recs : snapshot[x] # 0}}

ReadPayloads(w, m) ==
  /\ batch[w].msg = NoMessage
  /\ m.kind # "delete"
  /\ batch' = [batch EXCEPT
       ![w].msg = m,
       ![w].todo = Payloads(m),
       ![w].next = IF m.kind = "reproject" THEN NextCursor(Page(m.from)) ELSE 0]
  /\ UNCHANGED <<rows, tombs, derived, clock, snapshot, seq, rebuilds, queue,
                 stamp, removed>>

(* The row of an upsert that wins carries the batch's time, also when it   *)
(* shows the same publication as before.                                   *)
WritePayload(w, p) ==
  /\ \A x \in batch[w].todo : p.rec <= x.rec
  /\ UpsertBatch(p.rec, p.seq)
  /\ stamp' = IF UpsertWins(p.rec, p.seq)
              THEN [stamp EXCEPT ![p.rec] = batch[w].at] ELSE stamp
  /\ batch' = [batch EXCEPT ![w].todo = @ \ {p}]
  /\ UNCHANGED <<clock, snapshot, seq, rebuilds, queue, removed>>

(* message.ack(), which may be lost, or message.retry(): the batch goes on *)
(* with the next message.                                                  *)
Settle(w, m) ==
  batch' = [batch EXCEPT ![w] =
    Between(IF batch[w].jobs = {m} THEN 0 ELSE batch[w].at, batch[w].jobs \ {m})]
Ack(w, m, sent) == queue' \in {(queue \ {m}) \cup sent, queue \cup sent} /\ Settle(w, m)

ProjectDelete(w, m) ==
  /\ batch[w].msg = NoMessage
  /\ m.kind = "delete"
  /\ DeleteBatch(m.rec, m.seq)
  /\ removed' = [removed EXCEPT ![m.rec] = IF @ < m.seq THEN m.seq ELSE @]
  /\ Ack(w, m, {})
  /\ UNCHANGED <<clock, snapshot, seq, rebuilds, stamp>>

EndUpsert(w) ==
  /\ batch[w].msg.kind = "upsert" /\ batch[w].todo = {}
  /\ Ack(w, batch[w].msg, {})
  /\ UNCHANGED <<rows, tombs, derived, clock, snapshot, seq, rebuilds, stamp, removed>>

(* handleReprojectJob after a full page: the chain goes on.                *)
SendNextPage(w) ==
  LET m == batch[w].msg IN
  /\ m.kind = "reproject" /\ batch[w].todo = {} /\ batch[w].next # 0
  /\ Ack(w, m, {Rebuild(batch[w].next, m.epoch, m.known)})
  /\ UNCHANGED <<rows, tombs, derived, clock, snapshot, seq, rebuilds, stamp, removed>>

(* Mistake: no margin for the difference of the clocks.                    *)
StaleAtOnce(epoch) == {r \in Record : stamp[r] < epoch}

(* handleReprojectJob after the last page: the rows whose stamp lies before*)
(* the epoch by more than the margin go.                                   *)
Stale(epoch) == {r \in Record : stamp[r] < epoch - Margin}

Sweeps(w) ==
  batch[w].msg.kind = "reproject" /\ batch[w].todo = {} /\ batch[w].next = 0

Sweep(w) ==
  /\ Sweeps(w)
  /\ SweepBatch(Stale(batch[w].msg.epoch))
  /\ Ack(w, batch[w].msg, {})
  /\ UNCHANGED <<clock, snapshot, seq, rebuilds, stamp, removed>>

(* A call of the handler throws: what was written stays.                   *)
JobFails(w) ==
  /\ batch[w].msg # NoMessage
  /\ Settle(w, batch[w].msg)
  /\ UNCHANGED <<rows, tombs, derived, clock, snapshot, seq, rebuilds, queue,
                 stamp, removed>>

(* No batch runs longer than MaxBatch.                                     *)
Tick ==
  /\ clock < MaxTime
  /\ \A w \in Worker : batch[w].jobs # {} => clock + 1 - batch[w].at <= MaxBatch
  /\ clock' = clock + 1
  /\ UNCHANGED <<rows, tombs, derived, snapshot, seq, rebuilds, queue, stamp,
                 batch, removed>>
-----------------------------------------------------------------------------
Next ==
  \/ \E r \in Record : Publish(r) \/ Unpublish(r)
  \/ StartReprojection
  \/ \E w \in Worker :
       \/ StartBatch(w)
       \/ \E m \in batch[w].jobs : ReadPayloads(w, m) \/ ProjectDelete(w, m)
       \/ \E p \in batch[w].todo : WritePayload(w, p)
       \/ EndUpsert(w) \/ SendNextPage(w) \/ Sweep(w) \/ JobFails(w)
  \/ Tick

Spec == Init /\ [][Next]_vars
-----------------------------------------------------------------------------
(* Properties.                                                             *)

(* A row that shows the current publication is never taken away, neither   *)
(* by a sweep nor by a late delete job: readers of a published record are  *)
(* not disturbed by rebuilds (consumer.ts, handleReprojectJob).            *)
CurrentRowSurvives ==
  [][\A r \in Record : rows[r] # 0 /\ rows[r] = snapshot[r] => rows'[r] # 0]_vars

(* A removal is final for the publications before it, whatever pages were  *)
(* read before and are written after it: the tombstones outlive sweeps,    *)
(* and a sweep takes no newer row while anything older is in hand.         *)
NoResurrection ==
  [][\A r \in Record : rows'[r] # rows[r] /\ rows'[r] # 0 => rows'[r] > removed[r]]_vars

(* When a rebuild sweeps, every record that was published when it started  *)
(* and has not changed since is there again.                               *)
RebuildRestores ==
  [][\A w \in Worker : Sweep(w) =>
       \A r \in Record :
         snapshot[r] \in 1 .. batch[w].msg.known => rows'[r] = snapshot[r]]_vars
=============================================================================
