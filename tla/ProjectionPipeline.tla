------------------------- MODULE ProjectionPipeline -------------------------
(***************************************************************************)
(* The way of a publication to its readers: the tenant's outbox, the       *)
(* queue, and the consumer that writes the public database.  The queue is  *)
(* unordered and delivers at least once; a message carries no data, so the *)
(* consumer fetches the current snapshot from the tenant's object first    *)
(* and writes it in a later step.  Messages whose retries are used up are  *)
(* parked in the dead_letters table, from which an operator may send them  *)
(* again.                                                                  *)
(***************************************************************************)
EXTENDS PublishOutbox, ProjectionStore

CONSTANTS
  Worker,    \* consumer invocations that can run at once
  MaxParked  \* bound of the model: dead letters at any time

ASSUME ParkedAssumption == MaxParked \in Nat

VARIABLES
  held,   \* payloads fetched by a worker and not written yet
  parked  \* the dead_letters table

consumerVars == <<rows, tombs, derived, held, parked>>
pipelineVars == <<vars, consumerVars>>

Payload == [by : Worker, job : Job, seq : Nat]

PipelineTypeOK ==
  /\ TypeOK
  /\ StoreTypeOK
  /\ held \in SUBSET Payload
  /\ parked \in SUBSET Job

PipelineInit ==
  /\ Init
  /\ StoreInit
  /\ held = {}
  /\ parked = {}

IsFree(w) == \A p \in held : p.by # w

(* message.ack(), which may itself be lost: the message comes again.       *)
Ack(m) == queue' \in {queue \ {m}, queue}

(* handleProjectionJob, "upsert": the payload is the snapshot of now, not  *)
(* the one the job was issued for; without one there is nothing to do, the *)
(* delete job will see to it.                                              *)
FetchPayload(w, m) ==
  /\ up /\ IsFree(w)
  /\ m.kind = "upsert"
  /\ snapshot[m.rec] # 0
  /\ held' = held \cup {[by |-> w, job |-> m, seq |-> snapshot[m.rec]]}
  /\ UNCHANGED <<vars, rows, tombs, derived, parked>>

(* Mistake: whatever the job, no snapshot means nothing to do.             *)
NothingToProjectAtAll(w, m) ==
  /\ up /\ IsFree(w)
  /\ snapshot[m.rec] = 0
  /\ Ack(m)
  /\ UNCHANGED <<objectVars, issued, consumerVars>>

NothingToProject(w, m) ==
  /\ up /\ IsFree(w)
  /\ m.kind = "upsert"
  /\ snapshot[m.rec] = 0
  /\ Ack(m)
  /\ UNCHANGED <<objectVars, issued, consumerVars>>

ProjectUpsert(p) ==
  /\ UpsertBatch(p.job.rec, p.seq)
  /\ held' = held \ {p}
  /\ Ack(p.job)
  /\ UNCHANGED <<objectVars, issued, parked>>

ProjectDelete(w, m) ==
  /\ IsFree(w)
  /\ m.kind = "delete"
  /\ DeleteBatch(m.rec, m.seq)
  /\ Ack(m)
  /\ UNCHANGED <<objectVars, issued, held, parked>>

(* The handler throws and the message is retried.                          *)
JobFails(p) ==
  /\ held' = held \ {p}
  /\ UNCHANGED <<vars, rows, tombs, derived, parked>>

(* max_retries is used up: the dead-letter consumer inserts the message    *)
(* into D1 before it acknowledges it.                                      *)
Park(m) ==
  /\ Cardinality(parked \cup {m}) <= MaxParked
  /\ parked' = parked \cup {m}
  /\ queue' = queue \ {m}
  /\ UNCHANGED <<objectVars, issued, rows, tombs, derived, held>>

(* An operator sends a dead letter again; the row stays.                   *)
Replay(m) ==
  /\ queue' = queue \cup {m}
  /\ UNCHANGED <<objectVars, issued, consumerVars>>

-----------------------------------------------------------------------------
ObjectSteps == Next /\ UNCHANGED consumerVars

ConsumerSteps ==
  \/ \E w \in Worker, m \in queue :
       FetchPayload(w, m) \/ NothingToProject(w, m) \/ ProjectDelete(w, m)
  \/ \E p \in held : ProjectUpsert(p) \/ JobFails(p)
  \/ \E m \in queue : Park(m)
  \/ \E m \in parked : Replay(m)

PipelineNext == ObjectSteps \/ ConsumerSteps

PipelineSpec == PipelineInit /\ [][PipelineNext]_pipelineVars
-----------------------------------------------------------------------------
(* Properties.                                                             *)

(* No state of the public database is lost silently: when a record does    *)
(* not show the outcome of its latest publish or unpublish, the job that   *)
(* will repair it is still waiting in the outbox, in the queue or among    *)
(* the dead letters.  In particular nothing is behind once all three have  *)
(* been worked off.                                                        *)
Reflected(j) ==
  IF j.kind = "upsert" THEN rows[j.rec] = j.seq ELSE rows[j.rec] = 0 /\ tombs[j.rec] = j.seq

LagHasJob ==
  \A j \in issued : Latest(j) => Reflected(j) \/ j \in unsent \cup queue \cup parked

(* The relation and index rows of a record always belong to the            *)
(* publication its row shows, although a batch rewrites them under guards  *)
(* of their own (consumer.ts, upsertStatements).                           *)
DerivedMatchesRow == derived = rows

(* The public database only moves forward: the pipeline implements the     *)
(* mirror that never brings back an older publication or a removed record. *)
ShownAt == [r \in Record |-> Shown(r)]
Mirror == INSTANCE PublicMirror WITH at <- ShownAt, visible <- rows
ImplementsMirror == Mirror!MirrorSpec

(* What the platform keeps doing for the consumer: a message that stays in *)
(* the queue is delivered again and again, and the object and the database *)
(* do not refuse every attempt.  The queue may still park it first.        *)
ConsumerFairness ==
  /\ SF_pipelineVars(\E p \in held : ProjectUpsert(p) /\ queue' = queue \ {p.job})
  /\ \A s \in 1 .. MaxSeq :
       SF_pipelineVars(\E m \in queue, w \in Worker :
         m.seq = s /\ (FetchPayload(w, m) \/ ProjectDelete(w, m)))

PipelineFairSpec == PipelineSpec /\ SweepFairness /\ ConsumerFairness

(* Every publication and every removal reaches the readers, unless a later *)
(* one overtakes it or its job ends up among the dead letters: a record    *)
(* that is left alone comes to show what its snapshot says.                *)
EventuallyShown ==
  \A r \in Record :
    <>[][snapshot'[r] = snapshot[r]]_vars
      => []<>(rows[r] = snapshot[r] \/ parked # {})
-----------------------------------------------------------------------------
(* The inductive invariant behind the safety properties.  Whatever the     *)
(* consumer has in hand or in its tables was issued; a payload is never    *)
(* older than the job it was fetched for; a row and a tombstone of one     *)
(* record exclude each other unless the row is the newer one.              *)
JobsIssued ==
  /\ queue \cup parked \subseteq issued
  /\ \A p \in held : /\ p.job \in issued /\ p.job.kind = "upsert"
                     /\ Upsert(p.job.rec, p.seq) \in issued
                     /\ p.job.seq <= p.seq

StoreInv ==
  \A r \in Record :
    /\ rows[r] # 0 => Upsert(r, rows[r]) \in issued
    /\ tombs[r] # 0 => Delete(r, tombs[r]) \in issued
    /\ rows[r] = 0 \/ tombs[r] < rows[r]

(* A latest job counts as waiting in the outbox only until it is sent.     *)
LagInv ==
  \A j \in issued : Latest(j) =>
    Reflected(j) \/ j \in queue \cup parked \/ AwaitsSend(j)

PipelineInv == JobsIssued /\ StoreInv /\ LagInv /\ DerivedMatchesRow
=============================================================================
