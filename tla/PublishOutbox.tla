--------------------------- MODULE PublishOutbox ---------------------------
(***************************************************************************)
(* The publishing side of one tenant's Durable Object: the published       *)
(* snapshots, the publish_seq counter, the transactional outbox of         *)
(* projection jobs, and the sweep alarm that picks up what the fast path   *)
(* did not send.                                                           *)
(*                                                                         *)
(* A request (publish, unpublish, delete) commits its transaction and then *)
(* drains the outbox; both are separate steps because the handler awaits   *)
(* in between and the object may be evicted there.  The alarm handler      *)
(* drains the same outbox.  Every await of a drain is a step boundary, so  *)
(* drains of several handlers interleave.                                  *)
(*                                                                         *)
(* A snapshot is represented by its publish_seq: the content published     *)
(* under a publish_seq never changes.                                      *)
(***************************************************************************)
EXTENDS ProjectionJobs, FiniteSets

CONSTANTS
  AssetsOf,    \* the assets each record's relations point at
  Request,     \* handlers that can be in flight at once
  Alarm,       \* the alarm handler
  DrainLimit,  \* rows one drain takes (50 in the code)
  MaxSeq       \* bound of the model: publish_seq is never advanced past it

ASSUME AssetsAssumption ==
  /\ AssetsOf \in [Record -> SUBSET Record]
  /\ \A r \in Record : IsFiniteSet(AssetsOf[r])
ASSUME HandlersAssumption == Alarm \notin Request
ASSUME LimitsAssumption == DrainLimit \in Nat \ {0} /\ MaxSeq \in Nat

VARIABLES
  up,          \* the object is in memory (not evicted)
  live,        \* records that exist and carry no deleted_at
  snapshot,    \* published_snapshots: publish_seq of each record's row, 0 for none
  publishSeq,  \* the counter in memory
  storedSeq,   \* do_config.publish_seq
  unsent,      \* outbox rows with sent = 0
  sent,        \* outbox rows with sent = 1 that no sweep has purged yet
  registered,  \* alarm_registry has an outbox_sweep row
  physical,    \* the object's one physical alarm is set
  task,        \* what each handler is doing
  queue,       \* PROJECTION_QUEUE
  issued       \* history: every job ever committed to the outbox

objectVars == <<up, live, snapshot, publishSeq, storedSeq, unsent, sent,
                registered, physical, task>>
vars == <<objectVars, queue, issued>>

Handler == Request \cup {Alarm}
Idle == [phase |-> "idle", rows |-> {}]

TypeOK ==
  /\ up \in BOOLEAN
  /\ live \in SUBSET Record
  /\ snapshot \in [Record -> Nat]
  /\ publishSeq \in Nat
  /\ storedSeq \in Nat
  /\ unsent \in SUBSET Job
  /\ sent \in SUBSET Job
  /\ registered \in BOOLEAN
  /\ physical \in BOOLEAN
  /\ task \in [Handler -> [phase : {"idle", "committed", "sending", "sent", "drained"},
                           rows : SUBSET Job]]
  /\ queue \in SUBSET Job
  /\ issued \in SUBSET Job

Init ==
  /\ up = TRUE
  /\ live = Record
  /\ snapshot = [r \in Record |-> 0]
  /\ publishSeq = 0
  /\ storedSeq = 0
  /\ unsent = {}
  /\ sent = {}
  /\ registered = FALSE
  /\ physical = FALSE
  /\ task = [h \in Handler |-> Idle]
  /\ queue = {}
  /\ issued = {}

-----------------------------------------------------------------------------
(* The transactions of the requests.                                       *)

(* Mistake: deleted assets are published along.                            *)
CascadeToDeleted(r) == {a \in AssetsOf[r] \ {r} : snapshot[a] = 0}

(* Referenced assets that a publish takes along: existing, not deleted and *)
(* not published yet.                                                      *)
Cascade(r) == {a \in AssetsOf[r] \ {r} : a \in live /\ snapshot[a] = 0}

(* nextPublishSeq: the counter and do_config advance in one transaction,   *)
(* together with the rows that use the new numbers.                        *)
TakeSeqs(last, jobs) ==
  /\ publishSeq' = last
  /\ storedSeq' = last
  /\ unsent' = unsent \cup jobs
  /\ issued' = issued \cup jobs

(* registerAlarm and setAlarm, both part of the transaction.               *)
ArmSweep == registered' = TRUE /\ physical' = TRUE

BeginDrain(q) == task' = [task EXCEPT ![q] = [phase |-> "committed", rows |-> {}]]

(* publishRecord: the cascaded assets first, the record itself last.       *)
Publish(q, r) ==
  LET assets == Cascade(r)
      last == publishSeq + Cardinality(assets) + 1
  IN
  /\ up /\ task[q].phase = "idle"
  /\ r \in live
  /\ last <= MaxSeq
  /\ \E num \in [assets -> (publishSeq + 1) .. (last - 1)] :
       /\ \A a, b \in assets : num[a] = num[b] => a = b
       /\ snapshot' = [x \in Record |-> IF x = r THEN last
                                        ELSE IF x \in assets THEN num[x]
                                        ELSE snapshot[x]]
       /\ TakeSeqs(last, {Upsert(a, num[a]) : a \in assets} \cup {Upsert(r, last)})
  /\ ArmSweep
  /\ BeginDrain(q)
  /\ UNCHANGED <<up, live, sent, queue>>

(* unpublishRecord: the delete job takes a publish_seq of its own.         *)
Unpublish(q, r) ==
  /\ up /\ task[q].phase = "idle"
  /\ snapshot[r] # 0
  /\ publishSeq + 1 <= MaxSeq
  /\ snapshot' = [snapshot EXCEPT ![r] = 0]
  /\ TakeSeqs(publishSeq + 1, {Delete(r, publishSeq + 1)})
  /\ ArmSweep
  /\ BeginDrain(q)
  /\ UNCHANGED <<up, live, sent, queue>>

(* deleteRecord of a published record: the tombstone forces an unpublish.  *)
DeletePublished(q, r) ==
  /\ up /\ task[q].phase = "idle"
  /\ r \in live /\ snapshot[r] # 0
  /\ publishSeq + 1 <= MaxSeq
  /\ live' = live \ {r}
  /\ snapshot' = [snapshot EXCEPT ![r] = 0]
  /\ TakeSeqs(publishSeq + 1, {Delete(r, publishSeq + 1)})
  /\ ArmSweep
  /\ BeginDrain(q)
  /\ UNCHANGED <<up, sent, queue>>

(* deleteRecord of an unpublished record adds no row; it arms the sweep    *)
(* only for rows an earlier drain left behind.                             *)
DeleteUnpublished(q, r) ==
  /\ up /\ task[q].phase = "idle"
  /\ r \in live /\ snapshot[r] = 0
  /\ live' = live \ {r}
  /\ IF unsent # {} THEN ArmSweep ELSE UNCHANGED <<registered, physical>>
  /\ BeginDrain(q)
  /\ UNCHANGED <<up, snapshot, publishSeq, storedSeq, unsent, sent, queue, issued>>

(* restoreRecord clears deleted_at; it does not publish.                   *)
Restore(r) ==
  /\ up /\ r \notin live
  /\ live' = live \cup {r}
  /\ UNCHANGED <<up, snapshot, publishSeq, storedSeq, unsent, sent, registered,
                 physical, task, queue, issued>>

(* Mistake: the number is given back, but one that was not taken.          *)
RollBackTooFar ==
  /\ up /\ publishSeq + 1 <= MaxSeq
  /\ publishSeq' = publishSeq - 1
  /\ UNCHANGED <<up, live, snapshot, storedSeq, unsent, sent, registered,
                 physical, task, queue, issued>>

(* A publishing transaction that throws after nextPublishSeq: the rows and *)
(* do_config roll back, the counter in memory does not.                    *)
RollBack ==
  /\ up /\ publishSeq + 1 <= MaxSeq
  /\ publishSeq' = publishSeq + 1
  /\ UNCHANGED <<up, live, snapshot, storedSeq, unsent, sent, registered,
                 physical, task, queue, issued>>

-----------------------------------------------------------------------------
(* drainOutbox, in a request or in the alarm handler.                      *)

(* SELECT ... WHERE sent = 0 ORDER BY rowid LIMIT: rows are inserted in    *)
(* publish_seq order.                                                      *)
FirstUnsent ==
  {j \in unsent : Cardinality({k \in unsent : k.seq < j.seq}) < DrainLimit}

(* Where a handler goes when its drain is over: the alarm still has the    *)
(* tail of sweepOutbox to run.                                             *)
AfterDrain(h) == [phase |-> IF h = Alarm THEN "drained" ELSE "idle", rows |-> {}]

Draining(h, rows) ==
  IF rows = {} THEN AfterDrain(h) ELSE [phase |-> "sending", rows |-> rows]

StartDrain(h) ==
  /\ up /\ task[h].phase = "committed"
  /\ task' = [task EXCEPT ![h] = Draining(h, FirstUnsent)]
  /\ UNCHANGED <<up, live, snapshot, publishSeq, storedSeq, unsent, sent,
                 registered, physical, queue, issued>>

IsNext(h, j) == j \in task[h].rows /\ \A k \in task[h].rows : j.seq <= k.seq

(* The awaited send succeeds; marking the row is a later step.             *)
SendRow(h, j) ==
  /\ up /\ task[h].phase = "sending" /\ IsNext(h, j)
  /\ queue' = queue \cup {j}
  /\ task' = [task EXCEPT ![h].phase = "sent"]
  /\ UNCHANGED <<up, live, snapshot, publishSeq, storedSeq, unsent, sent,
                 registered, physical, issued>>

MarkSent(h, j) ==
  /\ up /\ task[h].phase = "sent" /\ IsNext(h, j)
  /\ unsent' = unsent \ {j}
  /\ sent' = IF j \in unsent THEN sent \cup {j} ELSE sent
  /\ task' = [task EXCEPT ![h] = Draining(h, task[h].rows \ {j})]
  /\ UNCHANGED <<up, live, snapshot, publishSeq, storedSeq, registered,
                 physical, queue, issued>>

(* Mistake: the row is marked whether or not its send failed.              *)
SendFailsButMarked(h, j) ==
  /\ up /\ task[h].phase = "sending" /\ IsNext(h, j)
  /\ queue' \in {queue, queue \cup {j}}
  /\ unsent' = unsent \ {j}
  /\ task' = [task EXCEPT ![h] = AfterDrain(h)]
  /\ UNCHANGED <<up, live, snapshot, publishSeq, storedSeq, sent,
                 registered, physical, issued>>

(* The send throws: the message may have reached the queue all the same.   *)
(* The drain gives up and leaves the rest to the sweep.                    *)
SendFails(h, j) ==
  /\ up /\ task[h].phase = "sending" /\ IsNext(h, j)
  /\ queue' \in {queue, queue \cup {j}}
  /\ task' = [task EXCEPT ![h] = AfterDrain(h)]
  /\ UNCHANGED <<up, live, snapshot, publishSeq, storedSeq, unsent, sent,
                 registered, physical, issued>>

-----------------------------------------------------------------------------
(* The alarm.                                                              *)

(* The platform clears the physical alarm and calls alarm(); without a due *)
(* outbox_sweep the handler has nothing to do.                             *)
AlarmFires ==
  /\ up /\ physical /\ task[Alarm].phase = "idle"
  /\ physical' = FALSE
  /\ task' = IF registered
             THEN [task EXCEPT ![Alarm] = [phase |-> "committed", rows |-> {}]]
             ELSE task
  /\ UNCHANGED <<up, live, snapshot, publishSeq, storedSeq, unsent, sent,
                 registered, queue, issued>>

(* Mistake: the registration goes although rows are left.                  *)
FinishSweepForGood ==
  /\ up /\ task[Alarm].phase = "drained"
  /\ registered' = FALSE
  /\ sent' = IF unsent = {} THEN {} ELSE sent
  /\ task' = [task EXCEPT ![Alarm] = Idle]
  /\ UNCHANGED <<up, live, snapshot, publishSeq, storedSeq, unsent, physical,
                 queue, issued>>

(* The tail of sweepOutbox and of alarm(): the registration is dropped and *)
(* made again when rows are left, otherwise the sent rows are purged.      *)
FinishSweep ==
  /\ up /\ task[Alarm].phase = "drained"
  /\ registered' = (unsent # {})
  /\ sent' = IF unsent = {} THEN {} ELSE sent
  /\ physical' = (physical \/ registered')
  /\ task' = [task EXCEPT ![Alarm] = Idle]
  /\ UNCHANGED <<up, live, snapshot, publishSeq, storedSeq, unsent, queue, issued>>

-----------------------------------------------------------------------------
(* Eviction and restart.                                                   *)

(* Memory is lost.  An alarm handler that was running is run again by the  *)
(* platform, unless its retries are used up.                               *)
Evict ==
  /\ up
  /\ up' = FALSE
  /\ publishSeq' = 0
  /\ task' = [h \in Handler |-> Idle]
  /\ IF task[Alarm].phase = "idle"
     THEN UNCHANGED physical
     ELSE physical' \in {physical, TRUE}
  /\ UNCHANGED <<live, snapshot, storedSeq, unsent, sent, registered, queue, issued>>

(* Mistake: the counter is restored from the tables, which are purged.     *)
FloorOfTables == {0} \cup {snapshot[r] : r \in Record} \cup {j.seq : j \in unsent \cup sent}

(* The counter restored by the constructor: do_config is the source, the   *)
(* tables are a floor.                                                     *)
Floor == {storedSeq} \cup {snapshot[r] : r \in Record}
                     \cup {j.seq : j \in unsent \cup sent}
Restored(n) == n \in Floor /\ \A m \in Floor : m <= n

(* Mistake: the constructor leaves the alarm as it is.                     *)
RestartUnarmed ==
  /\ ~up
  /\ up' = TRUE
  /\ \E n \in Floor : Restored(n) /\ publishSeq' = n
  /\ UNCHANGED <<live, snapshot, storedSeq, unsent, sent, registered, physical, task,
                 queue, issued>>

(* The constructor also sets the physical alarm again when the registry    *)
(* has a row and no alarm is set.                                          *)
Restart ==
  /\ ~up
  /\ up' = TRUE
  /\ \E n \in Floor : Restored(n) /\ publishSeq' = n
  /\ physical' = (physical \/ registered)
  /\ UNCHANGED <<live, snapshot, storedSeq, unsent, sent, registered, task, queue, issued>>
-----------------------------------------------------------------------------
Requests ==
  \/ \E q \in Request, r \in Record :
       \/ Publish(q, r) \/ Unpublish(q, r)
       \/ DeletePublished(q, r) \/ DeleteUnpublished(q, r)
  \/ \E r \in Record : Restore(r)
  \/ RollBack

Drains ==
  \E h \in Handler :
    \/ StartDrain(h)
    \/ \E j \in task[h].rows : SendRow(h, j) \/ MarkSent(h, j) \/ SendFails(h, j)

Next == Requests \/ Drains \/ AlarmFires \/ FinishSweep \/ Evict \/ Restart

Spec == Init /\ [][Next]_vars

(* What the platform and the constructor keep running: a call restarts an  *)
(* evicted object, an alarm that is set fires, and the queue does not      *)
(* refuse every send forever.  Requests are not fair: a drain that a       *)
(* request dies in is the sweep's to finish.                               *)
SweepFairness ==
  /\ WF_vars(Restart)
  /\ SF_vars(AlarmFires)
  /\ SF_vars(StartDrain(Alarm))
  /\ SF_vars(\E j \in task[Alarm].rows : SendRow(Alarm, j))
  /\ SF_vars(\E j \in task[Alarm].rows : MarkSent(Alarm, j))
  /\ SF_vars(FinishSweep)

-----------------------------------------------------------------------------
(* Properties.                                                             *)

(* nextPublishSeq never hands out a number again, across rollbacks,        *)
(* purges and evictions: what is committed next outranks every job that    *)
(* was ever committed (tenant-do.ts: gaps are allowed, reuse is not).      *)
SeqNeverReused ==
  [][\A j \in issued' \ issued, k \in issued : k.seq < j.seq]_vars

(* A job leaves the unsent rows only by way of the queue: no order of      *)
(* sends, marks, failures, purges and evictions loses a committed job.     *)
NoJobLost == \A j \in issued : j \in unsent \/ j \in queue

(* Unsent rows always have someone to come for them: the registry keeps an *)
(* outbox_sweep row, and while the object is in memory the physical alarm  *)
(* is set or the alarm handler is at work.                                 *)
NoStrandedRow ==
  unsent # {} =>
    /\ registered
    /\ up => physical \/ task[Alarm].phase # "idle"

(* A deleted record is never left published, and the snapshot table always *)
(* agrees with the last job issued for a record: that is what lets the     *)
(* consumer fetch the payload by record id alone.                          *)
Latest(j) == \A k \in issued : k.rec = j.rec => k.seq <= j.seq
SnapshotIsLatestJob ==
  /\ \A r \in Record : snapshot[r] # 0 =>
       /\ r \in live
       /\ Upsert(r, snapshot[r]) \in issued /\ Latest(Upsert(r, snapshot[r]))
  /\ \A j \in issued : Latest(j) =>
       snapshot[j.rec] = IF j.kind = "upsert" THEN j.seq ELSE 0
-----------------------------------------------------------------------------
(* The inductive invariant behind the safety properties.  The numbers in   *)
(* use stay at or below do_config, which the counter never falls behind    *)
(* while the object is up; and nothing is drained that was not issued.     *)
SeqInv ==
  /\ \A j \in issued : 0 < j.seq /\ j.seq <= storedSeq
  /\ \A j, k \in issued : j.seq = k.seq => j = k
  /\ up => storedSeq <= publishSeq

RowsIssued ==
  /\ unsent \subseteq issued /\ sent \subseteq issued
  /\ \A h \in Handler : task[h].rows \subseteq issued

ObjectInv == SeqInv /\ RowsIssued /\ SnapshotIsLatestJob /\ NoStrandedRow

(* A job still needs the outbox until a handler has sent it: the mark that  *)
(* follows only removes what the queue has already.                        *)
AwaitsSend(j) ==
  j \in unsent /\ \A h \in Handler : ~(task[h].phase = "sent" /\ IsNext(h, j))

DeliveryInv == \A j \in issued : j \in queue \/ AwaitsSend(j)
=============================================================================
