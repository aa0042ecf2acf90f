---------------------- MODULE ProjectionPipeline_proofs ----------------------
(* Safety of the projection pipeline, for any records, requests, consumer  *)
(* invocations and limits: what the readers of the public database see is  *)
(* repaired by a waiting job or up to date, and never moves backwards.     *)
EXTENDS ProjectionPipeline, FiniteSetTheorems, TLAPS

-----------------------------------------------------------------------------
(* The publishing side, for any records, requests and limits.              *)

-----------------------------------------------------------------------------
(* A publish takes at least one number, whatever it cascades to.           *)
LEMMA CascadeSize ==
  ASSUME NEW r \in Record
  PROVE  Cardinality(Cascade(r)) \in Nat
<1>1. IsFiniteSet(AssetsOf[r])
  BY AssetsAssumption
<1>2. Cascade(r) \subseteq AssetsOf[r]
  BY DEF Cascade
<1>3. IsFiniteSet(Cascade(r))
  BY <1>1, <1>2, FS_Subset
<1> QED
  BY <1>3, FS_CardinalityType

(* The jobs a publish commits: one per record it touches, numbered above   *)
(* the counter.                                                            *)
PublishJobs(r, num, last) ==
  {Upsert(a, num[a]) : a \in Cascade(r)} \cup {Upsert(r, last)}

LEMMA PublishJobsFresh ==
  ASSUME NEW r \in Record, publishSeq \in Nat,
         NEW last, last = publishSeq + Cardinality(Cascade(r)) + 1,
         NEW num \in [Cascade(r) -> (publishSeq + 1) .. (last - 1)],
         AssetsOf \in [Record -> SUBSET Record]
  PROVE  /\ last \in Nat /\ last > publishSeq
         /\ \A a \in Cascade(r) : num[a] \in Nat /\ num[a] > publishSeq /\ num[a] < last
         /\ PublishJobs(r, num, last) \subseteq Job
         /\ \A j \in PublishJobs(r, num, last) : j.seq > publishSeq /\ j.seq <= last
<1>1. Cardinality(Cascade(r)) \in Nat
  BY CascadeSize
<1>2. last \in Nat /\ last > publishSeq
  BY <1>1
<1>3. \A a \in Cascade(r) : num[a] \in (publishSeq + 1) .. (last - 1) /\ a \in Record
  BY DEF Cascade
<1>4. \A a \in Cascade(r) : num[a] \in Nat /\ num[a] > publishSeq /\ num[a] < last
  BY <1>2, <1>3
<1>5. PublishJobs(r, num, last) \subseteq Job
  BY <1>2, <1>3, <1>4 DEF PublishJobs, Job, Upsert
<1>6. \A j \in PublishJobs(r, num, last) : j.seq > publishSeq /\ j.seq <= last
  BY <1>2, <1>4 DEF PublishJobs, Upsert
<1> QED
  BY <1>2, <1>4, <1>5, <1>6
-----------------------------------------------------------------------------
(* The rows a drain takes are unsent rows, and a drain's next state is one  *)
(* of the handler states.                                                   *)
States == [phase : {"idle", "committed", "sending", "sent", "drained"},
           rows : SUBSET Job]

LEMMA DrainStates ==
  ASSUME NEW h, NEW rs \in SUBSET Job
  PROVE  Draining(h, rs) \in States /\ AfterDrain(h) \in States
         /\ Draining(h, rs).rows \subseteq rs /\ AfterDrain(h).rows = {}
BY DEF Draining, AfterDrain, States

LEMMA TypeInit == Init => TypeOK
<1>1. Idle \in States
  BY DEF Idle, States
<1>2. ASSUME Init
      PROVE  task \in [Handler -> States]
  BY <1>1, <1>2 DEF Init
<1>3. ASSUME Init
      PROVE  snapshot \in [Record -> Nat] /\ publishSeq \in Nat /\ storedSeq \in Nat
  BY <1>3 DEF Init
<1>4. ASSUME Init
      PROVE  up \in BOOLEAN /\ registered \in BOOLEAN /\ physical \in BOOLEAN
  BY <1>4, Zenon DEF Init
<1> QED
  BY <1>2, <1>3, <1>4 DEF Init, TypeOK, States

LEMMA TypeStep ==
  ASSUME TypeOK, [Next]_vars
  PROVE  TypeOK'
<1> USE DEF TypeOK, Handler
<1>1. ASSUME NEW q \in Request, NEW r \in Record, Publish(q, r)
      PROVE  TypeOK'
  <2> DEFINE last == publishSeq + Cardinality(Cascade(r)) + 1
  <2>1. PICK num \in [Cascade(r) -> (publishSeq + 1) .. (last - 1)] :
          /\ snapshot' = [x \in Record |-> IF x = r THEN last
                                           ELSE IF x \in Cascade(r) THEN num[x]
                                           ELSE snapshot[x]]
          /\ TakeSeqs(last, PublishJobs(r, num, last))
    BY <1>1 DEF Publish, PublishJobs
  <2> HIDE DEF last
  <2>2. last \in Nat /\ PublishJobs(r, num, last) \subseteq Job
        /\ \A a \in Cascade(r) : num[a] \in Nat
    BY <2>1, PublishJobsFresh, AssetsAssumption DEF last
  <2>3. snapshot' \in [Record -> Nat]
    BY <2>1, <2>2
  <2> QED
    BY <1>1, <2>1, <2>2, <2>3 DEF Publish, TakeSeqs, ArmSweep, BeginDrain
<1>2. ASSUME NEW q \in Request, NEW r \in Record, Unpublish(q, r)
      PROVE  TypeOK'
  BY <1>2 DEF Unpublish, TakeSeqs, ArmSweep, BeginDrain, Delete, Job
<1>3. ASSUME NEW q \in Request, NEW r \in Record, DeletePublished(q, r)
      PROVE  TypeOK'
  BY <1>3 DEF DeletePublished, TakeSeqs, ArmSweep, BeginDrain, Delete, Job
<1>4. ASSUME NEW q \in Request, NEW r \in Record, DeleteUnpublished(q, r)
      PROVE  TypeOK'
  BY <1>4 DEF DeleteUnpublished, ArmSweep, BeginDrain
<1>5. ASSUME NEW r \in Record, Restore(r)
      PROVE  TypeOK'
  BY <1>5 DEF Restore
<1>6. CASE RollBack
  BY <1>6 DEF RollBack
<1>7. ASSUME NEW h \in Handler, StartDrain(h)
      PROVE  TypeOK'
  <2>1. Draining(h, FirstUnsent) \in States
    BY DrainStates DEF FirstUnsent
  <2> QED
    BY <1>7, <2>1 DEF StartDrain, States
<1>8. ASSUME NEW h \in Handler, NEW j \in task[h].rows, SendRow(h, j)
      PROVE  TypeOK'
  BY <1>8 DEF SendRow
<1>9. ASSUME NEW h \in Handler, NEW j \in task[h].rows, MarkSent(h, j)
      PROVE  TypeOK'
  <2>1. Draining(h, task[h].rows \ {j}) \in States
    BY DrainStates
  <2> QED
    BY <1>9, <2>1 DEF MarkSent, States
<1>10. ASSUME NEW h \in Handler, NEW j \in task[h].rows, SendFails(h, j)
       PROVE  TypeOK'
  <2>1. AfterDrain(h) \in States
    BY DrainStates
  <2> QED
    BY <1>10, <2>1 DEF SendFails, States
<1>11. CASE AlarmFires
  BY <1>11 DEF AlarmFires
<1>12. CASE FinishSweep
  BY <1>12 DEF FinishSweep, Idle
<1>13. CASE Evict
  BY <1>13 DEF Evict, Idle
<1>14. CASE Restart
  BY <1>14 DEF Restart, Floor, Job
<1>15. CASE UNCHANGED vars
  BY <1>15 DEF vars, objectVars
<1> QED
  BY <1>1, <1>2, <1>3, <1>4, <1>5, <1>6, <1>7, <1>8, <1>9, <1>10, <1>11,
     <1>12, <1>13, <1>14, <1>15 DEF Next, Requests, Drains

(* Every variable keeps its type: the drains handle outbox rows only, and   *)
(* the counters stay numbers across rollbacks, evictions and restarts.      *)
THEOREM TypeCorrect == Spec => []TypeOK
BY TypeInit, TypeStep, PTL DEF Spec
-----------------------------------------------------------------------------
(* A transaction that commits jobs under fresh numbers, at most one per    *)
(* record, and leaves the snapshots as those jobs say.                     *)
LEMMA CommitStep ==
  ASSUME TypeOK, SeqInv, SnapshotIsLatestJob, up,
         NEW jobs \in SUBSET Job, NEW last \in Nat,
         \A j \in jobs : publishSeq < j.seq /\ j.seq <= last,
         \A j, k \in jobs : j.seq = k.seq \/ j.rec = k.rec => j = k,
         TakeSeqs(last, jobs), publishSeq <= last,
         \A j \in jobs : snapshot'[j.rec] = IF j.kind = "upsert" THEN j.seq ELSE 0,
         \A r \in Record : (\A j \in jobs : j.rec # r) => snapshot'[r] = snapshot[r],
         \A r \in Record : snapshot'[r] # 0 => r \in live'
  PROVE  SeqInv' /\ SnapshotIsLatestJob'
         /\ \A j \in issued' \ issued, k \in issued : k.seq < j.seq
<1> USE DEF TypeOK, SeqInv, TakeSeqs
<1>1. \A k \in issued : k.seq \in Nat /\ k.seq <= publishSeq /\ k.rec \in Record
  BY DEF Job
<1>2. \A j \in jobs : j.seq \in Nat /\ j.rec \in Record /\ j.seq > 0
  BY DEF Job
<1>3. \A j \in jobs, k \in issued : k.seq < j.seq
  BY <1>1, <1>2
<1>4. SeqInv'
  BY <1>1, <1>2, <1>3
<1>5. ASSUME NEW r \in Record, snapshot'[r] # 0
      PROVE  /\ r \in live'
             /\ Upsert(r, snapshot'[r]) \in issued'
             /\ Latest(Upsert(r, snapshot[r]))'
  <2>1. CASE \A j \in jobs : j.rec # r
    <3>1. Upsert(r, snapshot[r]) \in issued /\ Latest(Upsert(r, snapshot[r]))
      BY <1>5, <2>1 DEF SnapshotIsLatestJob
    <3>2. snapshot'[r] = snapshot[r]
      BY <2>1
    <3>3. Upsert(r, snapshot[r]).rec = r
      BY DEF Upsert
    <3> QED
      BY <1>5, <2>1, <3>1, <3>2, <3>3 DEF Latest
  <2>2. ASSUME NEW j \in jobs, j.rec = r
        PROVE  Upsert(r, snapshot'[r]) \in issued' /\ Latest(Upsert(r, snapshot[r]))'
    <3>1. j.kind = "upsert" /\ snapshot'[r] = j.seq
      BY <1>5, <2>2
    <3>2. j = Upsert(r, j.seq)
      BY <2>2, <3>1 DEF Job, Upsert
    <3>3. \A k \in issued' : k.rec = r => k.seq <= j.seq
      BY <1>1, <1>2, <1>3, <2>2
    <3> QED
      BY <2>2, <3>1, <3>2, <3>3 DEF Latest
  <2> QED
    BY <1>5, <2>1, <2>2
<1>6. ASSUME NEW j \in issued', Latest(j)'
      PROVE  snapshot'[j.rec] = IF j.kind = "upsert" THEN j.seq ELSE 0
  <2>1. CASE j \in jobs
    BY <2>1
  <2>2. CASE j \in issued /\ j \notin jobs
    <3>1. \A k \in jobs : k.rec # j.rec
      BY <1>1, <1>2, <1>3, <1>6, <2>2 DEF Latest
    <3>2. Latest(j)
      BY <1>6 DEF Latest
    <3> QED
      BY <1>1, <2>2, <3>1, <3>2 DEF SnapshotIsLatestJob
  <2> QED
    BY <2>1, <2>2
<1> QED
  BY <1>3, <1>4, <1>5, <1>6 DEF SnapshotIsLatestJob
-----------------------------------------------------------------------------
(* Steps that only move handlers, the alarm and the rows between sent and   *)
(* unsent keep what SeqInv and SnapshotIsLatestJob say.                     *)
LEMMA QuietStep ==
  ASSUME SeqInv, SnapshotIsLatestJob,
         UNCHANGED <<snapshot, issued>>,
         storedSeq' = storedSeq, up' => storedSeq' <= publishSeq',
         \A r \in Record : snapshot[r] # 0 => r \in live'
  PROVE  SeqInv' /\ SnapshotIsLatestJob'
         /\ \A j \in issued' \ issued, k \in issued : k.seq < j.seq
BY DEF SeqInv, SnapshotIsLatestJob, Latest

Fresh == \A j \in issued' \ issued, k \in issued : k.seq < j.seq

LEMMA PublishStep ==
  ASSUME TypeOK, ObjectInv, NEW q \in Request, NEW r \in Record, Publish(q, r)
  PROVE  SeqInv' /\ SnapshotIsLatestJob' /\ Fresh /\ RowsIssued'
<1> DEFINE last == publishSeq + Cardinality(Cascade(r)) + 1
<1>1. PICK num \in [Cascade(r) -> (publishSeq + 1) .. (last - 1)] :
        /\ \A a, b \in Cascade(r) : num[a] = num[b] => a = b
        /\ snapshot' = [x \in Record |-> IF x = r THEN last
                                         ELSE IF x \in Cascade(r) THEN num[x]
                                         ELSE snapshot[x]]
        /\ TakeSeqs(last, PublishJobs(r, num, last))
  BY DEF Publish, PublishJobs
<1> DEFINE jobs == PublishJobs(r, num, last)
<1>2. publishSeq \in Nat
  BY DEF TypeOK
<1> HIDE DEF last
<1>3. /\ last \in Nat /\ last > publishSeq
      /\ \A a \in Cascade(r) : num[a] \in Nat /\ num[a] > publishSeq /\ num[a] < last
      /\ jobs \subseteq Job
      /\ \A j \in jobs : j.seq > publishSeq /\ j.seq <= last
  BY <1>2, PublishJobsFresh, AssetsAssumption DEF last
<1>4. /\ \A a \in Cascade(r) : a # r /\ a \in Record /\ a \in live
      /\ r \in live
  BY AssetsAssumption DEF Cascade, Publish
<1>5. \A j \in jobs : /\ j.kind = "upsert"
                      /\ \/ j.rec = r /\ j.seq = last
                         \/ j.rec \in Cascade(r) /\ j.seq = num[j.rec]
  BY DEF PublishJobs, Upsert
<1>6. \A j, k \in jobs : j.seq = k.seq \/ j.rec = k.rec => j = k
  <2>1. \A j, k \in jobs : j.seq = k.seq \/ j.rec = k.rec
                             => j.rec = k.rec /\ j.seq = k.seq
    BY <1>1, <1>3, <1>4, <1>5
  <2>2. \A j \in jobs : j = Upsert(j.rec, j.seq)
    BY <1>3, <1>5 DEF Job, Upsert
  <2> QED
    BY <2>1, <2>2
<1>7. \A j \in jobs : snapshot'[j.rec] = IF j.kind = "upsert" THEN j.seq ELSE 0
  BY <1>1, <1>4, <1>5
<1>8. /\ \E j \in jobs : j.rec = r
      /\ \A a \in Cascade(r) : \E j \in jobs : j.rec = a
  <2>1. Upsert(r, last) \in jobs /\ Upsert(r, last).rec = r
    BY DEF PublishJobs, Upsert
  <2>2. \A a \in Cascade(r) : Upsert(a, num[a]) \in jobs /\ Upsert(a, num[a]).rec = a
    BY DEF PublishJobs, Upsert
  <2> QED
    BY <2>1, <2>2
<1>9. \A x \in Record : (\A j \in jobs : j.rec # x) => snapshot'[x] = snapshot[x]
  BY <1>1, <1>8
<1>10. \A x \in Record : snapshot'[x] # 0 => x \in live'
  BY <1>1, <1>4 DEF Publish, ObjectInv, SnapshotIsLatestJob
<1>11. RowsIssued'
  BY <1>1 DEF Publish, TakeSeqs, BeginDrain, ObjectInv, RowsIssued, TypeOK
<1>12. /\ up /\ SeqInv /\ SnapshotIsLatestJob
       /\ jobs \in SUBSET Job /\ publishSeq <= last
       /\ TakeSeqs(last, jobs)
  BY <1>1, <1>2, <1>3 DEF Publish, ObjectInv
<1> HIDE DEF jobs
<1>13. SeqInv' /\ SnapshotIsLatestJob'
       /\ \A j \in issued' \ issued, k \in issued : k.seq < j.seq
  BY <1>3, <1>6, <1>7, <1>9, <1>10, <1>12, CommitStep
<1> QED
  BY <1>11, <1>13 DEF Fresh

(* A transaction that takes one number for the delete job of a record.     *)
LEMMA RemovalStep ==
  ASSUME TypeOK, ObjectInv, up, NEW r \in Record,
         snapshot' = [snapshot EXCEPT ![r] = 0],
         TakeSeqs(publishSeq + 1, {Delete(r, publishSeq + 1)}),
         live' \in SUBSET live, live \ live' \subseteq {r}
  PROVE  SeqInv' /\ SnapshotIsLatestJob' /\ Fresh
<1> DEFINE last == publishSeq + 1
           jobs == {Delete(r, last)}
<1>1. publishSeq \in Nat /\ last \in Nat /\ publishSeq <= last
  BY DEF TypeOK
<1>2. \A j \in jobs : j \in Job /\ publishSeq < j.seq /\ j.seq <= last
                      /\ j.kind = "delete" /\ j.rec = r
  BY <1>1 DEF Delete, Job
<1>3. /\ \A j \in jobs : snapshot'[j.rec] = IF j.kind = "upsert" THEN j.seq ELSE 0
      /\ \A x \in Record : (\A j \in jobs : j.rec # x) => snapshot'[x] = snapshot[x]
  BY <1>2 DEF TypeOK, Delete
<1>4. \A x \in Record : snapshot'[x] # 0 => x \in live'
  BY DEF TypeOK, ObjectInv, SnapshotIsLatestJob
<1>5. jobs \in SUBSET Job
  BY <1>2
<1>6. SeqInv /\ SnapshotIsLatestJob /\ TakeSeqs(last, jobs)
  BY DEF ObjectInv
<1>7. \A j, k \in jobs : j.seq = k.seq \/ j.rec = k.rec => j = k
  OBVIOUS
<1> HIDE DEF jobs, last
<1> QED
  BY <1>1, <1>2, <1>3, <1>4, <1>5, <1>6, <1>7, CommitStep DEF Fresh

(* The inductive step of the publishing side, for every action.  It says    *)
(* nothing of the queue, which the object only ever adds to.                *)
LEMMA ObjectInvStep ==
  ASSUME TypeOK, ObjectInv, [Next]_vars
  PROVE  ObjectInv' /\ Fresh
<1>1. /\ SeqInv /\ RowsIssued /\ SnapshotIsLatestJob /\ NoStrandedRow
      /\ \A r \in Record : snapshot[r] # 0 => r \in live
  BY DEF ObjectInv, SnapshotIsLatestJob
<1>a. Alarm \notin Request
  BY HandlersAssumption
<1>2. ASSUME NEW q \in Request, NEW r \in Record, Publish(q, r)
      PROVE  ObjectInv' /\ Fresh
  <2>1. NoStrandedRow'
    BY <1>2, Zenon DEF Publish, ArmSweep, NoStrandedRow
  <2> QED
    BY <1>2, <2>1, PublishStep DEF ObjectInv
<1>3. ASSUME NEW q \in Request, NEW r \in Record, Unpublish(q, r)
      PROVE  ObjectInv' /\ Fresh
  <2>1. NoStrandedRow'
    BY <1>3, Zenon DEF Unpublish, ArmSweep, NoStrandedRow
  <2>2. RowsIssued'
    BY <1>1, <1>3 DEF Unpublish, TakeSeqs, BeginDrain, RowsIssued, TypeOK
  <2>3. SeqInv' /\ SnapshotIsLatestJob' /\ Fresh
    BY <1>3, RemovalStep DEF Unpublish
  <2> QED
    BY <2>1, <2>2, <2>3 DEF ObjectInv
<1>4. ASSUME NEW q \in Request, NEW r \in Record, DeletePublished(q, r)
      PROVE  ObjectInv' /\ Fresh
  <2>1. NoStrandedRow'
    BY <1>4, Zenon DEF DeletePublished, ArmSweep, NoStrandedRow
  <2>2. RowsIssued'
    BY <1>1, <1>4 DEF DeletePublished, TakeSeqs, BeginDrain, RowsIssued, TypeOK
  <2>3. live' \in SUBSET live /\ live \ live' \subseteq {r}
    BY <1>4 DEF DeletePublished
  <2>4. SeqInv' /\ SnapshotIsLatestJob' /\ Fresh
    BY <1>4, <2>3, RemovalStep DEF DeletePublished
  <2> QED
    BY <2>1, <2>2, <2>4 DEF ObjectInv
<1>5. ASSUME NEW q \in Request, NEW r \in Record, DeleteUnpublished(q, r)
      PROVE  ObjectInv' /\ Fresh
  <2>1. NoStrandedRow'
    <3>1. task'[Alarm] = task[Alarm]
      BY <1>5, <1>a DEF DeleteUnpublished, BeginDrain, TypeOK, Handler
    <3> QED
      BY <1>1, <1>5, <3>1, Zenon DEF DeleteUnpublished, ArmSweep, NoStrandedRow
  <2>2. RowsIssued'
    BY <1>1, <1>5 DEF DeleteUnpublished, BeginDrain, RowsIssued, TypeOK
  <2>3. SeqInv' /\ SnapshotIsLatestJob' /\ Fresh
    BY <1>1, <1>5, QuietStep DEF DeleteUnpublished, SeqInv, Fresh
  <2> QED
    BY <2>1, <2>2, <2>3 DEF ObjectInv
<1>6. ASSUME NEW r \in Record, Restore(r)
      PROVE  ObjectInv' /\ Fresh
  BY <1>1, <1>6, QuietStep
  DEF Restore, ObjectInv, SeqInv, RowsIssued, NoStrandedRow, Fresh
<1>7. CASE RollBack
  <2>1. up' => storedSeq' <= publishSeq'
    BY <1>1, <1>7 DEF RollBack, SeqInv, TypeOK
  <2> QED
    BY <1>1, <1>7, <2>1, QuietStep
    DEF RollBack, ObjectInv, RowsIssued, NoStrandedRow, Fresh
<1>8. ASSUME NEW h \in Handler, StartDrain(h)
      PROVE  ObjectInv' /\ Fresh
  <2>1. SeqInv' /\ SnapshotIsLatestJob' /\ Fresh
    BY <1>1, <1>8, QuietStep DEF StartDrain, SeqInv, Fresh
  <2>2. FirstUnsent \in SUBSET Job /\ FirstUnsent \subseteq issued
    BY <1>1 DEF FirstUnsent, RowsIssued, TypeOK
  <2>3. RowsIssued'
    <3>1. Draining(h, FirstUnsent).rows \subseteq issued
      BY <2>2, DrainStates
    <3> QED
      BY <1>1, <1>8, <3>1 DEF StartDrain, RowsIssued, TypeOK
  <2>4. NoStrandedRow'
    <3>1. task'[Alarm].phase # "idle" \/ task'[Alarm] = task[Alarm]
      BY <1>8 DEF StartDrain, TypeOK, Handler, Draining, AfterDrain
    <3> QED
      BY <1>1, <1>8, <3>1, Zenon DEF StartDrain, NoStrandedRow
  <2> QED
    BY <2>1, <2>3, <2>4 DEF ObjectInv
<1>9. ASSUME NEW h \in Handler, NEW j \in task[h].rows, SendRow(h, j)
      PROVE  ObjectInv' /\ Fresh
  <2>1. SeqInv' /\ SnapshotIsLatestJob' /\ Fresh
    BY <1>1, <1>9, QuietStep DEF SendRow, SeqInv, Fresh
  <2>2. RowsIssued'
    BY <1>1, <1>9 DEF SendRow, RowsIssued, TypeOK
  <2>3. NoStrandedRow'
    <3>1. task'[Alarm].phase # "idle" \/ task'[Alarm] = task[Alarm]
      BY <1>9 DEF SendRow, TypeOK, Handler
    <3> QED
      BY <1>1, <1>9, <3>1, Zenon DEF SendRow, NoStrandedRow
  <2> QED
    BY <2>1, <2>2, <2>3 DEF ObjectInv
<1>10. ASSUME NEW h \in Handler, NEW j \in task[h].rows, MarkSent(h, j)
       PROVE  ObjectInv' /\ Fresh
  <2>1. SeqInv' /\ SnapshotIsLatestJob' /\ Fresh
    BY <1>1, <1>10, QuietStep DEF MarkSent, SeqInv, Fresh
  <2>2. RowsIssued'
    <3>1. task[h].rows \ {j} \in SUBSET Job
      BY DEF TypeOK
    <3>2. Draining(h, task[h].rows \ {j}).rows \subseteq issued
      BY <1>1, <3>1, DrainStates DEF RowsIssued
    <3>3. j \in issued
      BY <1>1, <1>10 DEF RowsIssued
    <3> QED
      BY <1>1, <1>10, <3>2, <3>3 DEF MarkSent, RowsIssued, TypeOK
  <2>3. NoStrandedRow'
    <3>1. task'[Alarm].phase # "idle" \/ task'[Alarm] = task[Alarm]
      BY <1>10 DEF MarkSent, TypeOK, Handler, Draining, AfterDrain
    <3>2. unsent' # {} => unsent # {}
      BY <1>10 DEF MarkSent
    <3> QED
      BY <1>1, <1>10, <3>1, <3>2, Zenon DEF MarkSent, NoStrandedRow
  <2> QED
    BY <2>1, <2>2, <2>3 DEF ObjectInv
<1>11. ASSUME NEW h \in Handler, NEW j \in task[h].rows, SendFails(h, j)
       PROVE  ObjectInv' /\ Fresh
  <2>1. SeqInv' /\ SnapshotIsLatestJob' /\ Fresh
    BY <1>1, <1>11, QuietStep DEF SendFails, SeqInv, Fresh
  <2>2. RowsIssued'
    BY <1>1, <1>11 DEF SendFails, AfterDrain, RowsIssued, TypeOK
  <2>3. NoStrandedRow'
    <3>1. task'[Alarm].phase # "idle" \/ task'[Alarm] = task[Alarm]
      BY <1>11 DEF SendFails, TypeOK, Handler, AfterDrain
    <3> QED
      BY <1>1, <1>11, <3>1, Zenon DEF SendFails, NoStrandedRow
  <2> QED
    BY <2>1, <2>2, <2>3 DEF ObjectInv
<1>12. CASE AlarmFires
  <2>1. SeqInv' /\ SnapshotIsLatestJob' /\ Fresh
    BY <1>1, <1>12, QuietStep DEF AlarmFires, SeqInv, Fresh
  <2>2. RowsIssued'
    BY <1>1, <1>12 DEF AlarmFires, RowsIssued, TypeOK
  <2>3. NoStrandedRow'
    <3>1. registered => task'[Alarm].phase = "committed"
      BY <1>12 DEF AlarmFires, TypeOK, Handler
    <3> QED
      BY <1>1, <1>12, <3>1 DEF AlarmFires, NoStrandedRow
  <2> QED
    BY <2>1, <2>2, <2>3 DEF ObjectInv
<1>13. CASE FinishSweep
  <2>1. SeqInv' /\ SnapshotIsLatestJob' /\ Fresh
    BY <1>1, <1>13, QuietStep DEF FinishSweep, SeqInv, Fresh
  <2>2. RowsIssued'
    BY <1>1, <1>13 DEF FinishSweep, RowsIssued, TypeOK, Idle
  <2>3. NoStrandedRow'
    BY <1>13, Zenon DEF FinishSweep, NoStrandedRow
  <2> QED
    BY <2>1, <2>2, <2>3 DEF ObjectInv
<1>14. CASE Evict
  <2>1. SeqInv' /\ SnapshotIsLatestJob' /\ Fresh
    BY <1>1, <1>14, QuietStep DEF Evict, SeqInv, Fresh
  <2>2. RowsIssued'
    BY <1>1, <1>14 DEF Evict, RowsIssued, Idle
  <2>3. NoStrandedRow'
    BY <1>1, <1>14 DEF Evict, NoStrandedRow
  <2> QED
    BY <2>1, <2>2, <2>3 DEF ObjectInv
<1>15. CASE Restart
  <2>1. storedSeq' <= publishSeq'
    BY <1>15 DEF Restart, Floor, Restored
  <2>2. SeqInv' /\ SnapshotIsLatestJob' /\ Fresh
    BY <1>1, <1>15, <2>1, QuietStep DEF Restart, Fresh
  <2>3. RowsIssued'
    BY <1>1, <1>15 DEF Restart, RowsIssued
  <2>4. NoStrandedRow'
    BY <1>1, <1>15, Zenon DEF Restart, NoStrandedRow
  <2> QED
    BY <2>2, <2>3, <2>4 DEF ObjectInv
<1>16. CASE UNCHANGED vars
  BY <1>16 DEF vars, objectVars, ObjectInv, SeqInv, RowsIssued, IsNext,
               SnapshotIsLatestJob, Latest, NoStrandedRow, Fresh
<1> QED
  BY <1>2, <1>3, <1>4, <1>5, <1>6, <1>7, <1>8, <1>9, <1>10, <1>11, <1>12,
     <1>13, <1>14, <1>15, <1>16 DEF Next, Requests, Drains
-----------------------------------------------------------------------------
LEMMA ObjectInvInit == Init => ObjectInv
<1> SUFFICES ASSUME Init PROVE ObjectInv
  OBVIOUS
<1>1. SeqInv /\ SnapshotIsLatestJob
  BY DEF Init, SeqInv, SnapshotIsLatestJob
<1>2. RowsIssued
  BY DEF Init, RowsIssued, Idle
<1>3. NoStrandedRow
  BY DEF Init, NoStrandedRow
<1> QED
  BY <1>1, <1>2, <1>3 DEF ObjectInv

THEOREM ObjectInvariant == Spec => []ObjectInv
BY TypeCorrect, ObjectInvInit, ObjectInvStep, PTL DEF Spec

(* The snapshot of a record is what its latest job says and a deleted      *)
(* record is never published, in every tenant and under every interleaving *)
(* of requests, drains, evictions and rollbacks.                           *)
THEOREM SnapshotsMatchJobs == Spec => []SnapshotIsLatestJob
BY ObjectInvariant, PTL DEF ObjectInv

(* Rows that are not sent always have an alarm, or a handler, coming.      *)
THEOREM RowsAreSwept == Spec => []NoStrandedRow
BY ObjectInvariant, PTL DEF ObjectInv

(* A number taken by a transaction exceeds every number committed before.  *)
THEOREM NumbersNeverReused == Spec => SeqNeverReused
<1>1. ASSUME TypeOK, ObjectInv, [Next]_vars
      PROVE  [Fresh]_vars
  BY <1>1, ObjectInvStep
<1>2. [Fresh]_vars <=> [\A j \in issued' \ issued, k \in issued : k.seq < j.seq]_vars
  BY DEF Fresh
<1> QED
  BY <1>1, <1>2, TypeCorrect, ObjectInvariant, PTL DEF Spec, SeqNeverReused
-----------------------------------------------------------------------------
(* What a step does to the jobs on their way: a new one needs to be sent,   *)
(* and one that needed to be sent still does or has reached the queue.      *)
QueueGrows ==
  /\ queue \subseteq queue' /\ queue' \subseteq queue \cup issued
  /\ issued \subseteq issued'
  /\ \A j \in issued' : j \in issued \/ AwaitsSend(j)'
  /\ \A j \in issued : AwaitsSend(j) => AwaitsSend(j)' \/ j \in queue'

LEMMA QueueStep ==
  ASSUME TypeOK, ObjectInv, [Next]_vars
  PROVE  QueueGrows
<1> USE DEF TypeOK, QueueGrows
<1>1. \A h \in Handler : task[h].rows \subseteq issued
  BY DEF ObjectInv, RowsIssued
<1>2. ASSUME queue \subseteq queue', queue' \subseteq queue \cup issued,
             issued \subseteq issued',
             \A j \in issued' : j \in issued \/ j \in unsent',
             unsent \subseteq unsent',
             \A h \in Handler : task'[h] = task[h] \/ task'[h].phase # "sent"
      PROVE  QueueGrows
  BY <1>1, <1>2 DEF AwaitsSend, IsNext
<1>3. ASSUME NEW q \in Request, NEW r \in Record,
             \/ Publish(q, r) \/ Unpublish(q, r)
             \/ DeletePublished(q, r) \/ DeleteUnpublished(q, r)
      PROVE  QueueGrows
  <2>1. \A h \in Handler : task'[h] = task[h] \/ task'[h].phase # "sent"
    BY <1>3 DEF Publish, Unpublish, DeletePublished, DeleteUnpublished, BeginDrain
  <2>2. /\ queue' = queue /\ issued \subseteq issued' /\ unsent \subseteq unsent'
        /\ \A j \in issued' : j \in issued \/ j \in unsent'
    BY <1>3 DEF Publish, Unpublish, DeletePublished, DeleteUnpublished, TakeSeqs
  <2> QED
    BY <1>2, <2>1, <2>2
<1>4. ASSUME NEW r \in Record, Restore(r)
      PROVE  QueueGrows
  BY <1>2, <1>4 DEF Restore
<1>5. CASE RollBack
  BY <1>2, <1>5 DEF RollBack
<1>6. ASSUME NEW h \in Handler, StartDrain(h)
      PROVE  QueueGrows
  <2>1. \A g \in Handler : task'[g] = task[g] \/ task'[g].phase # "sent"
    BY <1>6 DEF StartDrain, Draining, AfterDrain
  <2> QED
    BY <1>2, <1>6, <2>1 DEF StartDrain
<1>7. ASSUME NEW h \in Handler, NEW j \in task[h].rows, SendRow(h, j)
      PROVE  QueueGrows
  <2>1. \A k \in issued : IsNext(h, k)' => k = j
    <3>1. IsNext(h, j) /\ task'[h].rows = task[h].rows /\ j \in issued
      BY <1>1, <1>7 DEF SendRow
    <3>2. \A k \in issued : IsNext(h, k)' => k.seq <= j.seq /\ j.seq <= k.seq
      BY <3>1 DEF IsNext
    <3>3. \A k \in issued : k.seq \in Nat
      BY DEF Job
    <3> QED
      BY <3>1, <3>2, <3>3 DEF ObjectInv, SeqInv
  <2>2. \A g \in Handler : g # h => task'[g] = task[g]
    BY <1>7 DEF SendRow
  <2>3. issued' = issued /\ queue' = queue \cup {j} /\ unsent' = unsent /\ j \in issued
    BY <1>1, <1>7 DEF SendRow
  <2>4. \A k \in issued : AwaitsSend(k) => AwaitsSend(k)' \/ k \in queue'
    BY <2>1, <2>2, <2>3 DEF AwaitsSend, IsNext
  <2> QED
    BY <2>3, <2>4
<1>8. ASSUME NEW h \in Handler, NEW j \in task[h].rows, MarkSent(h, j)
      PROVE  QueueGrows
  <2>1. ~AwaitsSend(j)
    BY <1>8 DEF MarkSent, AwaitsSend
  <2>2. \A g \in Handler : task'[g] = task[g] \/ task'[g].phase # "sent"
    BY <1>8 DEF MarkSent, Draining, AfterDrain
  <2>3. \A k \in issued : k # j /\ AwaitsSend(k) => AwaitsSend(k)'
    BY <1>8, <2>2 DEF MarkSent, AwaitsSend, IsNext
  <2> QED
    BY <1>8, <2>1, <2>3 DEF MarkSent
<1>9. ASSUME NEW h \in Handler, NEW j \in task[h].rows, SendFails(h, j)
      PROVE  QueueGrows
  <2>1. \A g \in Handler : task'[g] = task[g] \/ task'[g].phase # "sent"
    BY <1>9 DEF SendFails, AfterDrain
  <2>2. j \in issued
    BY <1>1
  <2> QED
    BY <1>2, <1>9, <2>1, <2>2 DEF SendFails
<1>10. CASE AlarmFires
  BY <1>2, <1>10 DEF AlarmFires
<1>11. CASE FinishSweep
  BY <1>2, <1>11 DEF FinishSweep, Idle
<1>12. CASE Evict
  BY <1>2, <1>12 DEF Evict, Idle
<1>13. CASE Restart
  BY <1>2, <1>13 DEF Restart
<1>14. CASE UNCHANGED vars
  BY <1>2, <1>14 DEF vars, objectVars
<1> QED
  BY <1>3, <1>4, <1>5, <1>6, <1>7, <1>8, <1>9, <1>10, <1>11, <1>12, <1>13,
     <1>14 DEF Next, Requests, Drains

(* Every committed job is unsent still or has reached the queue.           *)
THEOREM NoCommittedJobLost == Spec => []NoJobLost
<1>1. Init => DeliveryInv
  BY DEF Init, DeliveryInv
<1>2. TypeOK /\ ObjectInv /\ DeliveryInv /\ [Next]_vars => DeliveryInv'
  BY QueueStep DEF QueueGrows, DeliveryInv
<1>3. DeliveryInv => NoJobLost
  BY DEF DeliveryInv, NoJobLost, AwaitsSend
<1> QED
  BY <1>1, <1>2, <1>3, TypeCorrect, ObjectInvariant, PTL DEF Spec
-----------------------------------------------------------------------------
(* The consumer and the store.                                             *)

USE DEF consumerVars, storeVars

(* What the facts about numbers say of the jobs of one record.             *)
LEMMA IssuedJobs ==
  ASSUME TypeOK, SeqInv
  PROVE  /\ \A j \in issued : j.seq \in Nat /\ j.seq > 0 /\ j.rec \in Record
                              /\ j.kind \in {"upsert", "delete"}
         /\ \A r, s : Upsert(r, s) \in issued => s \in Nat /\ s > 0
         /\ \A r, s : Delete(r, s) \in issued => s \in Nat /\ s > 0
         /\ \A r, s, t : Upsert(r, s) \in issued /\ Delete(r, t) \in issued => s # t
         /\ \A j \in issued : j.kind = "upsert" => j = Upsert(j.rec, j.seq)
         /\ \A j \in issued : j.kind = "delete" => j = Delete(j.rec, j.seq)
<1>1. \A j \in issued : j \in Job /\ j.seq > 0
  BY DEF TypeOK, SeqInv
<1>2. \A j \in issued : j.seq \in Nat /\ j.seq > 0 /\ j.rec \in Record
                        /\ j.kind \in {"upsert", "delete"}
  BY <1>1 DEF Job
<1>3. \A r, s : /\ Upsert(r, s).seq = s /\ Delete(r, s).seq = s
                /\ Upsert(r, s).kind = "upsert" /\ Delete(r, s).kind = "delete"
  BY DEF Upsert, Delete
<1>4. \A j \in issued : /\ j.kind = "upsert" => j = Upsert(j.rec, j.seq)
                        /\ j.kind = "delete" => j = Delete(j.rec, j.seq)
  BY <1>1 DEF Job, Upsert, Delete
<1>5. \A r, s, t : Upsert(r, s) \in issued /\ Delete(r, t) \in issued => s # t
  BY <1>3 DEF SeqInv
<1>6. \A r, s : /\ Upsert(r, s) \in issued => s \in Nat /\ s > 0
                /\ Delete(r, s) \in issued => s \in Nat /\ s > 0
  <2> SUFFICES ASSUME NEW r, NEW s
               PROVE  /\ Upsert(r, s) \in issued => s \in Nat /\ s > 0
                      /\ Delete(r, s) \in issued => s \in Nat /\ s > 0
    OBVIOUS
  <2> QED
    BY <1>2, <1>3
<1> QED
  BY <1>2, <1>4, <1>5, <1>6

-----------------------------------------------------------------------------
(* The two batches.  In both, the outcome of a record's latest job is      *)
(* never undone, the batch of the latest job itself establishes it, and    *)
(* what the record shows either stays or moves to a newer issued job.      *)
MirrorStep(r) ==
  \/ UNCHANGED <<rows, ShownAt>>
  \/ Mirror!Reflect(r)

LEMMA UpsertBatchStep ==
  ASSUME PipelineTypeOK, SeqInv, StoreInv, DerivedMatchesRow,
         NEW r \in Record, NEW s, Upsert(r, s) \in issued,
         UpsertBatch(r, s), UNCHANGED issued
  PROVE  /\ StoreTypeOK' /\ StoreInv' /\ DerivedMatchesRow'
         /\ \A j \in issued : Latest(j) /\ (Reflected(j) \/ j = Upsert(r, s))
                                => Reflected(j)'
         /\ MirrorStep(r)
<1>1. TypeOK /\ StoreTypeOK
  BY DEF PipelineTypeOK
<1>2. s \in Nat /\ s > 0 /\ rows[r] \in Nat /\ tombs[r] \in Nat
  BY <1>1, IssuedJobs DEF StoreTypeOK
<1>3. /\ rows[r] = 0 \/ (tombs[r] < rows[r] /\ Upsert(r, rows[r]) \in issued)
      /\ tombs[r] = 0 \/ (Delete(r, tombs[r]) \in issued /\ tombs[r] # s)
  BY <1>1, IssuedJobs DEF StoreInv
<1>4. /\ \A x \in Record : x # r => rows'[x] = rows[x] /\ tombs'[x] = tombs[x]
      /\ rows'[r] = RowAfterUpsert(r, s)
      /\ tombs'[r] = IF tombs[r] <= s THEN 0 ELSE tombs[r]
      /\ rows' \in [Record -> Nat] /\ tombs' \in [Record -> Nat]
  BY <1>1, <1>2 DEF UpsertBatch, StoreTypeOK, RowAfterUpsert
<1>5. derived' = rows'
  BY <1>1, <1>2, <1>4 DEF UpsertBatch, StoreTypeOK, DerivedMatchesRow, RowAfterUpsert
<1>6. StoreInv'
  BY <1>2, <1>3, <1>4 DEF StoreInv, RowAfterUpsert, UpsertWins
<1>7. ASSUME NEW j \in issued, Latest(j), Reflected(j) \/ j = Upsert(r, s)
      PROVE  Reflected(j)'
  <2>1. j.seq \in Nat /\ j.rec \in Record
    BY <1>1, IssuedJobs
  <2>2. CASE j.rec # r
    <3>1. Reflected(j)
      BY <1>7, <2>2 DEF Upsert
    <3> QED
      BY <1>4, <2>1, <2>2, <3>1 DEF Reflected
  <2>3. CASE j.rec = r
    <3>1. \A x : Upsert(r, x) \in issued \/ Delete(r, x) \in issued => x <= j.seq
      BY <1>7, <2>3 DEF Latest, Upsert, Delete
    <3>2. s <= j.seq /\ (rows[r] = 0 \/ rows[r] <= j.seq) /\ (tombs[r] = 0 \/ tombs[r] <= j.seq)
      BY <1>3, <3>1
    <3>3. j.kind = "upsert" \/ (j.kind = "delete" /\ j.seq # s)
      BY <1>1, <2>3, IssuedJobs
    <3>4. CASE j = Upsert(r, s)
      <4>1. j.seq = s /\ j.kind = "upsert"
        BY <3>4 DEF Upsert
      <4>2. UpsertWins(r, s)
        BY <1>2, <3>2, <4>1 DEF UpsertWins
      <4> QED
        BY <1>4, <2>3, <4>1, <4>2 DEF Reflected, RowAfterUpsert
    <3>5. CASE Reflected(j) /\ j.kind = "upsert"
      BY <1>2, <1>4, <2>1, <2>3, <3>2, <3>5 DEF Reflected, RowAfterUpsert, UpsertWins
    <3>6. CASE Reflected(j) /\ j.kind = "delete" /\ j.seq # s
      BY <1>2, <1>4, <2>1, <2>3, <3>2, <3>6 DEF Reflected, RowAfterUpsert, UpsertWins
    <3> QED
      BY <1>7, <3>3, <3>4, <3>5, <3>6
  <2> QED
    BY <2>2, <2>3
<1>8. MirrorStep(r)
  <2>1. CASE UpsertWins(r, s) /\ rows[r] # s
    <3>1. Shown(r) < s
      BY <1>2, <1>3, <2>1 DEF UpsertWins, Shown
    <3>2. rows'[r] = s /\ tombs'[r] = 0 /\ Shown(r)' = s
      BY <1>2, <1>4, <2>1 DEF UpsertWins, RowAfterUpsert, Shown
    <3>3. rows' = [rows EXCEPT ![r] = s]
      BY <1>1, <1>4, <3>2 DEF StoreTypeOK
    <3>4. \A x \in Record : x # r => Shown(x)' = Shown(x)
      BY <1>4 DEF Shown
    <3>5. ShownAt' = [ShownAt EXCEPT ![r] = s]
      BY <3>2, <3>4 DEF ShownAt
    <3>6. /\ Upsert(r, s).rec = r /\ Upsert(r, s).seq = s /\ Upsert(r, s).kind = "upsert"
          /\ ShownAt[r] = Shown(r)
          /\ Shown(r) \in Nat
      BY <1>2 DEF Upsert, ShownAt, Shown
    <3> QED
      BY <1>2, <3>1, <3>3, <3>5, <3>6 DEF MirrorStep, Mirror!Reflect
  <2>2. CASE ~(UpsertWins(r, s) /\ rows[r] # s)
    <3>1. rows'[r] = rows[r] /\ Shown(r)' = Shown(r)
      BY <1>2, <1>3, <1>4, <2>2 DEF UpsertWins, RowAfterUpsert, Shown
    <3>2. rows' = rows
      BY <1>1, <1>4, <3>1 DEF StoreTypeOK
    <3>3. ShownAt' = ShownAt
      <4>1. \A x \in Record : Shown(x)' = Shown(x)
        BY <1>4, <3>1 DEF Shown
      <4> QED
        BY <4>1 DEF ShownAt
    <3> QED
      BY <3>2, <3>3 DEF MirrorStep
  <2> QED
    BY <2>1, <2>2
<1>9. StoreTypeOK'
  BY <1>4, <1>5 DEF StoreTypeOK
<1> QED
  BY <1>5, <1>6, <1>7, <1>8, <1>9 DEF DerivedMatchesRow

LEMMA DeleteBatchStep ==
  ASSUME PipelineTypeOK, SeqInv, StoreInv, DerivedMatchesRow,
         NEW r \in Record, NEW s, Delete(r, s) \in issued,
         DeleteBatch(r, s), UNCHANGED issued
  PROVE  /\ StoreTypeOK' /\ StoreInv' /\ DerivedMatchesRow'
         /\ \A j \in issued : Latest(j) /\ (Reflected(j) \/ j = Delete(r, s))
                                => Reflected(j)'
         /\ MirrorStep(r)
<1>1. TypeOK /\ StoreTypeOK
  BY DEF PipelineTypeOK
<1>2. s \in Nat /\ s > 0 /\ rows[r] \in Nat /\ tombs[r] \in Nat
  BY <1>1, IssuedJobs DEF StoreTypeOK
<1>3. /\ rows[r] = 0 \/ (/\ tombs[r] < rows[r] /\ rows[r] # s
                         /\ Upsert(r, rows[r]) \in issued)
      /\ tombs[r] = 0 \/ Delete(r, tombs[r]) \in issued
  BY <1>1, IssuedJobs DEF StoreInv
<1>4. /\ \A x \in Record : x # r => rows'[x] = rows[x] /\ tombs'[x] = tombs[x]
      /\ rows'[r] = RowAfterDelete(r, s)
      /\ tombs'[r] = IF tombs[r] <= s THEN s ELSE tombs[r]
      /\ rows' \in [Record -> Nat] /\ tombs' \in [Record -> Nat]
  BY <1>1, <1>2 DEF DeleteBatch, StoreTypeOK, RowAfterDelete
<1>5. derived' = rows'
  BY <1>1, <1>2, <1>4 DEF DeleteBatch, StoreTypeOK, DerivedMatchesRow, RowAfterDelete
<1>6. StoreInv'
  BY <1>2, <1>3, <1>4 DEF StoreInv, RowAfterDelete
<1>7. ASSUME NEW j \in issued, Latest(j), Reflected(j) \/ j = Delete(r, s)
      PROVE  Reflected(j)'
  <2>1. j.seq \in Nat /\ j.rec \in Record
    BY <1>1, IssuedJobs
  <2>2. CASE j.rec # r
    <3>1. Reflected(j)
      BY <1>7, <2>2 DEF Delete
    <3> QED
      BY <1>4, <2>1, <2>2, <3>1 DEF Reflected
  <2>3. CASE j.rec = r
    <3>1. \A x : Upsert(r, x) \in issued \/ Delete(r, x) \in issued => x <= j.seq
      BY <1>7, <2>3 DEF Latest, Upsert, Delete
    <3>2. s <= j.seq /\ (rows[r] = 0 \/ rows[r] <= j.seq) /\ (tombs[r] = 0 \/ tombs[r] <= j.seq)
      BY <1>3, <3>1
    <3>3. j.kind = "delete" \/ (j.kind = "upsert" /\ j.seq # s)
      BY <1>1, <2>3, IssuedJobs
    <3>4. CASE j = Delete(r, s)
      <4>1. j.seq = s /\ j.kind = "delete"
        BY <3>4 DEF Delete
      <4> QED
        BY <1>2, <1>4, <2>3, <3>2, <4>1 DEF Reflected, RowAfterDelete
    <3>5. CASE Reflected(j) /\ j.kind = "delete"
      BY <1>2, <1>4, <2>1, <2>3, <3>2, <3>5 DEF Reflected, RowAfterDelete
    <3>6. CASE Reflected(j) /\ j.kind = "upsert" /\ j.seq # s
      BY <1>2, <1>4, <2>1, <2>3, <3>2, <3>6 DEF Reflected, RowAfterDelete
    <3> QED
      BY <1>7, <3>3, <3>4, <3>5, <3>6
  <2> QED
    BY <2>2, <2>3
<1>8. MirrorStep(r)
  <2>1. CASE rows[r] <= s /\ tombs[r] < s
    <3>1. Shown(r) < s
      BY <1>2, <1>3, <2>1 DEF Shown
    <3>2. rows'[r] = 0 /\ tombs'[r] = s /\ Shown(r)' = s
      BY <1>2, <1>4, <2>1 DEF RowAfterDelete, Shown
    <3>3. rows' = [rows EXCEPT ![r] = 0]
      BY <1>1, <1>4, <3>2 DEF StoreTypeOK
    <3>4. \A x \in Record : x # r => Shown(x)' = Shown(x)
      BY <1>4 DEF Shown
    <3>5. ShownAt' = [ShownAt EXCEPT ![r] = s]
      BY <3>2, <3>4 DEF ShownAt
    <3>6. /\ Delete(r, s).rec = r /\ Delete(r, s).seq = s /\ Delete(r, s).kind # "upsert"
          /\ ShownAt[r] = Shown(r)
          /\ Shown(r) \in Nat
      BY <1>2 DEF Delete, ShownAt, Shown
    <3> QED
      BY <1>2, <3>1, <3>3, <3>5, <3>6 DEF MirrorStep, Mirror!Reflect
  <2>2. CASE ~(rows[r] <= s /\ tombs[r] < s)
    <3>1. rows'[r] = rows[r] /\ Shown(r)' = Shown(r)
      BY <1>2, <1>3, <1>4, <2>2 DEF RowAfterDelete, Shown
    <3>2. rows' = rows
      BY <1>1, <1>4, <3>1 DEF StoreTypeOK
    <3>3. ShownAt' = ShownAt
      <4>1. \A x \in Record : Shown(x)' = Shown(x)
        BY <1>4, <3>1 DEF Shown
      <4> QED
        BY <4>1 DEF ShownAt
    <3> QED
      BY <3>2, <3>3 DEF MirrorStep
  <2> QED
    BY <2>1, <2>2
<1>9. StoreTypeOK'
  BY <1>4, <1>5 DEF StoreTypeOK
<1> QED
  BY <1>5, <1>6, <1>7, <1>8, <1>9 DEF DerivedMatchesRow
-----------------------------------------------------------------------------
(* The steps of the object and those that only move messages leave the      *)
(* tables alone.                                                            *)
MirrorMoves ==
  Mirror!Issue \/ (\E r \in Record : MirrorStep(r) /\ UNCHANGED issued)

LEMMA StoreQuiet ==
  ASSUME UNCHANGED <<rows, tombs, derived>>, issued \subseteq issued'
  PROVE  /\ StoreTypeOK => StoreTypeOK'
         /\ StoreInv => StoreInv'
         /\ DerivedMatchesRow => DerivedMatchesRow'
         /\ UNCHANGED <<rows, ShownAt>>
         /\ \A j \in issued' : Reflected(j) => Reflected(j)'
<1>1. UNCHANGED ShownAt
  BY DEF ShownAt, Shown
<1> QED
  BY <1>1 DEF StoreTypeOK, StoreInv, DerivedMatchesRow, Reflected

(* A job the object commits waits in the outbox, and a row is marked sent   *)
(* only when the queue has it.                                              *)
LEMMA ObjectSide ==
  ASSUME PipelineTypeOK, ObjectInv, PipelineInv, [Next]_vars, UNCHANGED consumerVars
  PROVE  PipelineTypeOK' /\ ObjectInv' /\ PipelineInv' /\ Mirror!Issue
<1>1. TypeOK /\ StoreTypeOK
  BY DEF PipelineTypeOK
<1>2. ObjectInv' /\ Fresh
  BY <1>1, ObjectInvStep
<1>3. QueueGrows
  BY <1>1, QueueStep
<1>4. TypeOK'
  BY <1>1, TypeStep
<1>5. /\ StoreTypeOK' /\ StoreInv' /\ DerivedMatchesRow'
      /\ UNCHANGED <<rows, ShownAt>>
      /\ \A j \in issued' : Reflected(j) => Reflected(j)'
  BY <1>1, <1>3, StoreQuiet DEF QueueGrows, PipelineInv
<1>6. PipelineTypeOK'
  BY <1>4, <1>5 DEF PipelineTypeOK
<1>7. JobsIssued'
  BY <1>3 DEF QueueGrows, PipelineInv, JobsIssued
<1>8. LagInv'
  <2> SUFFICES ASSUME NEW j \in issued', Latest(j)'
               PROVE  (Reflected(j) \/ j \in queue \cup parked \/ AwaitsSend(j))'
    BY DEF LagInv
  <2>1. j \in issued => Latest(j)
    BY <1>3 DEF QueueGrows, Latest
  <2> QED
    BY <1>3, <1>5, <2>1 DEF QueueGrows, PipelineInv, LagInv
<1>9. Mirror!Issue
  BY <1>2, <1>3, <1>5 DEF Mirror!Issue, Fresh, QueueGrows
<1> QED
  BY <1>2, <1>5, <1>6, <1>7, <1>8, <1>9 DEF PipelineInv

(* What the object keeps of its invariants when only the queue loses jobs.  *)
LEMMA ObjectQuiet ==
  ASSUME TypeOK, ObjectInv, UNCHANGED <<objectVars, issued>>, queue' \in SUBSET Job
  PROVE  /\ TypeOK' /\ ObjectInv'
         /\ \A j : AwaitsSend(j) => AwaitsSend(j)'
         /\ \A j : Latest(j)' => Latest(j)
BY DEF objectVars, TypeOK, ObjectInv, SeqInv, RowsIssued, SnapshotIsLatestJob,
       Latest, NoStrandedRow, AwaitsSend, IsNext

(* The consumer's steps: a job leaves the queue only when its outcome shows *)
(* or another job of its record has overtaken it.                           *)
LEMMA ConsumerSide ==
  ASSUME PipelineTypeOK, ObjectInv, PipelineInv, ConsumerSteps
  PROVE  PipelineTypeOK' /\ ObjectInv' /\ PipelineInv' /\ MirrorMoves
<1>1. /\ TypeOK /\ StoreTypeOK /\ held \in SUBSET Payload /\ parked \in SUBSET Job
      /\ queue \in SUBSET Job
      /\ SeqInv /\ SnapshotIsLatestJob /\ StoreInv /\ DerivedMatchesRow
      /\ JobsIssued /\ LagInv
  BY DEF PipelineTypeOK, ObjectInv, PipelineInv, TypeOK
(* What every case has to show, once the object's variables are unchanged. *)
<1>2. ASSUME UNCHANGED <<objectVars, issued>>,
             queue' \in SUBSET issued, parked' \in SUBSET issued,
             StoreTypeOK', StoreInv', DerivedMatchesRow',
             held' \in SUBSET Payload,
             \A p \in held' : /\ p.job \in issued /\ p.job.kind = "upsert"
                              /\ Upsert(p.job.rec, p.seq) \in issued
                              /\ p.job.seq <= p.seq,
             \A j \in issued : Latest(j) /\ (Reflected(j) \/ j \in queue \cup parked)
                                 => Reflected(j)' \/ j \in queue' \cup parked'
      PROVE  PipelineTypeOK' /\ ObjectInv' /\ PipelineInv'
  <2>1. issued \in SUBSET Job /\ issued' = issued
    BY <1>1, <1>2 DEF TypeOK
  <2>2. queue' \in SUBSET Job /\ parked' \in SUBSET Job
    BY <1>2, <2>1
  <2>3. /\ TypeOK' /\ ObjectInv'
        /\ \A j : AwaitsSend(j) => AwaitsSend(j)'
        /\ \A j : Latest(j)' => Latest(j)
    BY <1>1, <1>2, <2>2, ObjectQuiet
  <2>4. PipelineTypeOK'
    BY <1>2, <2>2, <2>3 DEF PipelineTypeOK, Payload
  <2>5. JobsIssued'
    BY <1>2, <2>1 DEF JobsIssued
  <2>6. LagInv'
    BY <1>1, <1>2, <2>1, <2>3 DEF LagInv
  <2> QED
    BY <1>2, <2>3, <2>4, <2>5, <2>6 DEF PipelineInv
(* The tables stay: nothing moves for the readers.                         *)
<1>3. ASSUME UNCHANGED <<rows, tombs, derived, issued>>
      PROVE  /\ StoreTypeOK' /\ StoreInv' /\ DerivedMatchesRow' /\ MirrorMoves
             /\ \A j \in issued : Reflected(j) => Reflected(j)'
  <2>1. /\ StoreTypeOK' /\ StoreInv' /\ DerivedMatchesRow'
        /\ UNCHANGED <<rows, ShownAt>>
        /\ \A j \in issued : Reflected(j) => Reflected(j)'
    BY <1>1, <1>3, StoreQuiet
  <2>2. Mirror!Issue
    BY <1>3, <2>1 DEF Mirror!Issue
  <2> QED
    BY <2>1, <2>2 DEF MirrorMoves
<1>4. queue \subseteq issued /\ parked \subseteq issued
      /\ \A p \in held : /\ p.job \in issued /\ p.job.kind = "upsert"
                         /\ Upsert(p.job.rec, p.seq) \in issued
                         /\ p.job.seq <= p.seq
  BY <1>1 DEF JobsIssued
<1>5. ASSUME NEW w \in Worker, NEW m \in queue, FetchPayload(w, m)
      PROVE  PipelineTypeOK' /\ ObjectInv' /\ PipelineInv' /\ MirrorMoves
  <2> DEFINE p == [by |-> w, job |-> m, seq |-> snapshot[m.rec]]
  <2>1. UNCHANGED <<objectVars, issued, queue, parked, rows, tombs, derived>>
    BY <1>5 DEF FetchPayload, vars
  <2>2. m \in issued /\ m \in Job /\ m.rec \in Record /\ m.kind = "upsert"
    BY <1>1, <1>4, <1>5, IssuedJobs DEF FetchPayload
  <2>3. /\ Upsert(m.rec, snapshot[m.rec]) \in issued
        /\ Latest(Upsert(m.rec, snapshot[m.rec]))
    BY <1>1, <1>5, <2>2 DEF FetchPayload, SnapshotIsLatestJob
  <2>4. m.seq <= snapshot[m.rec]
    BY <2>2, <2>3 DEF Latest, Upsert
  <2>5. held' = held \cup {p} /\ p \in Payload
    BY <1>1, <1>5, <2>2 DEF FetchPayload, Payload, TypeOK
  <2>6. \A x \in held' : /\ x.job \in issued /\ x.job.kind = "upsert"
                         /\ Upsert(x.job.rec, x.seq) \in issued
                         /\ x.job.seq <= x.seq
    BY <1>4, <2>2, <2>3, <2>4, <2>5
  <2> HIDE DEF p
  <2> QED
    BY <1>1, <1>2, <1>3, <1>4, <2>1, <2>5, <2>6
<1>6. ASSUME NEW w \in Worker, NEW m \in queue, NothingToProject(w, m)
      PROVE  PipelineTypeOK' /\ ObjectInv' /\ PipelineInv' /\ MirrorMoves
  <2>1. /\ UNCHANGED <<objectVars, issued, held, parked, rows, tombs, derived>>
        /\ queue' \in {queue \ {m}, queue}
    BY <1>6 DEF NothingToProject, Ack
  <2>2. m \in issued /\ m.kind = "upsert" /\ m.seq > 0
    BY <1>1, <1>4, <1>6, IssuedJobs DEF NothingToProject
  <2>3. ~Latest(m)
    BY <1>1, <1>6, <2>2 DEF NothingToProject, SnapshotIsLatestJob
  <2>4. \A j \in issued : Latest(j) /\ (Reflected(j) \/ j \in queue \cup parked)
                                 => Reflected(j)' \/ j \in queue' \cup parked'
    BY <1>3, <2>1, <2>3
  <2> QED
    BY <1>1, <1>2, <1>3, <1>4, <2>1, <2>4
<1>7. ASSUME NEW w \in Worker, NEW m \in queue, ProjectDelete(w, m)
      PROVE  PipelineTypeOK' /\ ObjectInv' /\ PipelineInv' /\ MirrorMoves
  <2>1. /\ UNCHANGED <<objectVars, issued, held, parked>>
        /\ queue' \in {queue \ {m}, queue}
        /\ DeleteBatch(m.rec, m.seq)
    BY <1>7 DEF ProjectDelete, Ack
  <2>2. m \in issued /\ m = Delete(m.rec, m.seq) /\ m.rec \in Record
    BY <1>1, <1>4, <1>7, IssuedJobs DEF ProjectDelete
  <2>3. /\ StoreTypeOK' /\ StoreInv' /\ DerivedMatchesRow'
        /\ \A j \in issued : Latest(j) /\ (Reflected(j) \/ j = m) => Reflected(j)'
        /\ MirrorStep(m.rec)
    BY <1>1, <2>1, <2>2, DeleteBatchStep
    DEF PipelineTypeOK
  <2>4. \A j \in issued : Latest(j) /\ (Reflected(j) \/ j \in queue \cup parked)
                                 => Reflected(j)' \/ j \in queue' \cup parked'
    BY <2>1, <2>3
  <2>5. MirrorMoves
    BY <2>1, <2>2, <2>3 DEF MirrorMoves
  <2> QED
    BY <1>1, <1>2, <1>4, <2>1, <2>3, <2>4, <2>5
<1>8. ASSUME NEW p \in held, ProjectUpsert(p)
      PROVE  PipelineTypeOK' /\ ObjectInv' /\ PipelineInv' /\ MirrorMoves
  <2>1. /\ UNCHANGED <<objectVars, issued, parked>>
        /\ queue' \in {queue \ {p.job}, queue} /\ held' = held \ {p}
        /\ UpsertBatch(p.job.rec, p.seq)
    BY <1>8 DEF ProjectUpsert, Ack
  <2>2. /\ p.job \in issued /\ p.job.rec \in Record /\ p.job.seq \in Nat
        /\ p.job = Upsert(p.job.rec, p.job.seq)
        /\ Upsert(p.job.rec, p.seq) \in issued /\ p.seq \in Nat
    BY <1>1, <1>4, IssuedJobs
  <2>3. /\ StoreTypeOK' /\ StoreInv' /\ DerivedMatchesRow'
        /\ \A j \in issued : Latest(j) /\ (Reflected(j) \/ j = Upsert(p.job.rec, p.seq))
                                => Reflected(j)'
        /\ MirrorStep(p.job.rec)
    BY <1>1, <2>1, <2>2, UpsertBatchStep DEF PipelineTypeOK
  <2>4. Latest(p.job) => p.job = Upsert(p.job.rec, p.seq)
    <3>1. Latest(p.job) => p.seq <= p.job.seq
      BY <2>2 DEF Latest, Upsert
    <3> QED
      BY <1>4, <2>2, <3>1
  <2>5. \A j \in issued : Latest(j) /\ (Reflected(j) \/ j \in queue \cup parked)
                                 => Reflected(j)' \/ j \in queue' \cup parked'
    BY <2>1, <2>3, <2>4
  <2>6. MirrorMoves
    BY <2>1, <2>2, <2>3 DEF MirrorMoves
  <2> QED
    BY <1>1, <1>2, <1>4, <2>1, <2>3, <2>5, <2>6
<1>9. ASSUME NEW p \in held, JobFails(p)
      PROVE  PipelineTypeOK' /\ ObjectInv' /\ PipelineInv' /\ MirrorMoves
  <2>1. /\ UNCHANGED <<objectVars, issued, queue, parked, rows, tombs, derived>>
        /\ held' = held \ {p}
    BY <1>9 DEF JobFails, vars
  <2> QED
    BY <1>1, <1>2, <1>3, <1>4, <2>1
<1>10. ASSUME NEW m \in queue, Park(m)
       PROVE  PipelineTypeOK' /\ ObjectInv' /\ PipelineInv' /\ MirrorMoves
  <2>1. /\ UNCHANGED <<objectVars, issued, held, rows, tombs, derived>>
        /\ parked' = parked \cup {m} /\ queue' = queue \ {m}
    BY <1>10 DEF Park
  <2> QED
    BY <1>1, <1>2, <1>3, <1>4, <2>1
<1>11. ASSUME NEW m \in parked, Replay(m)
       PROVE  PipelineTypeOK' /\ ObjectInv' /\ PipelineInv' /\ MirrorMoves
  <2>1. /\ UNCHANGED <<objectVars, issued, parked, held, rows, tombs, derived>>
        /\ queue' = queue \cup {m}
    BY <1>11 DEF Replay
  <2> QED
    BY <1>1, <1>2, <1>3, <1>4, <2>1
<1> QED
  BY <1>5, <1>6, <1>7, <1>8, <1>9, <1>10, <1>11 DEF ConsumerSteps
-----------------------------------------------------------------------------
PipelineIInv == PipelineTypeOK /\ ObjectInv /\ PipelineInv

LEMMA PipelineInvInit == PipelineInit => PipelineIInv
<1> SUFFICES ASSUME PipelineInit PROVE PipelineIInv
  OBVIOUS
<1>1. TypeOK /\ ObjectInv
  BY TypeInit, ObjectInvInit DEF PipelineInit
<1>2. StoreTypeOK /\ StoreInv /\ DerivedMatchesRow
  BY DEF PipelineInit, StoreInit, StoreTypeOK, StoreInv, DerivedMatchesRow
<1>3. queue = {} /\ issued = {} /\ held = {} /\ parked = {}
  BY DEF PipelineInit, Init
<1>4. JobsIssued /\ LagInv
  BY <1>3 DEF JobsIssued, LagInv
<1> QED
  BY <1>1, <1>2, <1>3, <1>4 DEF PipelineIInv, PipelineTypeOK, PipelineInv

(* One step of the pipeline keeps the invariant and is a step of the mirror *)
(* or none at all.                                                          *)
LEMMA PipelineStep ==
  ASSUME PipelineIInv, [PipelineNext]_pipelineVars
  PROVE  PipelineIInv' /\ [Mirror!MirrorNext]_(Mirror!mirrorVars)
<1>1. PipelineTypeOK /\ ObjectInv /\ PipelineInv
  BY DEF PipelineIInv
<1>2. CASE ObjectSteps \/ UNCHANGED pipelineVars
  <2>1. [Next]_vars /\ UNCHANGED consumerVars
    BY <1>2 DEF ObjectSteps, pipelineVars
  <2>2. PipelineTypeOK' /\ ObjectInv' /\ PipelineInv' /\ Mirror!Issue
    BY <1>1, <2>1, ObjectSide
  <2> QED
    BY <2>2 DEF PipelineIInv, Mirror!MirrorNext
<1>3. CASE ConsumerSteps
  <2>1. PipelineTypeOK' /\ ObjectInv' /\ PipelineInv' /\ MirrorMoves
    BY <1>1, <1>3, ConsumerSide
  <2>2. [Mirror!MirrorNext]_(Mirror!mirrorVars)
    BY <2>1 DEF MirrorMoves, MirrorStep, Mirror!MirrorNext, Mirror!mirrorVars
  <2> QED
    BY <2>1, <2>2 DEF PipelineIInv
<1> QED
  BY <1>2, <1>3 DEF PipelineNext

THEOREM PipelineInvariant == PipelineSpec => []PipelineIInv
BY PipelineInvInit, PipelineStep, PTL DEF PipelineSpec

(* A record that does not show its latest publish or unpublish always has   *)
(* the job that will repair it waiting: no interleaving of drains, fetches, *)
(* writes, acknowledgements, retries, dead letters and evictions loses it.  *)
THEOREM NothingFallsBehind == PipelineSpec => []LagHasJob
<1>1. PipelineIInv => LagHasJob
  BY DEF PipelineIInv, PipelineInv, LagInv, LagHasJob, AwaitsSend
<1> QED
  BY <1>1, PipelineInvariant, PTL

(* Relation and index rows never disagree with the row they belong to.     *)
THEOREM DerivedRowsConsistent == PipelineSpec => []DerivedMatchesRow
<1>1. PipelineIInv => DerivedMatchesRow
  BY DEF PipelineIInv, PipelineInv
<1> QED
  BY <1>1, PipelineInvariant, PTL

(* The pipeline implements the mirror: the public database never brings     *)
(* back an older publication, nor a record that an unpublish has removed.   *)
THEOREM MirrorImplemented == PipelineSpec => ImplementsMirror
<1>1. PipelineInit => Mirror!MirrorInit
  <2> SUFFICES ASSUME PipelineInit PROVE Mirror!MirrorInit
    OBVIOUS
  <2>1. /\ rows = [r \in Record |-> 0] /\ tombs = [r \in Record |-> 0]
        /\ issued = {}
    BY DEF PipelineInit, Init, StoreInit
  <2>2. ShownAt = [r \in Record |-> 0]
    BY <2>1 DEF ShownAt, Shown
  <2> QED
    BY <2>1, <2>2 DEF Mirror!MirrorInit
<1> QED
  BY <1>1, PipelineInvariant, PipelineStep, PTL
  DEF PipelineSpec, ImplementsMirror, Mirror!MirrorSpec
=============================================================================
