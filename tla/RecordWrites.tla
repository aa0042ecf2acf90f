----------------------------- MODULE RecordWrites -----------------------------
(***************************************************************************)
(* One record of a tenant and those who write it: people through the sync  *)
(* socket of the admin console, agents through the operations of the MCP   *)
(* server.  Every operation is one transaction of the tenant's object and  *)
(* leaves its version in the history; what a client bases a write on, and  *)
(* what a person is asked to confirm, was read in an earlier one.          *)
(***************************************************************************)
EXTENDS RecordHistory

CONSTANTS
  People,          \* who write with the mode merge
  Agents,          \* who write with the mode strict
  RichFields,      \* the rich text fields
  RelationFields,  \* the relation fields, whose values are in rows of their own
  Values, Absent,  \* what a field may hold
  Statuses,        \* of the workflow
  MaxWrites,       \* bounds of the model: the writes,
  MaxSeq,          \* the versions in the history,
  MaxClock         \* and the time

Clients == People \cup Agents
Data == [Fields -> Values \cup {Absent}]

ASSUME FieldsAssumption == RichFields \subseteq Fields /\ RelationFields \subseteq Fields
ASSUME ClientsAssumption == People \cap Agents = {}
ASSUME StatusesAssumption == "draft" \in Statuses
ASSUME BoundsAssumption == {MaxWrites, MaxSeq, MaxClock} \subseteq Nat

VARIABLES
  rec,        \* records: the record's row, version 0 if there is none
  hist,       \* record_history
  published,  \* published_snapshots: source_version, 0 if there is none
  base,       \* what each client last read, its baseFieldVersions among it
  ask,        \* the confirmation of a publication an agent asked for
  now

recordVars == <<rec, hist, published, base, ask, now>>

Nothing == [f \in Fields |-> Absent]
NoRecord == [data |-> Nothing, fv |-> [f \in Fields |-> 0],
             status |-> "draft", version |-> 0, deleted |-> FALSE]
NoAsk == [stage |-> "none", version |-> 0, seq |-> 0, data |-> Nothing, spent |-> FALSE]

RecordInit ==
  /\ rec = NoRecord /\ hist = <<>> /\ published = 0
  /\ base = [c \in Clients |-> [data |-> Nothing, fv |-> NoRecord.fv]]
  /\ ask = NoAsk /\ now = 0

There == rec.version > 0 /\ ~ rec.deleted

(***************************************************************************)
(* writeRecordCore and the history.                                        *)
(***************************************************************************)
Changed(data) == {f \in Fields : data[f] # rec.data[f]}

HasRoom == LatestSeq(hist) < MaxSeq

Record(c, kind, status, data) ==
  hist' = Recorded(hist, [kind |-> kind, by |-> c, status |-> status, data |-> data], now)

\* What writeRecordCore does with an input that passes its checks: nothing at
\* all when it changes nothing, unless the write is forced.
Write(c, kind, status, data, force) ==
  /\ Changed(data) # {} \/ status # rec.status \/ rec.version = 0 \/ force
  /\ rec.version < MaxWrites /\ HasRoom
  /\ rec' = [data |-> data, status |-> status, deleted |-> FALSE,
             fv |-> [f \in Fields |-> IF f \in Changed(data) THEN rec.fv[f] + 1 ELSE rec.fv[f]],
             version |-> rec.version + 1]
  /\ Record(c, kind, status, data)

(***************************************************************************)
(* resolveSyncWrite: the fields somebody else has changed since the client *)
(* read them.  A client may name more fields as changed than differ from   *)
(* the record; that can only make a conflict, so it is left out.           *)
(***************************************************************************)
Stale(c, f) == base[c].fv[f] # rec.fv[f]

\* Mistake: agents write with the mode of the sync socket.
ConflictsMerged(c, data) == {f \in Changed(data) : Stale(c, f) /\ f \in RichFields}

Conflicts(c, data) ==
  {f \in Changed(data) : Stale(c, f) /\ (c \in Agents \/ f \in RichFields)}

Create(c) ==
  /\ rec.version = 0
  /\ \E data \in Data, status \in Statuses : Write(c, "write", status, data, FALSE)
  /\ UNCHANGED <<published, base, ask, now>>

Read(c) ==
  /\ There
  /\ base' = [base EXCEPT ![c] = [data |-> rec.data, fv |-> rec.fv]]
  /\ UNCHANGED <<rec, hist, published, ask, now>>

SyncPush(c) ==
  /\ c \in People /\ There
  /\ \E data \in Data, status \in Statuses :
       /\ Conflicts(c, data) = {}
       /\ Write(c, "write", status, data, FALSE)
  /\ UNCHANGED <<published, base, ask, now>>

\* record_update: the status has no version of its own, so a change of it asks
\* that every field be as the agent read it.
RecordUpdate(c) ==
  /\ c \in Agents /\ There
  /\ \E data \in Data, status \in Statuses :
       /\ Conflicts(c, data) = {}
       /\ status # rec.status => \A f \in Fields : ~ Stale(c, f)
       /\ Write(c, "write", status, data, FALSE)
  /\ UNCHANGED <<published, base, ask, now>>

\* record_restore, which also takes a deletion back.
Restore(c) ==
  /\ \E s \in DOMAIN hist :
       Write(c, "restore", hist[s].status, Load(hist, s), rec.deleted)
  /\ UNCHANGED <<published, base, ask, now>>

\* Mistake: a deleted record stays published.
CascadeSkipped == published' = published

CascadeUnpublish == published' = 0

\* deleteRecordCore: the version holds the record as it was, the row of the
\* record loses its relations, and what was published is taken back.
Delete(c) ==
  /\ There /\ rec.version < MaxWrites /\ HasRoom
  /\ rec' = [data |-> [f \in Fields |-> IF f \in RelationFields THEN Absent ELSE rec.data[f]],
             fv |-> rec.fv, status |-> rec.status,
             version |-> rec.version + 1, deleted |-> TRUE]
  /\ Record(c, "delete", rec.status, rec.data)
  /\ CascadeUnpublish
  /\ UNCHANGED <<base, ask, now>>

(***************************************************************************)
(* Publishing, by a person and, confirmed, by an agent.                    *)
(***************************************************************************)
PublishCore(c) ==
  /\ There /\ HasRoom
  /\ published' = rec.version
  /\ Record(c, "publish", rec.status, rec.data)

UnpublishCore(c) ==
  /\ published # 0 /\ HasRoom
  /\ published' = 0
  /\ Record(c, "unpublish", rec.status, rec.data)

Publish(c) ==
  /\ c \in People /\ PublishCore(c)
  /\ UNCHANGED <<rec, base, ask, now>>

Unpublish(c) ==
  /\ c \in People /\ UnpublishCore(c)
  /\ UNCHANGED <<rec, base, ask, now>>

\* describeRecord reads the record and then, in another call, its history; the
\* client keeps both until the person answers, and may send them again.
AskRecord ==
  /\ There
  /\ ask' = [stage |-> "record", version |-> rec.version, seq |-> 0,
             data |-> rec.data, spent |-> FALSE]
  /\ UNCHANGED <<rec, hist, published, base, now>>

AskHistory ==
  /\ ask.stage = "record"
  /\ ask' = [ask EXCEPT !.stage = "shown", !.seq = LatestSeq(hist)]
  /\ UNCHANGED <<rec, hist, published, base, now>>

\* Mistake: only the version of the record is compared.
ExpectedVersionOnly == ask.stage = "shown" /\ ask.version = rec.version

Expected ==
  ask.stage = "shown" /\ ask.version = rec.version /\ ask.seq = LatestSeq(hist)

ConfirmedPublish(c) ==
  /\ c \in Agents /\ Expected
  /\ published # rec.version
  /\ PublishCore(c)
  /\ ask' = [ask EXCEPT !.spent = TRUE]
  /\ UNCHANGED <<rec, base, now>>

ConfirmedUnpublish(c) ==
  /\ c \in Agents /\ Expected
  /\ UnpublishCore(c)
  /\ ask' = [ask EXCEPT !.spent = TRUE]
  /\ UNCHANGED <<rec, base, now>>

RecordTick ==
  /\ now < MaxClock /\ now' = now + 1
  /\ UNCHANGED <<rec, hist, published, base, ask>>

RecordNext ==
  \/ \E c \in Clients :
       \/ Create(c) \/ Read(c) \/ Restore(c) \/ Delete(c)
       \/ SyncPush(c) \/ RecordUpdate(c)
       \/ Publish(c) \/ Unpublish(c)
       \/ ConfirmedPublish(c) \/ ConfirmedUnpublish(c)
  \/ AskRecord \/ AskHistory \/ RecordTick

RecordSpec == RecordInit /\ [][RecordNext]_recordVars

(***************************************************************************)
(* What is promised.                                                       *)
(***************************************************************************)
RowType ==
  [kind : Kinds, by : Clients, status : Statuses, full : BOOLEAN,
   data : UNION {[F -> Values \cup {Absent}] : F \in SUBSET Fields},
   created : Nat, updated : Nat]

\* The type of the state, and what binds its parts: versions are numbered from
\* 1 (do/history.ts recordHistory), a row that is full holds every field, the
\* one that is published is a version of the record, and only what exists is.
RecordTypeOK ==
  /\ rec \in [data : Data, fv : [Fields -> Nat], status : Statuses,
              version : Nat, deleted : BOOLEAN]
  /\ DOMAIN hist \subseteq 1 .. MaxSeq
  /\ \A s \in DOMAIN hist :
       hist[s] \in RowType /\ (hist[s].full => hist[s].data \in Data)
  /\ published \in 0 .. rec.version /\ (published # 0 => There)
  /\ base \in [Clients -> [data : Data, fv : [Fields -> Nat]]]
  /\ ask \in [stage : {"none", "record", "shown"}, version : Nat, seq : Nat,
              data : Data, spent : BOOLEAN]
  /\ now \in Nat

\* The newest version reads as the record itself, whoever wrote last and by
\* whichever way (do/history.ts recordHistory folding and appending, write-record.ts,
\* publish.ts): what is restored later is what was there.
LatestIsCurrent ==
  There => Load(hist, LatestSeq(hist)) = rec.data

\* A version that has been superseded reads the same for as long as it is kept:
\* not folding, compaction into differences, pruning, nor what is written later
\* changes it (do/history.ts compact, prune, loadVersion).
SupersededVersionsFixed ==
  [][\A s \in DOMAIN hist :
       s # LatestSeq(hist) /\ s \in DOMAIN hist' => Load(hist', s) = Load(hist, s)]_recordVars

\* The versions of publications stay, whole, while the record is there
\* (do/history.ts:17 "保持上限に達しても record がある間は消さない").
PublicationsKept ==
  [][\A s \in DOMAIN hist :
       Pinned(hist[s]) => s \in DOMAIN hist' /\ hist'[s] = hist[s]]_recordVars

WrittenBy(c) ==
  /\ rec'.version # rec.version
  /\ hist'[LatestSeq(hist')].by = c /\ hist'[LatestSeq(hist')].kind = "write"

\* Nobody overwrites what they have not seen: an agent in any field, a person
\* in rich text (sync-protocol/src/resolve.ts, ops/write.ts record_update), even
\* over restored versions and deletions taken back.  One thing slips through: a
\* deletion empties the relations and counts no version of them, so a relation
\* that was restored empty may be filled by who saw it filled.
SeenBeforeOverwritten ==
  [][\A c \in Clients, f \in Fields :
       /\ rec.version # 0 /\ WrittenBy(c) /\ rec'.data[f] # rec.data[f]
       /\ c \in Agents \/ f \in RichFields
       => \/ base[c].data[f] = rec.data[f]
          \/ f \in RelationFields /\ rec.data[f] = Absent]_recordVars

\* An agent publishes or unpublishes only the content the confirmation was
\* asked for, and once per confirmation: a publication taken back is not
\* brought back by the same answer (mcp/confirm.ts, ops/write.ts
\* expectationMismatch).
ConfirmedIsShown ==
  [][hist' # hist /\ hist'[LatestSeq(hist')].by \in Agents /\ Pinned(hist'[LatestSeq(hist')])
       => ask.data = rec.data /\ ~ ask.spent]_recordVars

===============================================================================
