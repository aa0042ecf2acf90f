--------------------------- MODULE FollowUps_proofs ---------------------------
(* Safety of the two things outside the object that follow a record: the   *)
(* file of an asset, and the notification of a reservation.  For any       *)
(* assets, tokens, reservations, requests and number of events.            *)
EXTENDS AssetFiles, ModuleEvents, TLAPS

-----------------------------------------------------------------------------
(* Assets.                                                                 *)
UploadStages == {"new", "claimed", "admitted", "put", "refused", "over"}

AssetTypes ==
  /\ tokenState \in [UploadTokens -> {"none", "open", "closed"}]
  /\ claimedBy \in [Assets -> UploadTokens \cup {Nobody}]
  /\ uploadAt \in [Assets -> UploadStages]
  /\ assetRecord \in [Assets -> {"none", "live", "deleted"}]

(* What is about to be removed is known to be exposed.                     *)
RemovalsExposed == removals \subseteq exposed /\ cleaning \subseteq exposed

(* A record is created in one step only, and whoever removes the file of   *)
(* an upload knows that it has none.                                       *)
EarlyHasNoRecord ==
  \A a \in Assets : uploadAt[a] # "over" => assetRecord[a] = "none"

(* From the time it is put, while the record is created and ever after.    *)
FileKept ==
  \A a \in Assets \ exposed :
    uploadAt[a] = "put" \/ assetRecord[a] # "none" => a \in files

(* A token that has been claimed is closed, and who claimed it is one.     *)
ClaimsClosed ==
  /\ \A a \in Assets : claimedBy[a] # Nobody => tokenState[claimedBy[a]] = "closed"
  /\ \A a, b \in Assets : claimedBy[a] # Nobody /\ claimedBy[b] = claimedBy[a] => a = b

AssetsInv == AssetTypes /\ RemovalsExposed /\ EarlyHasNoRecord /\ FileKept /\ ClaimsClosed

LEMMA AssetsStart == AssetsInit => AssetsInv
BY NobodyAssumption
DEF AssetsInit, AssetsInv, AssetTypes, RemovalsExposed, EarlyHasNoRecord, FileKept,
    ClaimsClosed, UploadStages

(* An upload moves on without touching files or records.                   *)
LEMMA MovingKeeps ==
  ASSUME AssetsInv, NEW a \in Assets, NEW from \in UploadStages \ {"put", "over"},
         NEW to \in {"claimed", "admitted", "over"}, Moves(a, from, to),
         UNCHANGED <<tokenState, claimedBy, files, assetRecord, removals, cleaning, exposed>>
  PROVE  AssetsInv'
BY DEF AssetsInv, AssetTypes, RemovalsExposed, EarlyHasNoRecord, FileKept, ClaimsClosed,
       UploadStages, Moves

LEMMA TokenKeeps ==
  ASSUME AssetsInv, NEW t \in UploadTokens, CreateAssetUpload(t) \/ TokenExpires(t)
  PROVE  AssetsInv'
<1>1. /\ tokenState' \in [UploadTokens -> {"none", "open", "closed"}]
      /\ \A s \in UploadTokens : tokenState[s] = "closed" => tokenState'[s] = "closed"
  BY DEF AssetsInv, AssetTypes, CreateAssetUpload, TokenExpires
<1>2. UNCHANGED <<claimedBy, uploadAt, files, assetRecord, removals, cleaning, exposed>>
  BY DEF CreateAssetUpload, TokenExpires
<1> QED
  BY <1>1, <1>2 DEF AssetsInv, AssetTypes, RemovalsExposed, EarlyHasNoRecord, FileKept,
                    ClaimsClosed

LEMMA ClaimKeeps ==
  ASSUME AssetsInv, NEW a \in Assets, NEW t \in UploadTokens, ClaimAssetUpload(a, t)
  PROVE  AssetsInv'
<1>1. /\ tokenState[t] = "open" /\ tokenState' = [tokenState EXCEPT ![t] = "closed"]
      /\ claimedBy' = [claimedBy EXCEPT ![a] = t]
      /\ uploadAt[a] = "new" /\ uploadAt' = [uploadAt EXCEPT ![a] = "claimed"]
      /\ UNCHANGED <<files, assetRecord, removals, cleaning, exposed>>
  BY DEF ClaimAssetUpload, Claimed, Moves
<1>2. \A b \in Assets : claimedBy[b] # t
  BY <1>1, NobodyAssumption DEF AssetsInv, AssetTypes, ClaimsClosed
<1>3. AssetTypes'
  BY <1>1 DEF AssetsInv, AssetTypes, UploadStages
<1>4. ClaimsClosed'
  BY <1>1, <1>2 DEF AssetsInv, AssetTypes, ClaimsClosed
<1>5. RemovalsExposed' /\ EarlyHasNoRecord' /\ FileKept'
  BY <1>1 DEF AssetsInv, AssetTypes, RemovalsExposed, EarlyHasNoRecord, FileKept
<1> QED
  BY <1>3, <1>4, <1>5 DEF AssetsInv

LEMMA PutKeeps ==
  ASSUME AssetsInv, NEW a \in Assets, PutFile(a)
  PROVE  AssetsInv'
<1>1. /\ uploadAt[a] = "admitted" /\ files \subseteq files' /\ files' \subseteq files \cup {a}
      /\ \/ uploadAt' = [uploadAt EXCEPT ![a] = "put"] /\ a \in files'
         \/ uploadAt' = [uploadAt EXCEPT ![a] = "over"]
      /\ UNCHANGED <<tokenState, claimedBy, assetRecord, removals, cleaning, exposed>>
  BY DEF PutFile, Moves
<1> QED
  BY <1>1 DEF AssetsInv, AssetTypes, RemovalsExposed, EarlyHasNoRecord, FileKept, ClaimsClosed,
              UploadStages

(* Whatever the answer, the record is there only if it was not refused.    *)
LEMMA CreateKeeps ==
  ASSUME AssetsInv, NEW a \in Assets, CreateAssetRecord(a)
  PROVE  AssetsInv'
<1>1. /\ uploadAt[a] = "put"
      /\ \/ /\ uploadAt' = [uploadAt EXCEPT ![a] = "over"]
            /\ assetRecord' \in {assetRecord, [assetRecord EXCEPT ![a] = "live"]}
         \/ uploadAt' = [uploadAt EXCEPT ![a] = "refused"] /\ UNCHANGED assetRecord
      /\ UNCHANGED <<tokenState, claimedBy, files, removals, cleaning, exposed>>
  BY DEF CreateAssetRecord, AfterAnswer, Moves
<1> QED
  BY <1>1 DEF AssetsInv, AssetTypes, RemovalsExposed, EarlyHasNoRecord, FileKept, ClaimsClosed,
              UploadStages

LEMMA RemoveRefusedKeeps ==
  ASSUME AssetsInv, NEW a \in Assets, RemoveRefusedFile(a)
  PROVE  AssetsInv'
<1>1. /\ uploadAt[a] = "refused" /\ uploadAt' = [uploadAt EXCEPT ![a] = "over"]
      /\ files \ {a} \subseteq files'
      /\ UNCHANGED <<tokenState, claimedBy, assetRecord, removals, cleaning, exposed>>
  BY DEF RemoveRefusedFile, Moves
<1> QED
  BY <1>1 DEF AssetsInv, AssetTypes, RemovalsExposed, EarlyHasNoRecord, FileKept, ClaimsClosed,
              UploadStages

LEMMA DeleteAndRestoreKeep ==
  ASSUME AssetsInv, NEW a \in Assets,
         DeleteAsset(a) \/ DeleteAssetRecord(a) \/ RestoreAsset(a)
  PROVE  AssetsInv'
<1>1. /\ assetRecord[a] # "none" /\ exposed \subseteq exposed'
      /\ \E state \in {"live", "deleted"} : assetRecord' = [assetRecord EXCEPT ![a] = state]
      /\ removals' \subseteq removals \cup (exposed' \cap {a})
      /\ UNCHANGED <<tokenState, claimedBy, uploadAt, files, cleaning>>
  BY DEF DeleteAsset, DeleteAssetRecord, RestoreAsset, uploadVars
<1> QED
  BY <1>1 DEF AssetsInv, AssetTypes, RemovalsExposed, EarlyHasNoRecord, FileKept, ClaimsClosed

(* Only exposed files go.                                                  *)
LEMMA RemovingKeeps ==
  ASSUME AssetsInv, UNCHANGED <<uploadVars, assetRecord, exposed>>,
         files \ exposed \subseteq files',
         removals' \subseteq removals, cleaning' \subseteq cleaning
  PROVE  AssetsInv'
BY DEF AssetsInv, AssetTypes, RemovalsExposed, EarlyHasNoRecord, FileKept, ClaimsClosed,
       uploadVars

LEMMA LookKeeps ==
  ASSUME AssetsInv, NEW keys \in SUBSET Assets, LookAgain(keys)
  PROVE  AssetsInv'
<1>1. keys \ LiveAssets = keys
  BY DEF LookAgain, StillReferenced
<1>2. /\ cleaning' = cleaning \cup keys /\ exposed' = exposed \cup keys
      /\ UNCHANGED <<tokenState, claimedBy, uploadAt, files, assetRecord, removals>>
  BY <1>1 DEF LookAgain, uploadVars
<1> QED
  BY <1>2 DEF AssetsInv, AssetTypes, RemovalsExposed, EarlyHasNoRecord, FileKept, ClaimsClosed

LEMMA AssetStepKeeps ==
  ASSUME AssetsInv, [AssetsNext]_assetVars
  PROVE  AssetsInv'
<1>1. CASE UNCHANGED assetVars
  BY <1>1 DEF assetVars, uploadVars, AssetsInv, AssetTypes, RemovalsExposed,
              EarlyHasNoRecord, FileKept, ClaimsClosed
<1>2. ASSUME NEW a \in Assets, AdmitUpload(a) \/ StartUpload(a)
      PROVE  AssetsInv'
  <2>1. CASE Moves(a, "claimed", "admitted") /\ AdmitUpload(a)
    BY <2>1, MovingKeeps DEF AdmitUpload, UploadStages
  <2>2. CASE Moves(a, "claimed", "over") /\ AdmitUpload(a)
    BY <2>2, MovingKeeps DEF AdmitUpload, UploadStages
  <2>3. CASE StartUpload(a)
    BY <2>3, MovingKeeps DEF StartUpload, UploadStages
  <2> QED
    BY <1>2, <2>1, <2>2, <2>3 DEF AdmitUpload
<1>3. ASSUME NEW a \in Assets, RemoveDeletedFile(a)
      PROVE  AssetsInv'
  <2>1. files \ exposed \subseteq files' /\ removals' \subseteq removals
    BY <1>3 DEF RemoveDeletedFile, AssetsInv, RemovalsExposed
  <2> QED
    BY <1>3, <2>1, RemovingKeeps DEF RemoveDeletedFile
<1>4. CASE RemoveOrphans
  <2>1. files \ exposed \subseteq files' /\ cleaning' \subseteq cleaning
    BY <1>4 DEF RemoveOrphans, AssetsInv, RemovalsExposed
  <2> QED
    BY <1>4, <2>1, RemovingKeeps DEF RemoveOrphans
<1> QED
  BY <1>1, <1>2, <1>3, <1>4, TokenKeeps, ClaimKeeps, PutKeeps, CreateKeeps,
     RemoveRefusedKeeps, DeleteAndRestoreKeep, LookKeeps
  DEF AssetsNext

(* The inductive invariant of uploads, deletions and the removal of        *)
(* orphans.                                                                *)
THEOREM AssetsInvariant == AssetsSpec => []AssetsInv
BY AssetsStart, AssetStepKeeps, PTL DEF AssetsSpec

(* No failed or unanswered call, no deletion, restoration or removal of    *)
(* orphans costs a live asset its file, but for the exceptions named by    *)
(* exposed; and no token makes two assets.                                 *)
THEOREM AssetsStaySound == AssetsSpec => []AssetsSound
<1>1. AssetsInv => AssetsSound
  BY DEF AssetsInv, AssetsSound, LiveAssetHasFile, TokenUsedOnce, LiveAssets, FileKept,
         ClaimsClosed
<1> QED
  BY <1>1, AssetsInvariant, PTL
-----------------------------------------------------------------------------
(* Module events.                                                          *)
EventsUpTo(n) == [id : 1 .. n, of : Reservations]

EventTypes ==
  /\ awake \in BOOLEAN /\ enabled \in BOOLEAN /\ emitted \in Nat
  /\ sweepDue \in BOOLEAN /\ alarmSet \in BOOLEAN
  /\ at \in [Drainers -> {"idle", "committed", "sending", "sent", "drained"}]
  /\ batch \in [Drainers -> SUBSET EventsUpTo(emitted)]
  /\ events \subseteq EventsUpTo(emitted)
  /\ modulesQueue \subseteq EventsUpTo(emitted) /\ parkedJobs \subseteq EventsUpTo(emitted)
  /\ notes \in [Reservations -> 0 .. 1] /\ owed \in [Reservations -> BOOLEAN]

(* A number stands for one event, in the table and in what a drain took.   *)
Numbered(rows) == \A e, f \in rows : e.id = f.id => e = f
RowsNumbered == Numbered(events) /\ \A d \in Drainers : Numbered(batch[d])

(* Whenever rows are left, somebody comes for them.                        *)
RowsAreFetched == events # {} => SweepComes

(* The message is sent, the row not yet marked.                            *)
Marking(d, e) == at[d] = "sent" /\ IsFirst(e, batch[d])

(* An event's row is no witness while it is being marked: the message is,  *)
(* or what has become of it.                                               *)
OwedHasWitness ==
  \A r \in Reservations : owed[r] =>
    \/ notes[r] = 1
    \/ \E e \in modulesQueue \cup parkedJobs : e.of = r
    \/ \E e \in events : e.of = r /\ \A d \in Drainers : ~ Marking(d, e)

EventsInv == EventTypes /\ RowsNumbered /\ RowsAreFetched /\ OwedHasWitness

LEMMA EventsStart == EventsInit => EventsInv
<1> SUFFICES ASSUME EventsInit
             PROVE  EventsInv
  OBVIOUS
<1>1. notes \in [Reservations -> 0 .. 1] /\ owed \in [Reservations -> BOOLEAN]
  BY DEF EventsInit
<1>2. batch \in [Drainers -> SUBSET EventsUpTo(emitted)] /\ emitted \in Nat
  BY DEF EventsInit
<1>3. EventTypes
  BY <1>1, <1>2 DEF EventsInit, EventTypes
<1>4. \A r \in Reservations : ~ owed[r]
  BY DEF EventsInit
<1> QED
  BY <1>3, <1>4 DEF EventsInit, EventsInv, RowsNumbered, Numbered, RowsAreFetched, OwedHasWitness

LEMMA EventsGrow ==
  ASSUME NEW n \in Nat
  PROVE  EventsUpTo(n) \subseteq EventsUpTo(n + 1)
BY DEF EventsUpTo

LEMMA WriterIsNotSweeper ==
  ASSUME NEW d \in Writers
  PROVE  d \in Drainers /\ d # Sweeper
BY SweeperAssumption DEF Drainers

LEMMA WriteKeeps ==
  ASSUME EventsInv, NEW d \in Writers, NEW r \in Reservations, WriteReservation(d, r)
  PROVE  EventsInv'
<1> USE WriterIsNotSweeper
<1> DEFINE e == [id |-> emitted + 1, of |-> r]
<1>1. /\ at[d] = "idle" /\ at' \in {at, [at EXCEPT ![d] = "committed"]}
      /\ UNCHANGED <<awake, batch, modulesQueue, parkedJobs, enabled, notes>>
  BY DEF WriteReservation, Commit, queueVars, alarmVars
<1>2. /\ events' # {} => sweepDue' /\ alarmSet'
      /\ sweepDue' \in BOOLEAN /\ alarmSet' \in BOOLEAN
  BY DEF WriteReservation, Commit, alarmVars, EventsInv, EventTypes
<1>3. \/ events' = events \cup {e} /\ emitted' = emitted + 1 /\ owed' = [owed EXCEPT ![r] = TRUE]
      \/ UNCHANGED <<events, emitted, owed>>
  BY DEF WriteReservation, Commit
<1>4. emitted' \in Nat /\ EventsUpTo(emitted) \subseteq EventsUpTo(emitted')
  BY <1>3, EventsGrow DEF EventsInv, EventTypes
<1>5. EventTypes'
  <2>1. events' \subseteq EventsUpTo(emitted')
    <3>1. e \in EventsUpTo(emitted + 1)
      BY DEF EventsUpTo, EventsInv, EventTypes
    <3> QED
      BY <1>3, <1>4, <3>1 DEF EventsInv, EventTypes
  <2>2. batch' \in [Drainers -> SUBSET EventsUpTo(emitted')]
    BY <1>1, <1>4 DEF EventsInv, EventTypes
  <2>3. owed' \in [Reservations -> BOOLEAN]
    BY <1>3 DEF EventsInv, EventTypes
  <2>4. at' \in [Drainers -> {"idle", "committed", "sending", "sent", "drained"}]
    BY <1>1 DEF EventsInv, EventTypes
  <2> QED
    BY <1>1, <1>2, <1>4, <2>1, <2>2, <2>3, <2>4 DEF EventsInv, EventTypes
<1>6. RowsAreFetched'
  BY <1>2 DEF RowsAreFetched, SweepComes
<1>7. \A x \in Drainers : \A f : Marking(x, f)' => Marking(x, f)
  BY <1>1 DEF Marking, IsFirst, EventsInv, EventTypes
<1>8. \A x \in Drainers : ~ Marking(x, e)
  <2>1. e \notin EventsUpTo(emitted)
    BY DEF EventsUpTo, EventsInv, EventTypes
  <2> QED
    BY <2>1 DEF Marking, IsFirst, EventsInv, EventTypes
<1>9. OwedHasWitness'
  <2> SUFFICES ASSUME NEW o \in Reservations, owed'[o]
               PROVE  \/ notes'[o] = 1
                      \/ \E f \in modulesQueue' \cup parkedJobs' : f.of = o
                      \/ \E f \in events' : f.of = o /\ \A x \in Drainers : ~ Marking(x, f)'
    BY DEF OwedHasWitness
  <2>1. CASE owed[o]
    BY <1>1, <1>3, <1>7, <2>1 DEF EventsInv, OwedHasWitness
  <2>2. CASE ~ owed[o]
    <3>1. o = r /\ e \in events' /\ e.of = r
      BY <1>3, <2>2 DEF EventsInv, EventTypes
    <3> QED
      BY <1>7, <1>8, <3>1
  <2> QED
    BY <2>1, <2>2
<1>10. RowsNumbered'
  <2>1. \A f \in events : f.id \in Nat /\ f.id # emitted + 1
    BY DEF EventsUpTo, EventsInv, EventTypes
  <2>2. e.id = emitted + 1
    OBVIOUS
  <2> QED
    BY <1>1, <1>3, <2>1, <2>2 DEF EventsInv, RowsNumbered, Numbered
<1> QED
  BY <1>5, <1>6, <1>9, <1>10 DEF EventsInv

LEMMA RemoveNotificationKeeps ==
  ASSUME EventsInv, NEW d \in Writers, NEW r \in Reservations, RemoveNotification(d, r)
  PROVE  EventsInv'
<1> USE WriterIsNotSweeper
<1>1. /\ at[d] = "idle" /\ at' \in {at, [at EXCEPT ![d] = "committed"]}
      /\ events' # {} => sweepDue' /\ alarmSet'
      /\ sweepDue' \in BOOLEAN /\ alarmSet' \in BOOLEAN
      /\ UNCHANGED <<awake, batch, events, modulesQueue, parkedJobs, enabled, emitted>>
  BY DEF RemoveNotification, Commit, queueVars, alarmVars, EventsInv, EventTypes
<1>2. /\ notes[r] > 0 /\ notes' = [notes EXCEPT ![r] = @ - 1]
      /\ owed' = [owed EXCEPT ![r] = FALSE]
  BY DEF RemoveNotification
<1>3. EventTypes'
  BY <1>1, <1>2 DEF EventsInv, EventTypes
<1>4. RowsAreFetched'
  BY <1>1 DEF RowsAreFetched, SweepComes
<1>5. \A x \in Drainers : \A f : Marking(x, f)' => Marking(x, f)
  BY <1>1 DEF Marking, IsFirst, EventsInv, EventTypes
<1>6. OwedHasWitness'
  BY <1>1, <1>2, <1>5 DEF EventsInv, EventTypes, OwedHasWitness
<1>7. RowsNumbered'
  BY <1>1 DEF EventsInv, RowsNumbered, Numbered
<1> QED
  BY <1>3, <1>4, <1>6, <1>7 DEF EventsInv

(* A handler's own steps, but for the mark, change neither rows nor what   *)
(* the sweep is waited for by.                                             *)
LEMMA DrainingKeeps ==
  ASSUME EventsInv, NEW d \in Drainers, NEW rows \in SUBSET events,
         NEW to \in {"idle", "sending", "drained"},
         at' = [at EXCEPT ![d] = to], d = Sweeper => to # "idle", at[d] # "idle",
         batch' \in [Drainers -> SUBSET EventsUpTo(emitted)],
         \A x \in Drainers \ {d} : batch'[x] = batch[x],
         batch'[d] \subseteq batch[d] \/ batch'[d] \subseteq events,
         events' = rows, \A e \in events \ rows : Marking(d, e),
         modulesQueue \subseteq modulesQueue', modulesQueue' \subseteq EventsUpTo(emitted),
         UNCHANGED <<awake, parkedJobs, alarmVars, recordsVars>>
  PROVE  EventsInv'
<1>1. EventTypes'
  BY DEF EventsInv, EventTypes, alarmVars, recordsVars
<1>2. RowsAreFetched'
  BY DEF EventsInv, EventTypes, RowsAreFetched, SweepComes, alarmVars
<1>3. \A x \in Drainers : \A f : Marking(x, f)' => Marking(x, f)
  BY DEF Marking, IsFirst, EventsInv, EventTypes
<1>4. OwedHasWitness'
  BY <1>3 DEF EventsInv, OwedHasWitness, recordsVars
<1>5. RowsNumbered'
  <2>1. Numbered(events') /\ Numbered(batch'[d])
    BY DEF EventsInv, RowsNumbered, Numbered
  <2> QED
    BY <2>1 DEF EventsInv, RowsNumbered, Numbered
<1> QED
  BY <1>1, <1>2, <1>4, <1>5 DEF EventsInv

LEMMA DrainStepKeeps ==
  ASSUME EventsInv, NEW d \in Drainers,
         \/ DrainModuleEvents(d)
         \/ \E e \in batch[d] : MarkModuleEventSent(d, e) \/ SendEventFails(d, e)
  PROVE  EventsInv'
<1>1. Drained(d) \in {"idle", "drained"} /\ (d = Sweeper => Drained(d) # "idle")
  BY DEF Drained
<1>2. /\ batch \in [Drainers -> SUBSET EventsUpTo(emitted)]
      /\ modulesQueue \subseteq EventsUpTo(emitted) /\ events \subseteq EventsUpTo(emitted)
  BY DEF EventsInv, EventTypes
<1>3. CASE DrainModuleEvents(d)
  <2>1. /\ at[d] = "committed" /\ events' = events /\ modulesQueue' = modulesQueue
        /\ UNCHANGED <<awake, parkedJobs, alarmVars, recordsVars>>
        /\ \/ at' = [at EXCEPT ![d] = Drained(d)] /\ batch' = batch
           \/ /\ at' = [at EXCEPT ![d] = "sending"]
              /\ \E taken \in SUBSET events : batch' = [batch EXCEPT ![d] = taken]
    BY <1>3 DEF DrainModuleEvents, queueVars
  <2>2. /\ batch' \in [Drainers -> SUBSET EventsUpTo(emitted)]
        /\ \A x \in Drainers \ {d} : batch'[x] = batch[x]
        /\ batch'[d] \subseteq batch[d] \/ batch'[d] \subseteq events
    BY <1>2, <2>1
  <2> QED
    BY <1>1, <1>2, <2>1, <2>2, DrainingKeeps
<1>4. ASSUME NEW e \in batch[d], MarkModuleEventSent(d, e)
      PROVE  EventsInv'
  <2>1. /\ at[d] = "sent" /\ IsFirst(e, batch[d]) /\ events' = events \ {e}
        /\ batch' = [batch EXCEPT ![d] = batch[d] \ {e}]
        /\ modulesQueue' = modulesQueue
        /\ UNCHANGED <<awake, parkedJobs, alarmVars, recordsVars>>
        /\ \/ at' = [at EXCEPT ![d] = Drained(d)]
           \/ at' = [at EXCEPT ![d] = "sending"]
    BY <1>4 DEF MarkModuleEventSent, queueVars
  <2>2. /\ batch' \in [Drainers -> SUBSET EventsUpTo(emitted)]
        /\ \A x \in Drainers \ {d} : batch'[x] = batch[x]
        /\ batch'[d] \subseteq batch[d]
    BY <1>2, <2>1
  <2>3. \A f \in events \ (events \ {e}) : Marking(d, f)
    BY <2>1 DEF Marking
  <2> QED
    BY <1>1, <1>2, <2>1, <2>2, <2>3, DrainingKeeps
<1>5. ASSUME NEW e \in batch[d], SendEventFails(d, e)
      PROVE  EventsInv'
  <2>1. /\ at[d] = "sending" /\ events' = events
        /\ at' = [at EXCEPT ![d] = Drained(d)] /\ batch' = [batch EXCEPT ![d] = {}]
        /\ modulesQueue' \in {modulesQueue, modulesQueue \cup {e}}
        /\ UNCHANGED <<awake, parkedJobs, alarmVars, recordsVars>>
    BY <1>5 DEF SendEventFails
  <2>2. /\ batch' \in [Drainers -> SUBSET EventsUpTo(emitted)]
        /\ \A x \in Drainers \ {d} : batch'[x] = batch[x]
        /\ batch'[d] \subseteq batch[d]
        /\ modulesQueue \subseteq modulesQueue' /\ modulesQueue' \subseteq EventsUpTo(emitted)
    BY <1>2, <2>1
  <2> QED
    BY <1>1, <1>2, <2>1, <2>2, DrainingKeeps
<1> QED
  BY <1>3, <1>4, <1>5
LEMMA SendKeeps ==
  ASSUME EventsInv, NEW d \in Drainers, NEW e \in batch[d], SendEvent(d, e)
  PROVE  EventsInv'
<1>1. /\ at[d] = "sending" /\ IsFirst(e, batch[d]) /\ at' = [at EXCEPT ![d] = "sent"]
      /\ modulesQueue' = modulesQueue \cup {e}
      /\ UNCHANGED <<awake, events, batch, parkedJobs, alarmVars, recordsVars>>
  BY DEF SendEvent
<1>2. e \in EventsUpTo(emitted)
  BY DEF EventsInv, EventTypes
<1>3. EventTypes'
  BY <1>1, <1>2 DEF EventsInv, EventTypes, alarmVars, recordsVars
<1>4. RowsAreFetched'
  BY <1>1 DEF EventsInv, EventTypes, RowsAreFetched, SweepComes, alarmVars
<1>5. \A x \in Drainers : \A f : Marking(x, f)' => Marking(x, f) \/ f = e
  <2>1. ASSUME NEW f, IsFirst(f, batch[d])
        PROVE  f = e
    <3>1. f \in batch[d] /\ f.id <= e.id /\ e.id <= f.id
      BY <1>1, <2>1 DEF IsFirst
    <3>2. f.id \in Nat /\ e.id \in Nat
      BY <3>1 DEF EventsInv, EventTypes, EventsUpTo
    <3> QED
      BY <3>1, <3>2 DEF EventsInv, RowsNumbered, Numbered
  <2> QED
    BY <1>1, <2>1 DEF Marking, IsFirst, EventsInv, EventTypes
<1>6. OwedHasWitness'
  BY <1>1, <1>5 DEF EventsInv, OwedHasWitness, recordsVars
<1>7. RowsNumbered'
  BY <1>1 DEF EventsInv, RowsNumbered, Numbered
<1> QED
  BY <1>3, <1>4, <1>6, <1>7 DEF EventsInv

(* The sweep starts, ends, and the object comes and goes.                  *)
LEMMA SweepAndSleepKeep ==
  ASSUME EventsInv, SweepFires \/ SweepEnds \/ Sleeps \/ Wakes
  PROVE  EventsInv'
<1>1. /\ at' \in [Drainers -> {"idle", "committed", "sending", "sent", "drained"}]
      /\ batch' \in [Drainers -> SUBSET EventsUpTo(emitted)]
      /\ awake' \in BOOLEAN /\ sweepDue' \in BOOLEAN /\ alarmSet' \in BOOLEAN
      /\ UNCHANGED <<events, modulesQueue, parkedJobs, recordsVars>>
  <2>1. UNCHANGED <<events, modulesQueue, parkedJobs, recordsVars>>
    BY DEF SweepFires, SweepEnds, Sleeps, Wakes, queueVars
  <2>2. CASE SweepFires
    BY <2>1, <2>2 DEF SweepFires, EventsInv, EventTypes
  <2>3. CASE SweepEnds
    BY <2>1, <2>3 DEF SweepEnds, EventsInv, EventTypes
  <2>4. CASE Sleeps
    BY <2>1, <2>4 DEF Sleeps, EventsInv, EventTypes
  <2>5. CASE Wakes
    BY <2>1, <2>5 DEF Wakes, drainVars, EventsInv, EventTypes
  <2> QED
    BY <2>2, <2>3, <2>4, <2>5
<1>2. EventTypes'
  BY <1>1 DEF EventsInv, EventTypes, recordsVars
<1>3. Sweeper \in Drainers
  BY DEF Drainers
<1>4. RowsAreFetched'
  <2>1. CASE SweepFires
    BY <1>3, <2>1 DEF SweepFires, EventsInv, EventTypes, RowsAreFetched, SweepComes
  <2>2. CASE SweepEnds
    BY <2>2 DEF SweepEnds, EventsInv, EventTypes, RowsAreFetched, SweepComes
  <2>3. CASE Sleeps
    BY <2>3 DEF Sleeps, EventsInv, EventTypes, RowsAreFetched, SweepComes
  <2>4. CASE Wakes
    BY <2>4 DEF Wakes, EventsInv, EventTypes, RowsAreFetched, SweepComes
  <2> QED
    BY <2>1, <2>2, <2>3, <2>4
<1>5. \A d \in Drainers : \A e : Marking(d, e)' => Marking(d, e)
  <2>1. CASE SweepFires
    BY <2>1 DEF SweepFires, Marking, IsFirst, EventsInv, EventTypes
  <2>2. CASE SweepEnds
    BY <2>2 DEF SweepEnds, Marking, IsFirst, EventsInv, EventTypes
  <2>3. CASE Sleeps
    BY <2>3 DEF Sleeps, Marking, EventsInv, EventTypes
  <2>4. CASE Wakes
    BY <2>4 DEF Wakes, drainVars, Marking, IsFirst
  <2> QED
    BY <2>1, <2>2, <2>3, <2>4
<1>6. OwedHasWitness'
  BY <1>1, <1>5 DEF EventsInv, OwedHasWitness, recordsVars
<1>7. RowsNumbered'
  <2>1. \A d \in Drainers : batch'[d] = batch[d] \/ batch'[d] = {}
    BY DEF SweepFires, SweepEnds, Sleeps, Wakes, drainVars
  <2> QED
    BY <1>1, <2>1 DEF EventsInv, RowsNumbered, Numbered
<1> QED
  BY <1>2, <1>4, <1>6, <1>7 DEF EventsInv

(* A message goes once the notification is there, or becomes a parked one, *)
(* or a message again.                                                     *)
LEMMA ConsumerKeeps ==
  ASSUME EventsInv, NEW e \in modulesQueue \cup parkedJobs,
         \/ e \in modulesQueue /\ (HandleModuleJob(e) \/ ParkModuleJob(e))
         \/ e \in parkedJobs /\ ReplayModuleJob(e)
  PROVE  EventsInv'
<1>1. /\ UNCHANGED <<awake, events, at, batch, sweepDue, alarmSet, enabled, emitted, owed>>
      /\ modulesQueue' \cup parkedJobs' \subseteq modulesQueue \cup parkedJobs
  BY DEF HandleModuleJob, ParkModuleJob, ReplayModuleJob, drainVars, alarmVars, recordsVars
<1>2. e.of \in Reservations
  BY DEF EventsInv, EventTypes, EventsUpTo
<1>3. /\ notes' \in [Reservations -> 0 .. 1]
      /\ \A r \in Reservations : notes[r] = 1 => notes'[r] = 1
      /\ \A f \in modulesQueue \cup parkedJobs :
           f \in modulesQueue' \cup parkedJobs' \/ notes'[f.of] = 1
  <2>1. CASE HandleModuleJob(e) /\ e \in modulesQueue
    <3>1. /\ notes' = IF notes[e.of] = 0 THEN [notes EXCEPT ![e.of] = 1] ELSE notes
          /\ modulesQueue \ {e} \subseteq modulesQueue' /\ parkedJobs' = parkedJobs
      BY <2>1 DEF HandleModuleJob, ModuleWrite
    <3>2. notes[e.of] \in 0 .. 1
      BY <1>2 DEF EventsInv, EventTypes
    <3>3. notes'[e.of] = 1
      BY <1>2, <3>1, <3>2 DEF EventsInv, EventTypes
    <3> QED
      BY <3>1, <3>3 DEF EventsInv, EventTypes
  <2>2. CASE ParkModuleJob(e)
    BY <2>2 DEF ParkModuleJob, recordsVars, EventsInv, EventTypes
  <2>3. CASE ReplayModuleJob(e)
    BY <2>3 DEF ReplayModuleJob, recordsVars, EventsInv, EventTypes
  <2> QED
    BY <2>1, <2>2, <2>3
<1>4. EventTypes'
  BY <1>1, <1>3 DEF EventsInv, EventTypes
<1>5. RowsAreFetched'
  BY <1>1 DEF EventsInv, RowsAreFetched, SweepComes
<1>6. OwedHasWitness'
  BY <1>1, <1>3 DEF EventsInv, OwedHasWitness, Marking
<1>7. RowsNumbered'
  BY <1>1 DEF EventsInv, RowsNumbered, Numbered
<1> QED
  BY <1>4, <1>5, <1>6, <1>7 DEF EventsInv

LEMMA EventStepKeeps ==
  ASSUME EventsInv, [EventsNext]_eventVars
  PROVE  EventsInv'
<1>1. CASE UNCHANGED eventVars
  BY <1>1 DEF eventVars, queueVars, drainVars, alarmVars, recordsVars, EventsInv, EventTypes,
              RowsNumbered, Numbered, RowsAreFetched, SweepComes, OwedHasWitness, Marking
<1>2. CASE SetModuleEnabled
  BY <1>2 DEF SetModuleEnabled, queueVars, drainVars, alarmVars, EventsInv, EventTypes,
              RowsNumbered, Numbered, RowsAreFetched, SweepComes, OwedHasWitness, Marking
<1> QED
  BY <1>1, <1>2, WriteKeeps, RemoveNotificationKeeps, DrainStepKeeps, SendKeeps,
     SweepAndSleepKeep, ConsumerKeeps
  DEF EventsNext

(* The inductive invariant of events: their rows are fetched, and what is  *)
(* owed has a witness that is not just being marked.                       *)
THEOREM EventsInvariant == EventsSpec => []EventsInv
BY EventsStart, EventStepKeeps, PTL DEF EventsSpec

(* No event of a reservation is lost on its way to the notification.       *)
THEOREM NotificationsArrive == EventsSpec => []NotedOrOnItsWay
<1>1. EventsInv => NotedOrOnItsWay
  BY DEF EventsInv, NotedOrOnItsWay, OwedHasWitness, RowsAreFetched
<1> QED
  BY <1>1, EventsInvariant, PTL
=============================================================================
