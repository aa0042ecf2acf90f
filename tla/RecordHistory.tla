----------------------------- MODULE RecordHistory -----------------------------
(***************************************************************************)
(* The versions kept of one record (record_history): a function from the  *)
(* sequence number of a version to its row.  A row of the newest versions  *)
(* holds the whole record; an older one holds the older values of the      *)
(* fields that differ in the next newer row, and is read back through the  *)
(* rows above it.  The operators are what recordHistory does in the        *)
(* transaction of a write, and what loadVersion reads.                     *)
(***************************************************************************)
EXTENDS Naturals, FiniteSets

CONSTANTS
  Fields,        \* keys of the record's type
  FoldWindow,    \* HISTORY_FOLD_WINDOW_MS
  FullVersions,  \* HISTORY_FULL_VERSIONS
  MaxVersions,   \* HISTORY_MAX_VERSIONS
  MaxAge         \* HISTORY_MAX_AGE_MS

ASSUME HistoryAssumption ==
  /\ {FoldWindow, FullVersions, MaxVersions, MaxAge} \subseteq Nat
  /\ 2 <= FullVersions /\ FullVersions <= MaxVersions

Kinds == {"write", "publish", "unpublish", "delete", "restore"}

Pinned(row) == row.kind \in {"publish", "unpublish"}

LatestSeq(h) ==
  IF DOMAIN h = {} THEN 0
  ELSE CHOOSE s \in DOMAIN h : \A t \in DOMAIN h : t <= s

\* How many versions are newer: the OFFSET of the row, newest first.
Offset(h, s) == Cardinality({t \in DOMAIN h : s < t})

NextNewer(h, s) ==
  {t \in DOMAIN h : s < t /\ \A u \in DOMAIN h : s < u => t <= u}

(***************************************************************************)
(* Reading a version: of each field, the value in the first row from the   *)
(* version upwards that holds one.  Fields a row leaves out have the value *)
(* they have in the next newer row.                                        *)
(***************************************************************************)
Holds(row, f) == row.full \/ f \in DOMAIN row.data

\* The one element of a set that has one.
TheOne(S) == CHOOSE t \in S : TRUE

Sources(h, s, f) ==
  {t \in DOMAIN h : /\ s <= t /\ Holds(h[t], f)
                    /\ \A u \in DOMAIN h : s <= u /\ u < t => ~ Holds(h[u], f)}

Load(h, s) == [f \in Fields |-> h[TheOne(Sources(h, s, f))].data[f]]

(***************************************************************************)
(* Recording a version.                                                    *)
(***************************************************************************)

Folds(h, entry, now) ==
  /\ DOMAIN h # {}
  /\ LET row == h[LatestSeq(h)]
     IN  /\ entry.kind = "write" /\ row.kind = "write"
         /\ row.by = entry.by /\ row.status = entry.status
         /\ now < row.created + FoldWindow

Row(entry, now) ==
  [kind |-> entry.kind, by |-> entry.by, status |-> entry.status,
   full |-> TRUE, data |-> entry.data, created |-> now, updated |-> now]

\* A row that is kept with another content.
Stored(row, full, data, updated) ==
  [kind |-> row.kind, by |-> row.by, status |-> row.status,
   full |-> full, data |-> data, created |-> row.created, updated |-> updated]

\* Mistake: folding moves the time and forgets the content.
FoldedTimeOnly(h, entry, now) ==
  LET n == LatestSeq(h)
  IN  [s \in DOMAIN h |-> IF s = n THEN Stored(h[n], TRUE, h[n].data, now) ELSE h[s]]

Folded(h, entry, now) ==
  LET n == LatestSeq(h)
  IN  [s \in DOMAIN h |-> IF s = n THEN Stored(h[n], TRUE, entry.data, now) ELSE h[s]]

Appended(h, entry, now) ==
  LET n == LatestSeq(h) + 1
  IN  [s \in DOMAIN h \cup {n} |-> IF s = n THEN Row(entry, now) ELSE h[s]]

\* The version that has just left the newest FullVersions.
Crosses(h, s) ==
  /\ Offset(h, s) = FullVersions
  /\ h[s].full /\ ~ Pinned(h[s])
  /\ \E t \in NextNewer(h, s) : h[t].full

\* Mistake: the difference is taken from the newest version.
ReverseDiffOfNewest(h, s) ==
  LET newer == h[LatestSeq(h)].data
  IN  [f \in {g \in Fields : h[s].data[g] # newer[g]} |-> h[s].data[f]]

ReverseDiff(h, s) ==
  LET newer == h[TheOne(NextNewer(h, s))].data
  IN  [f \in {g \in Fields : h[s].data[g] # newer[g]} |-> h[s].data[f]]

Compacted(h) ==
  [s \in DOMAIN h |->
     IF Crosses(h, s)
       THEN Stored(h[s], FALSE, ReverseDiff(h, s), h[s].updated)
       ELSE h[s]]

\* Mistake: the versions of a publication are dropped with the others.
KeptUnpinned(h, s, now) ==
  Offset(h, s) < MaxVersions /\ now <= h[s].updated + MaxAge

Kept(h, s, now) ==
  Pinned(h[s]) \/ (Offset(h, s) < MaxVersions /\ now <= h[s].updated + MaxAge)

Pruned(h, now) == [s \in {t \in DOMAIN h : Kept(h, t, now)} |-> h[s]]

Recorded(h, entry, now) ==
  IF Folds(h, entry, now)
    THEN Folded(h, entry, now)
    ELSE Pruned(Compacted(Appended(h, entry, now)), now)

===============================================================================
