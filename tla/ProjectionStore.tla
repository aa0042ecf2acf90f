-------------------------- MODULE ProjectionStore --------------------------
(***************************************************************************)
(* The tables of the public database that one tenant's projection writes,  *)
(* and the batches of statements the queue consumer runs on them.  A batch *)
(* is one transaction of the database.  A row is represented by the        *)
(* publish_seq of the publication it shows; the relation and index rows of *)
(* a record by the publish_seq of the payload they came from.  0 stands    *)
(* for no row throughout.                                                  *)
(***************************************************************************)
EXTENDS ProjectionJobs

VARIABLES
  rows,    \* projected_records
  tombs,   \* projection_tombstones
  derived  \* projection_relations and projection_index

storeVars == <<rows, tombs, derived>>

StoreTypeOK ==
  /\ rows \in [Record -> Nat]
  /\ tombs \in [Record -> Nat]
  /\ derived \in [Record -> Nat]

StoreInit ==
  /\ rows = [r \in Record |-> 0]
  /\ tombs = [r \in Record |-> 0]
  /\ derived = [r \in Record |-> 0]

(* Mistake: the tombstone is not asked.                                    *)
UpsertWinsOverRow(r, s) == rows[r] <= s

(* INSERT ... SELECT ... WHERE NOT EXISTS (a newer tombstone), and the     *)
(* guard of its ON CONFLICT branch.                                        *)
UpsertWins(r, s) == tombs[r] <= s /\ rows[r] <= s

RowAfterUpsert(r, s) == IF UpsertWins(r, s) THEN s ELSE rows[r]

(* Mistake: the derived rows are replaced whether or not the row was.      *)
UpsertBatchUnguarded(r, s) ==
  /\ rows' = [rows EXCEPT ![r] = RowAfterUpsert(r, s)]
  /\ tombs' = [tombs EXCEPT ![r] = IF @ <= s THEN 0 ELSE @]
  /\ derived' = [derived EXCEPT ![r] = s]

(* upsertStatements: the row, the tombstones it outranks, and the derived  *)
(* rows, which are replaced only when the row shows this very payload.     *)
UpsertBatch(r, s) ==
  /\ rows' = [rows EXCEPT ![r] = RowAfterUpsert(r, s)]
  /\ tombs' = [tombs EXCEPT ![r] = IF @ <= s THEN 0 ELSE @]
  /\ derived' = [derived EXCEPT ![r] = IF RowAfterUpsert(r, s) = s THEN s ELSE @]

RowAfterDelete(r, s) == IF rows[r] <= s THEN 0 ELSE rows[r]

(* deleteStatements: the row unless it is newer, the tombstone, and the    *)
(* derived rows when no row is left.                                       *)
DeleteBatch(r, s) ==
  /\ rows' = [rows EXCEPT ![r] = RowAfterDelete(r, s)]
  /\ tombs' = [tombs EXCEPT ![r] = IF @ <= s THEN s ELSE @]
  /\ derived' = [derived EXCEPT ![r] = IF RowAfterDelete(r, s) = 0 THEN 0 ELSE @]

(* Mistake: the sweep clears the tombstones along with the rows.           *)
SweepBatchOfTombs(stale) ==
  /\ rows' = [r \in Record |-> IF r \in stale THEN 0 ELSE rows[r]]
  /\ derived' = [r \in Record |-> IF r \in stale \/ rows[r] = 0 THEN 0 ELSE derived[r]]
  /\ tombs' = [r \in Record |-> 0]

(* The last batch of a rebuild: the rows its sweep condition selects, and  *)
(* the derived rows that are left without a row.                           *)
SweepBatch(stale) ==
  /\ rows' = [r \in Record |-> IF r \in stale THEN 0 ELSE rows[r]]
  /\ derived' = [r \in Record |-> IF r \in stale \/ rows[r] = 0 THEN 0 ELSE derived[r]]
  /\ UNCHANGED tombs

(* The publication state a record shows: publish_seq of the newest         *)
(* publish or unpublish that took effect.                                  *)
Shown(r) == IF rows[r] >= tombs[r] THEN rows[r] ELSE tombs[r]
=============================================================================
