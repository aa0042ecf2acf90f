---------------------------- MODULE MCRecordWrites ----------------------------
(***************************************************************************)
(* What a tenant's object keeps of its records, in five slices.  Three are *)
(* of RecordWrites, one per behaviour: what the clients have read goes     *)
(* stale, a confirmation is answered late, versions age.  The others are   *)
(* of RecordIndexes and AssetFiles.  A run stays in the slice it starts    *)
(* in, so that the slices add up instead of multiplying.                   *)
(***************************************************************************)
EXTENDS RecordWrites, MCRecordIndexes, AssetFiles

VARIABLE slice

mcVars == <<recordVars, indexVars, assetVars, slice>>

Writes == [stale |-> 4, confirm |-> 3, age |-> 4]
VersionRows == [stale |-> 3, confirm |-> 4, age |-> 5]

ScalarFields == Fields \ (RichFields \cup RelationFields)

MCInit ==
  /\ RecordInit /\ IndexInit /\ AssetsInit
  /\ slice \in {"stale", "confirm", "age", "indexes", "assets"}
  /\ slice # "indexes" => types = [t \in TypeKeys |-> NoType]

\* Once the slice has its versions, clients only read and time passes.
MCRecordNext ==
  /\ IF LatestSeq(hist) < VersionRows[slice]
       THEN RecordNext
       ELSE \/ \E c \in Clients : Read(c)
            \/ AskRecord \/ AskHistory \/ RecordTick
  /\ rec'.version <= Writes[slice]
  /\ slice = "stale" => published' = 0
  /\ slice # "stale" => \A f \in ScalarFields : rec'.data[f] = Absent
  /\ slice # "stale" => base' = base
  /\ slice # "confirm" => ask' = ask /\ rec'.status = "draft"
  /\ slice # "age" => now' = now

MCNext ==
  \/ slice \in DOMAIN Writes /\ MCRecordNext /\ UNCHANGED <<indexVars, assetVars, slice>>
  \/ slice = "indexes" /\ IndexNext /\ UNCHANGED <<recordVars, assetVars, slice>>
  \/ slice = "assets" /\ AssetsNext /\ UNCHANGED <<recordVars, indexVars, slice>>

MCSpec == MCInit /\ [][MCNext]_mcVars

===============================================================================
