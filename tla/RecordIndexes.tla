---------------------------- MODULE RecordIndexes -----------------------------
(***************************************************************************)
(* What a tenant's object derives from its records: the generated columns  *)
(* that unique fields are looked up by, and the full-text index.  Both     *)
(* were added to objects that had records already, so both are completed   *)
(* by steps of the alarm, between which types and records change.          *)
(***************************************************************************)
EXTENDS Naturals, Sequences, FiniteSets

CONSTANTS
  Rows,        \* ids of records
  TypeKeys,    \* keys of content types and of fields: sequences of words,
  FieldKeys,   \* which the code has joined by "_"
  FieldKinds,  \* what a definition may say of a field
  Marks, Blank,
  BatchSize,   \* SEARCH_REINDEX_BATCH
  MaxRowSeq    \* bound of the model

ASSUME FiniteAssumption == IsFiniteSet(Rows) /\ IsFiniteSet(TypeKeys) /\ IsFiniteSet(FieldKeys)
ASSUME TypesAssumption == TypeKeys # {}
ASSUME BatchAssumption == BatchSize \in Nat \ {0} /\ MaxRowSeq \in Nat
ASSUME KindsAssumption ==
  "none" \in FieldKinds /\ FieldKinds \subseteq {"none", "plain", "unique", "indexed", "both"}

VARIABLES
  up,       \* the object is in memory
  types,    \* content_types
  cols,     \* the generated columns of records, and the field each reads
  flag,     \* do_config: lookup_columns_v1
  ready,    \* lookupReady, in memory
  row,      \* records
  fts,      \* records_fts: what each record is found by
  indexed,  \* do_config: search_indexed is '1'
  cursor    \* do_config: search_indexed otherwise, 0 if there is none

lookupVars == <<types, cols, flag, ready>>
searchVars == <<fts, indexed, cursor>>
indexVars == <<up, lookupVars, row, searchVars>>

RowData == [FieldKeys -> Marks \cup {Blank}]
Definition == [FieldKeys -> FieldKinds]
NoType == [f \in FieldKeys |-> "none"]
NoData == [f \in FieldKeys |-> Blank]
NoEntry == [found |-> FALSE, data |-> NoData]
NoRow == [type |-> CHOOSE t \in TypeKeys : TRUE, data |-> NoData, live |-> FALSE, seq |-> 0]

(***************************************************************************)
(* The columns (do/index-ddl.ts).                                          *)
(***************************************************************************)
Column(t, f) == t \o f

UniqueFields(def) == {f \in FieldKeys : def[f] \in {"unique", "both"}}
IndexedColumns(def) == {f \in FieldKeys : def[f] \in {"indexed", "both"}}
LookupColumns(def) == UniqueFields(def) \cup IndexedColumns(def)

HasColumn(columns, t, f) == \E c \in columns : c.name = Column(t, f)

Added(t, fields) == {[name |-> Column(t, f), reads |-> f] : f \in fields}

\* Dropped: what no longer has a column, and what gets one of another type.
ColumnsKept(t, prev, next, retyped) ==
  {c \in cols : \A f \in (LookupColumns(prev) \ LookupColumns(next)) \cup retyped :
                  c.name # Column(t, f)}

\* Mistake: only what the definitions differ by is added.
ApplyIndexDdlDiffOnly(t, prev, next, retyped) ==
  LET kept == ColumnsKept(t, prev, next, retyped)
      adding == (LookupColumns(next) \ LookupColumns(prev)) \cup retyped
  IN  kept \cup Added(t, {f \in adding : ~ HasColumn(kept, t, f)})

ApplyIndexDdl(t, prev, next, retyped) ==
  LET kept == ColumnsKept(t, prev, next, retyped)
      adding == (LookupColumns(next) \ LookupColumns(prev)) \cup retyped \cup IndexedColumns(next)
  IN  kept \cup Added(t, {f \in adding : ~ HasColumn(kept, t, f)})

MissingLookupColumns ==
  {m \in TypeKeys \X FieldKeys :
     m[2] \in LookupColumns(types[m[1]]) /\ ~ HasColumn(cols, m[1], m[2])}

(***************************************************************************)
(* The full-text index (do/search.ts).  An entry is the data it was made   *)
(* of; which fields of it are searched is the definition's matter.         *)
(***************************************************************************)
Entry(data) == [found |-> TRUE, data |-> data]

ToIndex(from) == {r \in Rows : row[r].live /\ row[r].seq > from}

\* Mistake: without ORDER BY.
ReindexBatchAny(from) ==
  CHOOSE batch \in SUBSET ToIndex(from) :
    IF Cardinality(ToIndex(from)) < BatchSize THEN batch = ToIndex(from)
                                              ELSE Cardinality(batch) = BatchSize

ReindexBatch(from) ==
  {r \in ToIndex(from) :
     Cardinality({o \in ToIndex(from) : row[o].seq < row[r].seq}) < BatchSize}

ReindexFrom(entries, from) ==
  LET batch == ReindexBatch(from) IN
  /\ fts' = [r \in Rows |-> IF r \in batch /\ types[row[r].type] # NoType
                            THEN Entry(row[r].data) ELSE entries[r]]
  /\ indexed' = (Cardinality(batch) < BatchSize)
  /\ IF Cardinality(batch) < BatchSize THEN cursor' = 0
     ELSE \E r \in batch : /\ \A o \in batch : row[o].seq <= row[r].seq
                           /\ cursor' = row[r].seq

(***************************************************************************)
(* The object before and after its wake-up.                                *)
(***************************************************************************)
\* An object from before: its definitions have the columns of their indexed
\* fields, no record is in the full-text index.
IndexInit ==
  /\ up = FALSE /\ flag = FALSE /\ ready = FALSE /\ indexed = FALSE /\ cursor = 0
  /\ fts = [r \in Rows |-> NoEntry]
  /\ types \in [TypeKeys -> Definition]
  /\ cols = UNION {Added(t, IndexedColumns(types[t])) : t \in TypeKeys}
  /\ row \in [Rows -> [type : TypeKeys, data : RowData, live : {TRUE}, seq : 1 .. Cardinality(Rows)]
                      \cup {NoRow}]
  /\ \A r, o \in Rows : r # o /\ row[r].live /\ row[o].live =>
       /\ row[r].seq # row[o].seq
       /\ row[r].type = row[o].type =>
            \A f \in UniqueFields(types[row[r].type]) :
              row[r].data[f] = Blank \/ row[r].data[f] # row[o].data[f]
  /\ \A r \in Rows : row[r].live => types[row[r].type] # NoType

\* The constructor: the flag is trusted, what is missing is left to the alarm,
\* and one step of the full-text index is made.
Wake ==
  /\ ~ up /\ up' = TRUE
  /\ ready' = (flag \/ MissingLookupColumns = {})
  /\ flag' = ready'
  /\ IF indexed THEN UNCHANGED searchVars ELSE ReindexFrom(fts, cursor)
  /\ UNCHANGED <<types, cols, row>>

Evicted ==
  /\ up /\ up' = FALSE /\ ready' = FALSE
  /\ UNCHANGED <<types, cols, flag, row, searchVars>>

(***************************************************************************)
(* Records.                                                                *)
(***************************************************************************)
\* ++this.seq, which starts with the greatest there is at every wake-up.
NextRowSeq(s) ==
  (\A r \in Rows : row[r].seq < s) /\ s - 1 \in {0} \cup {row[r].seq : r \in Rows}

UsesColumn(t, f) == ready \/ f \in IndexedColumns(types[t])

SameValue(o, t, f, value) ==
  IF UsesColumn(t, f)
  THEN \E c \in cols : c.name = Column(t, f) /\ row[o].data[c.reads] = value
  ELSE row[o].data[f] = value

\* Mistake: fields that the write does not change are not looked up.
UniqueCheckOfChanged(r, t, data) ==
  \A f \in UniqueFields(types[t]) : data[f] # Blank /\ data[f] # row[r].data[f] =>
    \A o \in Rows \ {r} : row[o].live /\ row[o].type = t => ~ SameValue(o, t, f, data[f])

\* uniqueCheckHook.  Without its column a lookup fails, and the write with it.
UniqueCheck(r, t, data) ==
  \A f \in UniqueFields(types[t]) : data[f] # Blank =>
    /\ UsesColumn(t, f) => HasColumn(cols, t, f)
    /\ \A o \in Rows \ {r} : row[o].live /\ row[o].type = t => ~ SameValue(o, t, f, data[f])

\* The end of writeRecordCore.
PutRow(r, t, data) ==
  /\ types[t] # NoType /\ UniqueCheck(r, t, data)
  /\ \E s \in 1 .. MaxRowSeq :
       /\ NextRowSeq(s)
       /\ row' = [row EXCEPT ![r] = [type |-> t, data |-> data, live |-> TRUE, seq |-> s]]
  /\ fts' = [fts EXCEPT ![r] = Entry(data)]
  /\ UNCHANGED <<up, lookupVars, indexed, cursor>>

CreateRow(r) ==
  /\ up /\ row[r].seq = 0
  /\ \E t \in TypeKeys, data \in RowData : PutRow(r, t, data)

\* That the data may stay stands for a change of the status.
WriteRow(r) ==
  /\ up /\ row[r].live
  /\ \E data \in RowData : PutRow(r, row[r].type, data)

\* restoreRecordCore, of any version of a deleted record.
RestoreRow(r) ==
  /\ up /\ row[r].seq > 0 /\ ~ row[r].live
  /\ \E data \in RowData : PutRow(r, row[r].type, data)

RemoveFromIndex(r) == fts' = [fts EXCEPT ![r] = NoEntry]

DeleteRow(r) ==
  /\ up /\ row[r].live
  /\ \E s \in 1 .. MaxRowSeq :
       /\ NextRowSeq(s)
       /\ row' = [row EXCEPT ![r] = [@ EXCEPT !.live = FALSE, !.seq = s]]
  /\ RemoveFromIndex(r)
  /\ UNCHANGED <<up, lookupVars, indexed, cursor>>

(***************************************************************************)
(* Types, and the steps of the alarm.                                      *)
(***************************************************************************)
\* retyped: fields with a column before and after, whose type (text, number)
\* has changed.  The definition of before over again changes nothing; one that
\* differs elsewhere, in a name or in display settings, is def = types[t].
RegisterContentType(t, def) ==
  /\ up /\ def # NoType
  /\ types' = [types EXCEPT ![t] = def]
  /\ \E retyped \in SUBSET (LookupColumns(types[t]) \cap LookupColumns(def)) :
       cols' = ApplyIndexDdl(t, types[t], def, retyped)
  /\ UNCHANGED <<up, flag, ready, row, searchVars>>

DeleteContentType(t) ==
  /\ up /\ types[t] # NoType
  /\ \A r \in Rows : ~ (row[r].live /\ row[r].type = t)
  /\ types' = [types EXCEPT ![t] = NoType]
  /\ cols' = ApplyIndexDdl(t, types[t], NoType, {})
  /\ UNCHANGED <<up, flag, ready, row, searchVars>>

\* Mistake: that all are there is noted in memory only.
AddLookupColumnStepUnmarked ==
  /\ up /\ ~ ready
  /\ IF MissingLookupColumns = {} THEN cols' = cols
     ELSE \E m \in MissingLookupColumns : cols' = cols \cup Added(m[1], {m[2]})
  /\ ready' = (Cardinality(MissingLookupColumns) <= 1)
  /\ UNCHANGED <<up, types, flag, row, searchVars>>

\* A step whose statement fails changes nothing and is tried again.
AddLookupColumnStep ==
  /\ up /\ ~ ready
  /\ IF MissingLookupColumns = {} THEN cols' = cols
     ELSE \E m \in MissingLookupColumns : cols' = cols \cup Added(m[1], {m[2]})
  /\ flag' = (Cardinality(MissingLookupColumns) <= 1)
  /\ ready' = flag'
  /\ UNCHANGED <<up, types, row, searchVars>>

ReindexStep ==
  /\ up /\ ~ indexed /\ ReindexFrom(fts, cursor)
  /\ UNCHANGED <<up, lookupVars, row>>

\* reindexSearch: a rebuild that a super user starts, at any time.
ReindexSearch ==
  /\ up /\ ReindexFrom([r \in Rows |-> NoEntry], 0)
  /\ UNCHANGED <<up, lookupVars, row>>

IndexNext ==
  \/ Wake \/ Evicted \/ AddLookupColumnStep \/ ReindexStep \/ ReindexSearch
  \/ \E r \in Rows : CreateRow(r) \/ WriteRow(r) \/ RestoreRow(r) \/ DeleteRow(r)
  \/ \E t \in TypeKeys :
       DeleteContentType(t) \/ \E def \in Definition : RegisterContentType(t, def)

IndexSpec == IndexInit /\ [][IndexNext]_indexVars

(***************************************************************************)
(* What is promised.                                                       *)
(***************************************************************************)
\* Types; what memory knows of the columns, what is stored says as well.
IndexTypeOK ==
  /\ {up, flag, ready, indexed} \subseteq BOOLEAN
  /\ types \in [TypeKeys -> Definition]
  /\ cols \subseteq UNION {Added(t, FieldKeys) : t \in TypeKeys}
  /\ row \in [Rows -> [type : TypeKeys, data : RowData, live : BOOLEAN, seq : Nat]]
  /\ fts \in [Rows -> [found : BOOLEAN, data : RowData]]
  /\ cursor \in Nat
  /\ ready => up /\ flag

\* No two fields share a column.
NamesDistinct ==
  \A t, u \in TypeKeys, f, g \in FieldKeys : Column(t, f) = Column(u, g) => t = u /\ f = g

\* Whatever lookup may be made finds the column it goes by, and it reads the
\* field it is for: a type is registered, changed or dropped between the steps
\* that add the columns, and after a restart the flag is trusted without a look
\* (do/index-ddl.ts applyIndexDdl, addLookupColumnStep, checkLookupColumns).
\* None is left behind by a type that is gone.
ColumnsServe ==
  /\ \A t \in TypeKeys : \A f \in LookupColumns(types[t]) :
       UsesColumn(t, f) \/ flag => \E c \in cols : c.name = Column(t, f) /\ c.reads = f
  /\ \A c \in cols : \E t \in TypeKeys : \E f \in LookupColumns(types[t]) :
       c.name = Column(t, f) /\ c.reads = f

\* A write or restoration leaves no second live record of its type with the
\* value of a unique field, before, while and after the columns are added
\* (do/unique-check.ts:4).  Declaring a field unique does not look at the
\* records there are.
NoDuplicateMade ==
  [][\A r, o \in Rows :
       /\ r # o /\ row'[r] # row[r] /\ row'[r].live
       /\ row[o].live /\ row[o].type = row'[r].type
       => \A f \in UniqueFields(types[row'[r].type]) :
            row'[r].data[f] = Blank \/ row'[r].data[f] # row[o].data[f]]_indexVars

\* Once the index is complete, every live record is found, by what it holds
\* now, and no deleted one is; while it is being built, so are all that the
\* cursor has passed, whatever was written since (do/search.ts reindexStep).
SearchComplete ==
  \A r \in Rows :
    /\ row[r].live /\ (indexed \/ row[r].seq <= cursor) => fts[r] = Entry(row[r].data)
    /\ fts[r].found => row[r].live /\ fts[r] = Entry(row[r].data)

===============================================================================
