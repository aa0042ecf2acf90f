------------------------- MODULE RecordIndexes_proofs -------------------------
(***************************************************************************)
(* The columns serve every lookup, no write makes a duplicate, and the     *)
(* full-text index becomes complete, for any records, types and batches.   *)
(* The first two hold when no two fields share a column's name.            *)
(***************************************************************************)
EXTENDS RecordIndexes, FiniteSetTheorems, WellFoundedInduction, NaturalsInduction, TLAPS

(* What serves, for any definitions, columns and flag.                     *)
Served(ts, cs, flagged) ==
  \A t \in TypeKeys : \A f \in LookupColumns(ts[t]) :
    flagged \/ f \in IndexedColumns(ts[t]) =>
      \E c \in cs : c.name = Column(t, f) /\ c.reads = f

Asked(ts, cs) ==
  \A c \in cs : \E t \in TypeKeys : \E f \in LookupColumns(ts[t]) :
    c.name = Column(t, f) /\ c.reads = f

LiveRows == \A r \in Rows : row[r].live => types[row[r].type] # NoType /\ row[r].seq > 0

ColumnsInv == Served(types, cols, flag) /\ Asked(types, cols) /\ (ready => flag)

LEMMA LookupFields ==
  ASSUME NEW def
  PROVE  /\ LookupColumns(def) \subseteq FieldKeys
         /\ IndexedColumns(def) \subseteq LookupColumns(def)
         /\ UniqueFields(def) \subseteq LookupColumns(def)
BY DEF LookupColumns, IndexedColumns, UniqueFields

LEMMA ServeInv == ColumnsInv => ColumnsServe
BY DEF ColumnsInv, Served, Asked, ColumnsServe, UsesColumn

(***************************************************************************)
(* Types of the state.                                                     *)
(***************************************************************************)
LEMMA RowDataType == NoData \in RowData /\ NoEntry \in [found : BOOLEAN, data : RowData]
BY DEF NoData, RowData, NoEntry

LEMMA DdlTyped ==
  ASSUME cols \subseteq UNION {Added(t, FieldKeys) : t \in TypeKeys},
         NEW t \in TypeKeys, NEW prev, NEW next, NEW retyped \in SUBSET LookupColumns(next)
  PROVE  ApplyIndexDdl(t, prev, next, retyped) \subseteq UNION {Added(u, FieldKeys) : u \in TypeKeys}
<1>1. \A F \in SUBSET FieldKeys : Added(t, F) \subseteq UNION {Added(u, FieldKeys) : u \in TypeKeys}
  BY DEF Added
<1>2. {f \in (LookupColumns(next) \ LookupColumns(prev)) \cup retyped \cup IndexedColumns(next) :
         ~ HasColumn(ColumnsKept(t, prev, next, retyped), t, f)} \in SUBSET FieldKeys
  BY LookupFields
<1>3. ColumnsKept(t, prev, next, retyped) \subseteq cols
  BY DEF ColumnsKept
<1> QED
  BY <1>1, <1>2, <1>3 DEF ApplyIndexDdl

LEMMA ReindexTyped ==
  ASSUME IndexTypeOK, NEW entries \in [Rows -> [found : BOOLEAN, data : RowData]],
         NEW from \in Nat, ReindexFrom(entries, from)
  PROVE  /\ fts' \in [Rows -> [found : BOOLEAN, data : RowData]]
         /\ indexed' \in BOOLEAN /\ cursor' \in Nat
<1>1. \A r \in Rows : row[r].seq \in Nat /\ Entry(row[r].data) \in [found : BOOLEAN, data : RowData]
  BY DEF IndexTypeOK, Entry
<1>2. ReindexBatch(from) \subseteq Rows
  BY DEF ReindexBatch, ToIndex
<1>3. cursor' \in Nat
  BY <1>1, <1>2 DEF ReindexFrom
<1>4. fts' \in [Rows -> [found : BOOLEAN, data : RowData]]
  BY <1>1 DEF ReindexFrom
<1> QED
  BY <1>3, <1>4 DEF ReindexFrom

LEMMA RowPut ==
  ASSUME IndexTypeOK, NEW r \in Rows, NEW t \in TypeKeys, NEW data \in RowData,
         PutRow(r, t, data)
  PROVE  IndexTypeOK' /\ \E s \in Nat \ {0} :
           /\ row' = [row EXCEPT ![r] = [type |-> t, data |-> data, live |-> TRUE, seq |-> s]]
           /\ fts' = [fts EXCEPT ![r] = Entry(data)]
           /\ types[t] # NoType /\ UniqueCheck(r, t, data)
           /\ UNCHANGED <<up, types, cols, flag, ready, indexed, cursor>>
<1>1. PICK s \in 1 .. MaxRowSeq :
        row' = [row EXCEPT ![r] = [type |-> t, data |-> data, live |-> TRUE, seq |-> s]]
  BY DEF PutRow
<1>2. s \in Nat \ {0}
  BY BatchAssumption DEF BatchAssumption
<1>3. row' \in [Rows -> [type : TypeKeys, data : RowData, live : BOOLEAN, seq : Nat]]
  BY <1>1, <1>2 DEF IndexTypeOK
<1>4. fts' \in [Rows -> [found : BOOLEAN, data : RowData]]
  BY DEF PutRow, IndexTypeOK, Entry
<1> QED
  BY <1>1, <1>2, <1>3, <1>4 DEF PutRow, IndexTypeOK, lookupVars

LEMMA TypedStart == IndexInit => IndexTypeOK
<1> SUFFICES ASSUME IndexInit PROVE IndexTypeOK
  OBVIOUS
<1>1. cols \subseteq UNION {Added(t, FieldKeys) : t \in TypeKeys}
  BY LookupFields DEF IndexInit, Added
<1>2. NoRow \in [type : TypeKeys, data : RowData, live : BOOLEAN, seq : Nat]
  BY RowDataType, TypesAssumption DEF NoRow, TypesAssumption
<1>3. Cardinality(Rows) \in Nat
  BY FiniteAssumption, FS_CardinalityType DEF FiniteAssumption
<1>4. row \in [Rows -> [type : TypeKeys, data : RowData, live : BOOLEAN, seq : Nat]]
  <2>1. 1 .. Cardinality(Rows) \subseteq Nat /\ {TRUE} \subseteq BOOLEAN
    BY <1>3
  <2>2. ASSUME NEW x \in [type : TypeKeys, data : RowData, live : {TRUE}, seq : 1 .. Cardinality(Rows)]
        PROVE  x \in [type : TypeKeys, data : RowData, live : BOOLEAN, seq : Nat]
    BY <2>1
  <2> QED
    BY <1>2, <2>2, Zenon DEF IndexInit
<1> QED
  BY <1>1, <1>4, RowDataType DEF IndexInit, IndexTypeOK

LEMMA TypedStep ==
  ASSUME IndexTypeOK, [IndexNext]_indexVars
  PROVE  IndexTypeOK'
<1>1. CASE Wake
  <2>1. CASE indexed
    BY <1>1, <2>1 DEF Wake, searchVars, IndexTypeOK
  <2>2. CASE ~ indexed
    BY <1>1, <2>2, ReindexTyped DEF Wake, IndexTypeOK
  <2> QED
    BY <2>1, <2>2
<1>2. CASE Evicted
  BY <1>2 DEF Evicted, searchVars, IndexTypeOK
<1>3. CASE AddLookupColumnStep
  <2>1. cols' \subseteq UNION {Added(t, FieldKeys) : t \in TypeKeys}
    BY <1>3 DEF AddLookupColumnStep, IndexTypeOK, MissingLookupColumns, Added
  <2> QED
    BY <1>3, <2>1 DEF AddLookupColumnStep, searchVars, IndexTypeOK
<1>4. CASE ReindexStep
  BY <1>4, ReindexTyped DEF ReindexStep, lookupVars, IndexTypeOK
<1>5. CASE ReindexSearch
  <2>1. [r \in Rows |-> NoEntry] \in [Rows -> [found : BOOLEAN, data : RowData]]
    BY RowDataType
  <2> QED
    BY <1>5, <2>1, ReindexTyped DEF ReindexSearch, lookupVars, IndexTypeOK
<1>6. ASSUME NEW r \in Rows, CreateRow(r) \/ WriteRow(r) \/ RestoreRow(r) PROVE IndexTypeOK'
  <2>1. PICK t \in TypeKeys, data \in RowData : PutRow(r, t, data)
    BY <1>6 DEF CreateRow, WriteRow, RestoreRow, IndexTypeOK
  <2> QED
    BY <2>1, RowPut
<1>7. ASSUME NEW r \in Rows, DeleteRow(r) PROVE IndexTypeOK'
  <2>1. row' \in [Rows -> [type : TypeKeys, data : RowData, live : BOOLEAN, seq : Nat]]
    <3>1. PICK s \in 1 .. MaxRowSeq : row' = [row EXCEPT ![r] = [@ EXCEPT !.live = FALSE, !.seq = s]]
      BY <1>7, Zenon DEF DeleteRow
    <3>2. s \in Nat
      BY BatchAssumption DEF BatchAssumption
    <3> QED
      BY <3>1, <3>2 DEF IndexTypeOK
  <2> QED
    BY <1>7, <2>1, RowDataType DEF DeleteRow, RemoveFromIndex, lookupVars, IndexTypeOK
<1>8. ASSUME NEW t \in TypeKeys, DeleteContentType(t) \/ \E def \in Definition : RegisterContentType(t, def)
      PROVE  IndexTypeOK'
  <2>1. NoType \in Definition
    BY KindsAssumption DEF NoType, Definition, KindsAssumption
  <2>2. PICK def \in Definition :
          /\ types' = [types EXCEPT ![t] = def]
          /\ \E retyped \in SUBSET LookupColumns(def) : cols' = ApplyIndexDdl(t, types[t], def, retyped)
          /\ UNCHANGED <<up, flag, ready, row, searchVars>>
    BY <1>8, <2>1 DEF DeleteContentType, RegisterContentType
  <2>3. cols' \subseteq UNION {Added(u, FieldKeys) : u \in TypeKeys}
    BY <2>2, DdlTyped DEF IndexTypeOK
  <2> QED
    BY <2>2, <2>3 DEF IndexTypeOK, searchVars
<1>9. CASE UNCHANGED indexVars
  BY <1>9 DEF indexVars, lookupVars, searchVars, IndexTypeOK
<1> QED
  BY <1>1, <1>2, <1>3, <1>4, <1>5, <1>6, <1>7, <1>8, <1>9 DEF IndexNext

\* The types of what is stored, and of the object's memory.
THEOREM IndexTyped == IndexSpec => []IndexTypeOK
<1> QED
  BY TypedStart, TypedStep, PTL DEF IndexSpec

(***************************************************************************)
(* The columns.                                                            *)
(***************************************************************************)
LEMMA OneField ==
  ASSUME NamesDistinct, NEW t \in TypeKeys, NEW f \in FieldKeys,
         NEW u \in TypeKeys, NEW g \in FieldKeys, Column(t, f) = Column(u, g)
  PROVE  t = u /\ f = g
BY DEF NamesDistinct

LEMMA DdlServes ==
  ASSUME NamesDistinct, IndexTypeOK, Served(types, cols, flag), Asked(types, cols),
         NEW t \in TypeKeys, NEW def,
         NEW retyped \in SUBSET (LookupColumns(types[t]) \cap LookupColumns(def)),
         types' = [types EXCEPT ![t] = def],
         cols' = ApplyIndexDdl(t, types[t], def, retyped), flag' = flag
  PROVE  Served(types', cols', flag') /\ Asked(types', cols')
<1> DEFINE kept == {c \in cols : \A f \in (LookupColumns(types[t]) \ LookupColumns(def)) \cup retyped :
                                  c.name # Column(t, f)}
           adding == (LookupColumns(def) \ LookupColumns(types[t])) \cup retyped \cup IndexedColumns(def)
           fresh == {f \in adding : ~ HasColumn(kept, t, f)}
<1>1. cols' = kept \cup Added(t, fresh)
  BY DEF ApplyIndexDdl, ColumnsKept
<1>2. types'[t] = def /\ \A u \in TypeKeys : u # t => types'[u] = types[u]
  BY DEF IndexTypeOK
<1>3. adding \subseteq LookupColumns(def)
  BY LookupFields
<1>4. ASSUME NEW u \in TypeKeys, NEW f \in LookupColumns(types'[u]),
             flag' \/ f \in IndexedColumns(types'[u])
      PROVE  \E c \in cols' : c.name = Column(u, f) /\ c.reads = f
  <2>1. f \in FieldKeys
    BY LookupFields
  <2>2. CASE u # t
    <3>1. PICK c \in cols : c.name = Column(u, f) /\ c.reads = f
      BY <1>2, <1>4, <2>2 DEF Served
    <3>2. c \in kept
      <4>1. (LookupColumns(types[t]) \ LookupColumns(def)) \cup retyped \subseteq FieldKeys
        BY LookupFields
      <4>2. \A g \in FieldKeys : Column(u, f) # Column(t, g)
        BY <2>1, <2>2 DEF NamesDistinct
      <4> QED
        BY <3>1, <4>1, <4>2
    <3> QED
      BY <1>1, <3>1, <3>2
  <2>3. CASE u = t /\ f \in adding /\ HasColumn(kept, t, f)
    <3>1. PICK c \in kept : c.name = Column(t, f)
      BY <2>3 DEF HasColumn
    <3>2. PICK w \in TypeKeys, g \in FieldKeys :
        g \in LookupColumns(types[w]) /\ c.name = Column(w, g) /\ c.reads = g
      BY <3>1, LookupFields DEF Asked
    <3>3. g = f
      <4>1. Column(t, f) = Column(w, g)
        BY <3>1, <3>2
      <4> QED
        BY <2>1, <3>2, <4>1, OneField
    <3> QED
      BY <1>1, <2>3, <3>1, <3>2, <3>3
  <2>4. CASE u = t /\ f \in fresh
    <3>1. [name |-> Column(t, f), reads |-> f] \in cols'
      BY <1>1, <2>4 DEF Added
    <3> QED
      BY <2>4, <3>1
  <2>5. CASE u = t /\ f \notin adding
    <3>1. f \in LookupColumns(types[t]) /\ f \in LookupColumns(def) /\ flag
      BY <1>2, <1>4, <2>5
    <3>2. PICK c \in cols : c.name = Column(t, f) /\ c.reads = f
      BY <3>1 DEF Served
    <3>3. c \in kept
      <4>1. f \notin (LookupColumns(types[t]) \ LookupColumns(def)) \cup retyped
        BY <2>5, <3>1
      <4>2. (LookupColumns(types[t]) \ LookupColumns(def)) \cup retyped \subseteq FieldKeys
        BY LookupFields
      <4>3. \A g \in FieldKeys \ {f} : Column(t, f) # Column(t, g)
        BY <2>1 DEF NamesDistinct
      <4> QED
        BY <3>2, <4>1, <4>2, <4>3
    <3> QED
      BY <1>1, <2>5, <3>2, <3>3
  <2> QED
    BY <2>2, <2>3, <2>4, <2>5
<1>5. ASSUME NEW c \in cols'
      PROVE  \E u \in TypeKeys : \E f \in LookupColumns(types'[u]) :
               c.name = Column(u, f) /\ c.reads = f
  <2>1. CASE c \in kept
    <3>1. PICK u \in TypeKeys, f \in FieldKeys :
        f \in LookupColumns(types[u]) /\ c.name = Column(u, f) /\ c.reads = f
      BY <2>1, LookupFields DEF Asked
    <3>2. CASE u = t
      <4>1. f \in LookupColumns(def)
        BY <2>1, <3>1, <3>2
      <4> QED
        BY <1>2, <3>1, <3>2, <4>1
    <3> QED
      BY <1>2, <3>1, <3>2
  <2>2. CASE c \in Added(t, fresh)
    <3>1. PICK f \in fresh : c = [name |-> Column(t, f), reads |-> f]
      BY <2>2 DEF Added
    <3> QED
      BY <1>2, <1>3, <3>1
  <2> QED
    BY <1>1, <2>1, <2>2
<1> QED
  BY <1>4, <1>5 DEF Served, Asked

\* When none is missing, or the last one is added, every lookup is served.
LEMMA NoneMissing ==
  ASSUME NamesDistinct, Asked(types, cols), NEW cs, cols \subseteq cs,
         \A c \in cs \ cols : \E m \in MissingLookupColumns : c = [name |-> Column(m[1], m[2]), reads |-> m[2]],
         \A m \in MissingLookupColumns : HasColumn(cs, m[1], m[2])
  PROVE  Served(types, cs, TRUE)
<1> SUFFICES ASSUME NEW t \in TypeKeys, NEW f \in LookupColumns(types[t])
             PROVE  \E c \in cs : c.name = Column(t, f) /\ c.reads = f
  BY DEF Served
<1>1. f \in FieldKeys
  BY LookupFields
<1>2. PICK c \in cs : c.name = Column(t, f)
  <2>1. CASE HasColumn(cols, t, f)
    BY <2>1 DEF HasColumn
  <2>2. CASE ~ HasColumn(cols, t, f)
    <3>1. <<t, f>> \in MissingLookupColumns
      BY <1>1, <2>2 DEF MissingLookupColumns
    <3> QED
      BY <3>1 DEF HasColumn
  <2> QED
    BY <2>1, <2>2
<1>3. CASE c \in cols
  <2>1. PICK u \in TypeKeys, g \in FieldKeys :
      g \in LookupColumns(types[u]) /\ c.name = Column(u, g) /\ c.reads = g
    BY <1>3, LookupFields DEF Asked
  <2>2. g = f
    <3>1. Column(t, f) = Column(u, g)
      BY <1>2, <2>1
    <3> QED
      BY <1>1, <2>1, <3>1, OneField
  <2> QED
    BY <2>1, <1>2, <2>2
<1>4. CASE c \notin cols
  <2>1. PICK m \in MissingLookupColumns : c = [name |-> Column(m[1], m[2]), reads |-> m[2]]
    BY <1>4
  <2>2. /\ m[1] \in TypeKeys /\ m[2] \in FieldKeys
        /\ c.name = Column(m[1], m[2]) /\ c.reads = m[2]
    BY <2>1 DEF MissingLookupColumns
  <2>3. m[2] = f
    <3>1. Column(t, f) = Column(m[1], m[2])
      BY <1>2, <2>2
    <3> QED
      BY <1>1, <2>2, <3>1, OneField
  <2> QED
    BY <1>2, <2>2, <2>3
<1> QED
  BY <1>3, <1>4

LEMMA ColumnsStart ==
  ASSUME IndexInit
  PROVE  ColumnsInv
<1>1. ASSUME NEW t \in TypeKeys, NEW f \in IndexedColumns(types[t])
      PROVE  [name |-> Column(t, f), reads |-> f] \in cols
  BY DEF IndexInit, Added
<1>3. Served(types, cols, flag)
  BY <1>1 DEF IndexInit, Served
<1>2. Asked(types, cols)
  BY LookupFields DEF IndexInit, Asked, Added
<1> QED
  BY <1>2, <1>3 DEF IndexInit, ColumnsInv

LEMMA ColumnsStep ==
  ASSUME NamesDistinct, IndexTypeOK, ColumnsInv, [IndexNext]_indexVars
  PROVE  ColumnsInv'
<1>1. CASE Wake
  <2>1. flag \/ MissingLookupColumns = {} => Served(types, cols, TRUE)
    <3>1. CASE MissingLookupColumns = {}
      BY <3>1, NoneMissing DEF ColumnsInv
    <3> QED
      BY <3>1 DEF ColumnsInv, Served
  <2> QED
    BY <1>1, <2>1 DEF Wake, ColumnsInv, Served, Asked
<1>2. CASE AddLookupColumnStep
  <2>1. cols \subseteq cols' /\
        \A c \in cols' \ cols : \E m \in MissingLookupColumns :
          c = [name |-> Column(m[1], m[2]), reads |-> m[2]]
    BY <1>2 DEF AddLookupColumnStep, Added
  <2>2. Asked(types, cols')
    BY <2>1 DEF ColumnsInv, Asked, MissingLookupColumns
  <2>3. Cardinality(MissingLookupColumns) <= 1 => Served(types, cols', TRUE)
    <3>1. SUFFICES ASSUME Cardinality(MissingLookupColumns) <= 1
                   PROVE  \A m \in MissingLookupColumns : HasColumn(cols', m[1], m[2])
      BY <2>1, NoneMissing DEF ColumnsInv
    <3>2. IsFiniteSet(MissingLookupColumns)
      <4>1. IsFiniteSet(TypeKeys \X FieldKeys)
        BY FiniteAssumption, FS_Product DEF FiniteAssumption
      <4> QED
        BY <4>1, FS_Subset DEF MissingLookupColumns
    <3>3. Cardinality(MissingLookupColumns) \in Nat
      BY <3>2, FS_CardinalityType
    <3>4. MissingLookupColumns = {} \/ \E x : MissingLookupColumns = {x}
      BY <3>1, <3>2, <3>3, FS_EmptySet, FS_Singleton
    <3>5. \A m \in MissingLookupColumns : cols' = cols \cup Added(m[1], {m[2]})
      BY <1>2, <3>4 DEF AddLookupColumnStep
    <3>6. \A m \in MissingLookupColumns : [name |-> Column(m[1], m[2]), reads |-> m[2]] \in cols'
      BY <3>5 DEF Added
    <3> QED
      BY <3>6 DEF HasColumn
  <2>4. Served(types, cols', FALSE)
    BY <2>1 DEF ColumnsInv, Served
  <2>5. Served(types, cols', flag')
    <3>1. CASE Cardinality(MissingLookupColumns) <= 1
      BY <1>2, <2>3, <3>1 DEF AddLookupColumnStep
    <3>2. CASE ~ (Cardinality(MissingLookupColumns) <= 1)
      <4>1. ~ flag'
        BY <1>2, <3>2 DEF AddLookupColumnStep
      <4> QED
        BY <2>4, <4>1 DEF Served
    <3> QED
      BY <3>1, <3>2
  <2> QED
    BY <1>2, <2>2, <2>5 DEF AddLookupColumnStep, ColumnsInv
<1>3. ASSUME NEW t \in TypeKeys, DeleteContentType(t) \/ \E def \in Definition : RegisterContentType(t, def)
      PROVE  ColumnsInv'
  <2>1. PICK def :
          /\ types' = [types EXCEPT ![t] = def]
          /\ \E retyped \in SUBSET (LookupColumns(types[t]) \cap LookupColumns(def)) :
               cols' = ApplyIndexDdl(t, types[t], def, retyped)
          /\ flag' = flag /\ ready' = ready
    BY <1>3 DEF DeleteContentType, RegisterContentType
  <2> QED
    BY <2>1, DdlServes DEF ColumnsInv
<1>4. CASE UNCHANGED <<types, cols, flag>> /\ (ready' => ready)
  BY <1>4 DEF ColumnsInv, Served, Asked
<1>5. ASSUME NEW r \in Rows, CreateRow(r) \/ WriteRow(r) \/ RestoreRow(r) \/ DeleteRow(r)
      PROVE  UNCHANGED <<types, cols, flag, ready>>
  BY <1>5 DEF CreateRow, WriteRow, RestoreRow, DeleteRow, PutRow, lookupVars
<1>6. Evicted \/ ReindexStep \/ ReindexSearch \/ UNCHANGED indexVars
        => UNCHANGED <<types, cols, flag>> /\ (ready' => ready)
  BY DEF Evicted, ReindexStep, ReindexSearch, indexVars, lookupVars
<1> QED
  BY <1>1, <1>2, <1>3, <1>4, <1>5, <1>6 DEF IndexNext

\* Every lookup finds its own column while columns are added and types change,
\* whatever the definitions, when no two names are the same.
THEOREM ColumnsAlwaysServe ==
  ASSUME NamesDistinct
  PROVE  IndexSpec => []ColumnsServe
<1> QED
  BY TypedStart, TypedStep, ColumnsStart, ColumnsStep, ServeInv, PTL DEF IndexSpec

(***************************************************************************)
(* Duplicates.                                                             *)
(***************************************************************************)
LEMMA SameSeen ==
  ASSUME ColumnsServe, NEW t \in TypeKeys, NEW f \in UniqueFields(types[t]),
         NEW o \in Rows, NEW value, row[o].data[f] = value
  PROVE  SameValue(o, t, f, value)
<1>1. f \in LookupColumns(types[t])
  BY LookupFields
<1>2. CASE UsesColumn(t, f)
  <2>1. \E c \in cols : c.name = Column(t, f) /\ c.reads = f
    BY <1>1, <1>2 DEF ColumnsServe
  <2> QED
    BY <1>2, <2>1 DEF SameValue
<1> QED
  BY <1>2 DEF SameValue

LEMMA NoDuplicateStep ==
  ASSUME IndexTypeOK, ColumnsServe, [IndexNext]_indexVars,
         NEW r \in Rows, NEW o \in Rows, r # o, row'[r] # row[r], row'[r].live,
         row[o].live, row[o].type = row'[r].type,
         NEW f \in UniqueFields(types[row'[r].type])
  PROVE  row'[r].data[f] = Blank \/ row'[r].data[f] # row[o].data[f]
<1>1. row' # row
  OBVIOUS
<1>2. ASSUME NEW q \in Rows, CreateRow(q) \/ WriteRow(q) \/ RestoreRow(q)
      PROVE  row'[r].data[f] = Blank \/ row'[r].data[f] # row[o].data[f]
  <2>1. PICK t \in TypeKeys, data \in RowData : PutRow(q, t, data)
    BY <1>2 DEF CreateRow, WriteRow, RestoreRow, IndexTypeOK
  <2>2. PICK s \in Nat \ {0} :
          /\ row' = [row EXCEPT ![q] = [type |-> t, data |-> data, live |-> TRUE, seq |-> s]]
          /\ UniqueCheck(q, t, data)
    BY <2>1, RowPut
  <2>3. q = r /\ row'[r] = [type |-> t, data |-> data, live |-> TRUE, seq |-> s]
    BY <2>2 DEF IndexTypeOK
  <2>4. f \in UniqueFields(types[t]) /\ row[o].type = t
    BY <2>3
  <2>5. data[f] # Blank => ~ SameValue(o, t, f, data[f])
    BY <2>2, <2>3, <2>4 DEF UniqueCheck
  <2>6. row[o].data[f] = data[f] => SameValue(o, t, f, data[f])
    BY <2>4, SameSeen
  <2> QED
    BY <2>3, <2>5, <2>6
<1>3. ASSUME NEW q \in Rows, DeleteRow(q) PROVE FALSE
  <2>1. PICK s \in 1 .. MaxRowSeq : row' = [row EXCEPT ![q] = [@ EXCEPT !.live = FALSE, !.seq = s]]
    BY <1>3, Zenon DEF DeleteRow
  <2>2. CASE q = r
    BY <2>1, <2>2 DEF IndexTypeOK
  <2>3. CASE q # r
    BY <2>1, <2>3 DEF IndexTypeOK
  <2> QED
    BY <2>2, <2>3
<1>4. Wake \/ Evicted \/ AddLookupColumnStep \/ ReindexStep \/ ReindexSearch \/ UNCHANGED indexVars
        => row' = row
  BY DEF Wake, Evicted, AddLookupColumnStep, ReindexStep, ReindexSearch, indexVars
<1>5. \A t \in TypeKeys : DeleteContentType(t) \/ (\E def \in Definition : RegisterContentType(t, def))
        => row' = row
  BY DEF DeleteContentType, RegisterContentType
<1> QED
  BY <1>1, <1>2, <1>3, <1>4, <1>5 DEF IndexNext

\* No write or restoration makes a second live record with a unique value,
\* whatever is looked up by a column and whatever by a scan.
THEOREM NoDuplicates ==
  ASSUME NamesDistinct
  PROVE  IndexSpec => NoDuplicateMade
<1>1. IndexTypeOK /\ ColumnsServe /\ [IndexNext]_indexVars
        => [\A r, o \in Rows :
              /\ r # o /\ row'[r] # row[r] /\ row'[r].live
              /\ row[o].live /\ row[o].type = row'[r].type
              => \A f \in UniqueFields(types[row'[r].type]) :
                   row'[r].data[f] = Blank \/ row'[r].data[f] # row[o].data[f]]_indexVars
  BY NoDuplicateStep
<1> QED
  BY <1>1, IndexTyped, ColumnsAlwaysServe, PTL DEF IndexSpec, NoDuplicateMade

(***************************************************************************)
(* The full-text index.                                                    *)
(***************************************************************************)
LEMMA BatchFacts ==
  ASSUME IndexTypeOK, NEW from \in Nat
  PROVE  /\ ReindexBatch(from) \subseteq ToIndex(from) /\ ToIndex(from) \subseteq Rows
         /\ \A r \in Rows : row[r].seq \in Nat
         /\ \A r \in ReindexBatch(from), o \in ToIndex(from) :
              row[o].seq <= row[r].seq => o \in ReindexBatch(from)
         /\ Cardinality(ReindexBatch(from)) < BatchSize => ReindexBatch(from) = ToIndex(from)
<1> DEFINE below(r) == {o \in ToIndex(from) : row[o].seq < row[r].seq}
<1>1. ReindexBatch(from) \subseteq ToIndex(from) /\ ToIndex(from) \subseteq Rows
  BY DEF ReindexBatch, ToIndex
<1>2. \A r \in Rows : row[r].seq \in Nat
  BY DEF IndexTypeOK
<1>3. IsFiniteSet(ToIndex(from))
  BY <1>1, FiniteAssumption, FS_Subset DEF FiniteAssumption
<1>4. \A r : IsFiniteSet(below(r)) /\ Cardinality(below(r)) \in Nat
  BY <1>3, FS_Subset, FS_CardinalityType
<1>5. ASSUME NEW r \in ReindexBatch(from), NEW o \in ToIndex(from), row[o].seq <= row[r].seq
      PROVE  o \in ReindexBatch(from)
  <2>1. below(o) \subseteq below(r)
    BY <1>1, <1>2, <1>5
  <2>2. Cardinality(below(o)) <= Cardinality(below(r))
    BY <1>4, <2>1, FS_Subset
  <2>3. Cardinality(below(r)) < BatchSize
    BY DEF ReindexBatch
  <2>4. Cardinality(below(o)) < BatchSize
    <3> HIDE DEF below
    <3> QED
      BY <1>4, <2>2, <2>3, BatchAssumption DEF BatchAssumption
  <2> QED
    BY <2>4 DEF ReindexBatch
<1>6. ASSUME Cardinality(ReindexBatch(from)) < BatchSize, ReindexBatch(from) # ToIndex(from)
      PROVE  FALSE
  <2> DEFINE left == {row[r].seq : r \in ToIndex(from) \ ReindexBatch(from)}
  <2>1. left \subseteq Nat /\ left # {}
    BY <1>1, <1>2, <1>6
  <2>2. PICK s \in left : \A x \in left : ~ (<<x, s>> \in OpToRel(<, Nat))
    <3> HIDE DEF left
    <3> QED
      BY <2>1, NatLessThanWellFounded, WFMin
  <2>3. ASSUME NEW x \in left PROVE s <= x
    <3> HIDE DEF left
    <3>1. x \in Nat /\ s \in Nat
      BY <2>1
    <3>2. ~ (<<x, s>> \in OpToRel(<, Nat))
      BY <2>2
    <3>3. ~ (x < s)
      BY <3>1, <3>2 DEF OpToRel
    <3> QED
      BY <3>1, <3>3
  <2>4. PICK r \in ToIndex(from) \ ReindexBatch(from) : row[r].seq = s
    OBVIOUS
  <2>5. below(r) \subseteq ReindexBatch(from)
    BY <1>1, <1>2, <2>3, <2>4
  <2>6. Cardinality(below(r)) <= Cardinality(ReindexBatch(from))
    BY <1>1, <1>3, <2>5, FS_Subset
  <2>7. Cardinality(ReindexBatch(from)) \in Nat
    BY <1>1, <1>3, FS_Subset, FS_CardinalityType
  <2>8. Cardinality(below(r)) < BatchSize
    <3> HIDE DEF below
    <3> QED
      BY <1>4, <1>6, <2>6, <2>7, BatchAssumption DEF BatchAssumption
  <2> QED
    BY <2>4, <2>8 DEF ReindexBatch
<1> QED
  BY <1>1, <1>2, <1>5, <1>6

LEMMA ReindexComplete ==
  ASSUME IndexTypeOK, LiveRows,
         NEW entries \in [Rows -> [found : BOOLEAN, data : RowData]], NEW from \in Nat,
         \A r \in Rows : row[r].live /\ row[r].seq <= from => entries[r] = Entry(row[r].data),
         \A r \in Rows : entries[r].found => row[r].live /\ entries[r] = Entry(row[r].data),
         ReindexFrom(entries, from), row' = row
  PROVE  SearchComplete'
<1> SUFFICES ASSUME NEW r \in Rows
             PROVE  /\ row[r].live /\ (indexed' \/ row[r].seq <= cursor') => fts'[r] = Entry(row[r].data)
                    /\ fts'[r].found => row[r].live /\ fts'[r] = Entry(row[r].data)
  BY DEF SearchComplete, Entry
<1>1. fts'[r] = IF r \in ReindexBatch(from) /\ types[row[r].type] # NoType
                THEN Entry(row[r].data) ELSE entries[r]
  BY DEF ReindexFrom
<1>2. r \in ReindexBatch(from) => row[r].live
  BY DEF ReindexBatch, ToIndex
<1>3. row[r].live => types[row[r].type] # NoType
  BY DEF LiveRows
<1>4. ASSUME row[r].live, indexed' \/ row[r].seq <= cursor'
      PROVE  r \in ReindexBatch(from) \/ row[r].seq <= from
  <2>1. row[r].seq \in Nat
    BY DEF IndexTypeOK
  <2>2. CASE r \in ToIndex(from)
    <3>1. CASE Cardinality(ReindexBatch(from)) < BatchSize
      BY <2>2, <3>1, BatchFacts
    <3>2. CASE ~ (Cardinality(ReindexBatch(from)) < BatchSize)
      <4>1. ~ indexed'
        BY <3>2 DEF ReindexFrom
      <4>2. \E o \in ReindexBatch(from) : cursor' = row[o].seq
        BY <3>2 DEF ReindexFrom
      <4> QED
        BY <1>4, <2>2, <4>1, <4>2, BatchFacts
    <3> QED
      BY <3>1, <3>2
  <2>3. CASE r \notin ToIndex(from)
    BY <1>4, <2>1, <2>3 DEF ToIndex
  <2> QED
    BY <2>2, <2>3
<1> QED
  BY <1>1, <1>2, <1>3, <1>4

LEMMA SearchStart == IndexInit => LiveRows /\ SearchComplete
<1> SUFFICES ASSUME IndexInit PROVE LiveRows /\ SearchComplete
  OBVIOUS
<1>1. ASSUME NEW r \in Rows, row[r].live PROVE row[r].seq \in Nat \ {0}
  <2>1. \/ row[r] \in [type : TypeKeys, data : RowData, live : {TRUE}, seq : 1 .. Cardinality(Rows)]
        \/ row[r] = NoRow
    BY Zenon DEF IndexInit
  <2>2. Cardinality(Rows) \in Nat
    BY FiniteAssumption, FS_CardinalityType DEF FiniteAssumption
  <2>3. row[r] # NoRow
    BY <1>1 DEF NoRow
  <2>4. row[r].seq \in 1 .. Cardinality(Rows)
    <3>1. row[r] \in [type : TypeKeys, data : RowData, live : {TRUE}, seq : 1 .. Cardinality(Rows)]
      BY <2>1, <2>3
    <3> QED
      BY <3>1, Zenon
  <2> QED
    BY <2>2, <2>4
<1>2. LiveRows
  BY <1>1 DEF IndexInit, LiveRows
<1>3. SearchComplete
  BY <1>1 DEF IndexInit, SearchComplete, NoEntry
<1> QED
  BY <1>2, <1>3

LEMMA SearchStep ==
  ASSUME IndexTypeOK, LiveRows, SearchComplete, [IndexNext]_indexVars
  PROVE  LiveRows' /\ SearchComplete'
<1>1. CASE Wake
  <2>1. LiveRows'
    BY <1>1 DEF Wake, LiveRows
  <2>2. ASSUME indexed PROVE SearchComplete'
    BY <1>1, <2>2 DEF Wake, searchVars, SearchComplete, Entry
  <2>3. ASSUME ~ indexed PROVE SearchComplete'
    BY <1>1, <2>3, ReindexComplete DEF Wake, SearchComplete, IndexTypeOK
  <2> QED
    BY <2>1, <2>2, <2>3
<1>2. CASE ReindexStep
  <2>1. LiveRows'
    BY <1>2 DEF ReindexStep, lookupVars, LiveRows
  <2>2. SearchComplete'
    BY <1>2, ReindexComplete DEF ReindexStep, SearchComplete, IndexTypeOK
  <2> QED
    BY <2>1, <2>2
<1>3. CASE ReindexSearch
  <2>1. LiveRows'
    BY <1>3 DEF ReindexSearch, lookupVars, LiveRows
  <2>2. /\ [r \in Rows |-> NoEntry] \in [Rows -> [found : BOOLEAN, data : RowData]]
        /\ \A r \in Rows : ~ [q \in Rows |-> NoEntry][r].found
    BY RowDataType DEF NoEntry
  <2>3. \A r \in Rows : ~ (row[r].live /\ row[r].seq <= 0)
    BY DEF LiveRows, IndexTypeOK
  <2>4. SearchComplete'
    BY <1>3, <2>2, <2>3, ReindexComplete DEF ReindexSearch
  <2> QED
    BY <2>1, <2>4
<1>4. ASSUME NEW r \in Rows, CreateRow(r) \/ WriteRow(r) \/ RestoreRow(r)
      PROVE  LiveRows' /\ SearchComplete'
  <2>1. PICK t \in TypeKeys, data \in RowData : PutRow(r, t, data)
    BY <1>4 DEF CreateRow, WriteRow, RestoreRow, IndexTypeOK
  <2>2. PICK s \in Nat \ {0} :
          /\ row' = [row EXCEPT ![r] = [type |-> t, data |-> data, live |-> TRUE, seq |-> s]]
          /\ fts' = [fts EXCEPT ![r] = Entry(data)]
          /\ types[t] # NoType
          /\ UNCHANGED <<types, indexed, cursor>>
    BY <2>1, RowPut
  <2>3. ASSUME NEW q \in Rows
        PROVE  IF q = r
               THEN /\ row'[q] = [type |-> t, data |-> data, live |-> TRUE, seq |-> s]
                    /\ fts'[q] = Entry(data)
               ELSE row'[q] = row[q] /\ fts'[q] = fts[q]
    BY <2>2 DEF IndexTypeOK
  <2>4. LiveRows'
    BY <2>2, <2>3 DEF LiveRows
  <2>5. SearchComplete'
    <3> SUFFICES ASSUME NEW q \in Rows
                 PROVE  /\ row'[q].live /\ (indexed' \/ row'[q].seq <= cursor') => fts'[q] = Entry(row'[q].data)
                        /\ fts'[q].found => row'[q].live /\ fts'[q] = Entry(row'[q].data)
      BY DEF SearchComplete, Entry
    <3>1. CASE q = r
      BY <2>3, <3>1
    <3>2. CASE q # r
      BY <2>2, <2>3, <3>2 DEF SearchComplete
    <3> QED
      BY <3>1, <3>2
  <2> QED
    BY <2>4, <2>5
<1>5. ASSUME NEW r \in Rows, DeleteRow(r) PROVE LiveRows' /\ SearchComplete'
  <2>1. PICK s \in 1 .. MaxRowSeq : row' = [row EXCEPT ![r] = [@ EXCEPT !.live = FALSE, !.seq = s]]
    BY <1>5, Zenon DEF DeleteRow
  <2>2. /\ ~ row'[r].live /\ ~ fts'[r].found
        /\ \A q \in Rows : q # r => row'[q] = row[q] /\ fts'[q] = fts[q]
    BY <1>5, <2>1 DEF DeleteRow, RemoveFromIndex, NoEntry, IndexTypeOK
  <2>3. UNCHANGED <<types, indexed, cursor>>
    BY <1>5 DEF DeleteRow, lookupVars
  <2> QED
    BY <2>2, <2>3 DEF LiveRows, SearchComplete, Entry
<1>6. ASSUME NEW t \in TypeKeys, DeleteContentType(t) PROVE LiveRows' /\ SearchComplete'
  <2>1. \A u \in TypeKeys : u # t => types'[u] = types[u]
    BY <1>6 DEF DeleteContentType, IndexTypeOK
  <2>2. LiveRows'
    BY <1>6, <2>1 DEF DeleteContentType, LiveRows, IndexTypeOK
  <2> QED
    BY <1>6, <2>2 DEF DeleteContentType, searchVars, SearchComplete, Entry
<1>7. ASSUME NEW t \in TypeKeys, NEW def \in Definition, RegisterContentType(t, def)
      PROVE  LiveRows' /\ SearchComplete'
  <2>1. \A u \in TypeKeys : types'[u] = types[u] \/ types'[u] # NoType
    BY <1>7 DEF RegisterContentType, IndexTypeOK
  <2>2. LiveRows'
    BY <1>7, <2>1 DEF RegisterContentType, LiveRows, IndexTypeOK
  <2> QED
    BY <1>7, <2>2 DEF RegisterContentType, searchVars, SearchComplete, Entry
<1>8. CASE Evicted \/ AddLookupColumnStep \/ UNCHANGED indexVars
  <2>1. UNCHANGED <<types, row, fts, indexed, cursor>>
    BY <1>8 DEF Evicted, AddLookupColumnStep, indexVars, lookupVars, searchVars
  <2> QED
    BY <2>1 DEF LiveRows, SearchComplete, Entry
<1> QED
  BY <1>1, <1>2, <1>3, <1>4, <1>5, <1>6, <1>7, <1>8 DEF IndexNext

\* What the cursor has passed is in the index and stays right, for any size of
\* the batches; when the index is complete so is every live record's entry.
THEOREM SearchBecomesComplete == IndexSpec => []SearchComplete
<1>1. IndexInit => LiveRows /\ SearchComplete
  BY SearchStart
<1>2. IndexTypeOK /\ LiveRows /\ SearchComplete /\ [IndexNext]_indexVars
        => LiveRows' /\ SearchComplete'
  BY SearchStep
<1> QED
  BY <1>1, <1>2, IndexTyped, PTL DEF IndexSpec

===============================================================================
