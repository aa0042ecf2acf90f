-------------------------- MODULE RecordWrites_proofs --------------------------
(***************************************************************************)
(* The properties of RecordWrites, for every set of fields, values and     *)
(* clients and every length of the history.  The invariant says that the   *)
(* history is sound and ends in the record, that a client whose version of *)
(* a field is the record's holds its value, and what a confirmation that   *)
(* still matches was asked for.                                            *)
(***************************************************************************)
EXTENDS RecordWrites, FiniteSetTheorems, TLAPS

(***************************************************************************)
(* What recording a version does to a history that is sound, and that what *)
(* has been superseded reads the same afterwards.  Nothing here is by      *)
(* induction over the rows: a field of an old version is read in the first *)
(* row that holds it, and every step leaves that row, or the next one with *)
(* the same value, in its place.                                           *)
(***************************************************************************)

(***************************************************************************)
(* A history is sound when its versions are finitely many and in the order *)
(* of their times, has a newest one, keeps publications whole, and has     *)
(* above every difference a whole row that is not the newest.              *)
(***************************************************************************)
Newest(h, n) == n \in DOMAIN h /\ \A t \in DOMAIN h : t <= n

Backed(h, s) == \E u \in DOMAIN h, n \in DOMAIN h : s < u /\ u < n /\ h[u].full

Sound(h, day) ==
  /\ DOMAIN h \subseteq Nat /\ IsFiniteSet(DOMAIN h) /\ day \in Nat
  /\ DOMAIN h # {} => \E n : Newest(h, n)
  /\ \A s \in DOMAIN h :
       /\ h[s].full \in BOOLEAN /\ DOMAIN h[s].data \subseteq Fields
       /\ h[s].full => DOMAIN h[s].data = Fields
       /\ Pinned(h[s]) => h[s].full
       /\ ~ h[s].full => Backed(h, s)
       /\ \A f \in Fields : Sources(h, s, f) # {}
       /\ h[s].updated \in Nat /\ h[s].updated <= day
       /\ \A t \in DOMAIN h : s < t => h[s].updated <= h[t].updated

IsEntry(entry) == DOMAIN entry.data = Fields

\* The one element of a singleton.
LEMMA TheOneOf == ASSUME NEW t PROVE TheOne({t}) = t
BY DEF TheOne

\* The newest version is unique.
LEMMA LatestIs ==
  ASSUME NEW h, DOMAIN h \subseteq Nat, NEW n, Newest(h, n)
  PROVE  LatestSeq(h) = n
BY DEF LatestSeq, Newest

LEMMA LatestNewest ==
  ASSUME NEW h, NEW day, Sound(h, day), DOMAIN h # {}
  PROVE  Newest(h, LatestSeq(h))
<1>1. PICK n : Newest(h, n)  BY DEF Sound
<1>2. LatestSeq(h) = n  BY <1>1, LatestIs DEF Sound
<1>. QED  BY <1>1, <1>2

LEMMA LatestNat ==
  ASSUME NEW h, NEW day, Sound(h, day)
  PROVE  LatestSeq(h) \in Nat /\ \A s \in DOMAIN h : s <= LatestSeq(h)
<1>1. CASE DOMAIN h = {}  BY <1>1 DEF LatestSeq
<1>2. CASE DOMAIN h # {}  BY <1>2, LatestNewest DEF Newest, Sound
<1>. QED  BY <1>1, <1>2

(***************************************************************************)
(* Offsets.                                                                *)
(***************************************************************************)
LEMMA OffsetNat ==
  ASSUME NEW h, IsFiniteSet(DOMAIN h), NEW s
  PROVE  Offset(h, s) \in Nat
<1>1. IsFiniteSet({t \in DOMAIN h : s < t})  BY FS_Subset
<1>. QED  BY <1>1, FS_CardinalityType DEF Offset

\* A newer version has fewer above it.
LEMMA OffsetFalls ==
  ASSUME NEW h, DOMAIN h \subseteq Nat, IsFiniteSet(DOMAIN h),
         NEW s \in DOMAIN h, NEW t \in DOMAIN h, s < t
  PROVE  Offset(h, t) < Offset(h, s)
<1>. DEFINE S == {u \in DOMAIN h : s < u}
            T == {u \in DOMAIN h : t < u}
<1>1. IsFiniteSet(S) /\ IsFiniteSet(T)  BY FS_Subset
<1>2. T \subseteq S /\ T # S
  <2>1. T \subseteq S  OBVIOUS
  <2>2. t \in S /\ t \notin T  OBVIOUS
  <2>. QED  BY <2>1, <2>2
<1>3. Cardinality(T) <= Cardinality(S) /\ Cardinality(T) # Cardinality(S)
  BY <1>1, <1>2, FS_Subset
<1>4. Cardinality(S) \in Nat /\ Cardinality(T) \in Nat  BY <1>1, FS_CardinalityType
<1>5. Cardinality(T) < Cardinality(S)  BY <1>3, <1>4
<1>. QED  BY <1>5 DEF Offset

\* Nothing is above the newest.
LEMMA OffsetOfNewest ==
  ASSUME NEW h, DOMAIN h \subseteq Nat, NEW n, Newest(h, n)
  PROVE  Offset(h, n) = 0
<1>1. {t \in DOMAIN h : n < t} = {}  BY DEF Newest
<1>. QED  BY <1>1, FS_EmptySet DEF Offset

(***************************************************************************)
(* Sources.                                                                *)
(***************************************************************************)
\* A field of a version is read in one row.
LEMMA SourcesUnique ==
  ASSUME NEW h, DOMAIN h \subseteq Nat, NEW s \in DOMAIN h, NEW f,
         NEW t \in Sources(h, s, f)
  PROVE  Sources(h, s, f) = {t}
<1>1. t \in DOMAIN h  BY DEF Sources
<1>2. ASSUME NEW u \in Sources(h, s, f) PROVE u = t
  <2>1. u \in DOMAIN h /\ u \in Nat /\ t \in Nat  BY <1>1 DEF Sources
  <2>2. ~ (u < t) /\ ~ (t < u)  BY <1>1, <2>1 DEF Sources
  <2>. QED  BY <2>1, <2>2
<1>. QED  BY <1>2

LEMMA SourcesSingle ==
  ASSUME NEW h, NEW day, Sound(h, day), NEW s \in DOMAIN h, NEW f \in Fields
  PROVE  \E t \in DOMAIN h : Sources(h, s, f) = {t}
<1>1. PICK t : t \in Sources(h, s, f)  BY DEF Sound
<1>2. t \in DOMAIN h  BY <1>1 DEF Sources
<1>. QED  BY <1>1, <1>2, SourcesUnique DEF Sound

\* A version in a row of its own is read there.
LEMMA SourceOfFull ==
  ASSUME NEW h, DOMAIN h \subseteq Nat, NEW s \in DOMAIN h, h[s].full, NEW f
  PROVE  Sources(h, s, f) = {s}
<1>1. s \in Sources(h, s, f)  BY DEF Sources, Holds
<1>2. ASSUME NEW t \in Sources(h, s, f) PROVE t = s
  <2>1. t \in DOMAIN h /\ s <= t /\ ~ (s < t)  BY DEF Sources, Holds
  <2>. QED  BY <2>1
<1>. QED  BY <1>1, <1>2

\* Two histories in which a version is read in the same way.
LEMMA LoadSame ==
  ASSUME NEW h, NEW g, NEW s,
         \A f \in Fields : \E t, u : /\ Sources(h, s, f) = {t} /\ Sources(g, s, f) = {u}
                                   /\ g[u].data[f] = h[t].data[f]
  PROVE  Load(g, s) = Load(h, s)
<1>1. ASSUME NEW f \in Fields
      PROVE  g[TheOne(Sources(g, s, f))].data[f] = h[TheOne(Sources(h, s, f))].data[f]
  <2>1. PICK t, u : /\ Sources(h, s, f) = {t} /\ Sources(g, s, f) = {u}
                    /\ g[u].data[f] = h[t].data[f]
    OBVIOUS
  <2>2. TheOne(Sources(h, s, f)) = t /\ TheOne(Sources(g, s, f)) = u  BY <2>1, TheOneOf
  <2>. QED  BY <2>1, <2>2
<1>. QED  BY <1>1 DEF Load

\* What a version that is whole reads as.
LEMMA LoadOfFull ==
  ASSUME NEW h, DOMAIN h \subseteq Nat, NEW s \in DOMAIN h, h[s].full
  PROVE  Load(h, s) = [f \in Fields |-> h[s].data[f]]
<1>1. ASSUME NEW f \in Fields PROVE TheOne(Sources(h, s, f)) = s  BY SourceOfFull, TheOneOf
<1>. QED  BY <1>1 DEF Load

(***************************************************************************)
(* Folding into the newest version.                                        *)
(***************************************************************************)
LEMMA FoldedRows ==
  ASSUME NEW h, NEW day, Sound(h, day), NEW entry, IsEntry(entry), Folds(h, entry, day)
  PROVE  LET n == LatestSeq(h)
             g == Folded(h, entry, day)
         IN  /\ Newest(h, n) /\ h[n].full /\ DOMAIN g = DOMAIN h
             /\ \A s \in DOMAIN h : s # n => g[s] = h[s]
             /\ g[n] = Stored(h[n], TRUE, entry.data, day)
<1>. DEFINE n == LatestSeq(h)
<1>1. Newest(h, n)  BY LatestNewest DEF Folds
<1>2. h[n].full
  <2>1. ~ Backed(h, n)  BY <1>1 DEF Backed, Newest, Sound
  <2>. QED  BY <1>1, <2>1 DEF Sound, Newest
<1>. QED  BY <1>1, <1>2 DEF Folded, Newest

LEMMA FoldedLoads ==
  ASSUME NEW h, NEW day, Sound(h, day), NEW entry, IsEntry(entry), Folds(h, entry, day),
         NEW s \in DOMAIN h
  PROVE  /\ \A f \in Fields : Sources(Folded(h, entry, day), s, f) = Sources(h, s, f)
         /\ s # LatestSeq(h) => Load(Folded(h, entry, day), s) = Load(h, s)
<1>. DEFINE n == LatestSeq(h)
            g == Folded(h, entry, day)
<1>0. Newest(h, n) /\ h[n].full /\ DOMAIN g = DOMAIN h
      /\ (\A t \in DOMAIN h : t # n => g[t] = h[t])
      /\ g[n] = Stored(h[n], TRUE, entry.data, day)
  BY FoldedRows
<1>. HIDE DEF n, g
<1>1. \A t \in DOMAIN h, f \in Fields : Holds(g[t], f) <=> Holds(h[t], f)
  BY <1>0 DEF Holds, Stored
<1>2. \A f \in Fields : Sources(g, s, f) = Sources(h, s, f)
  BY <1>0, <1>1 DEF Sources
<1>3. ASSUME s # n PROVE Load(g, s) = Load(h, s)
  <2>1. ASSUME NEW f \in Fields
        PROVE  \E t, u : /\ Sources(h, s, f) = {t} /\ Sources(g, s, f) = {u}
                         /\ g[u].data[f] = h[t].data[f]
    <3>1. PICK t \in DOMAIN h : Sources(h, s, f) = {t}  BY SourcesSingle
    <3>2. t # n
      <4>1. s < n  BY <1>0, <1>3 DEF Newest, Sound
      <4>2. CASE h[s].full  BY <3>1, <1>3, <4>2, SourceOfFull DEF Sound
      <4>3. CASE ~ h[s].full
        <5>1. PICK u \in DOMAIN h : s < u /\ u < n /\ h[u].full
          BY <4>3, <1>0 DEF Sound, Backed, Newest
        <5>2. Holds(h[u], f)  BY <5>1 DEF Holds
        <5>3. s \in Nat /\ u \in Nat /\ s <= u  BY <5>1 DEF Sound
        <5>4. n \notin Sources(h, s, f)  BY <5>1, <5>2, <5>3 DEF Sources
        <5>. QED  BY <5>4, <3>1
      <4>. QED  BY <4>2, <4>3
    <3>. QED  BY <1>0, <1>2, <3>1, <3>2
  <2>. QED  BY <2>1, LoadSame
<1>. QED  BY <1>2, <1>3 DEF n, g

LEMMA FoldedSound ==
  ASSUME NEW h, NEW day, Sound(h, day), NEW entry, IsEntry(entry), Folds(h, entry, day)
  PROVE  Sound(Folded(h, entry, day), day)
<1>. DEFINE n == LatestSeq(h)
            g == Folded(h, entry, day)
<1>0. Newest(h, n) /\ h[n].full /\ DOMAIN g = DOMAIN h
      /\ (\A t \in DOMAIN h : t # n => g[t] = h[t])
      /\ g[n] = Stored(h[n], TRUE, entry.data, day)
  BY FoldedRows
<1>1. \A s \in DOMAIN h, f \in Fields : Sources(g, s, f) = Sources(h, s, f)
  BY FoldedLoads
<1>. HIDE DEF n, g
<1>2. \E m : Newest(g, m)  BY <1>0 DEF Newest
<1>3. ASSUME NEW s \in DOMAIN g
      PROVE  /\ g[s].full \in BOOLEAN /\ DOMAIN g[s].data \subseteq Fields
             /\ g[s].full => DOMAIN g[s].data = Fields
             /\ Pinned(g[s]) => g[s].full
             /\ g[s].updated \in Nat /\ g[s].updated <= day
  <2>1. CASE s = n
    <3>1. n \in DOMAIN h /\ day \in Nat  BY <1>0 DEF Newest, Sound
    <3>2. g[s] = Stored(h[n], TRUE, entry.data, day)  BY <1>0, <2>1
    <3>3. g[s].full = TRUE /\ g[s].data = entry.data /\ g[s].updated = day
      BY <3>2 DEF Stored
    <3>4. g[s].updated \in Nat /\ g[s].updated <= day  BY <3>1, <3>3
    <3>5. g[s].full \in BOOLEAN /\ g[s].full  BY <3>3
    <3>6. DOMAIN g[s].data = Fields  BY <3>3 DEF IsEntry
    <3>. QED  BY <3>4, <3>5, <3>6
  <2>2. CASE s # n
    <3>1. s \in DOMAIN h /\ g[s] = h[s]  BY <1>0, <2>2
    <3>. QED  BY <3>1 DEF Sound
  <2>. QED  BY <2>1, <2>2
<1>4. ASSUME NEW s \in DOMAIN g, ~ g[s].full PROVE Backed(g, s)
  <2>1. s # n /\ ~ h[s].full  BY <1>0, <1>4 DEF Stored
  <2>2. PICK u \in DOMAIN h, m \in DOMAIN h : s < u /\ u < m /\ h[u].full
    BY <1>0, <2>1 DEF Sound, Backed
  <2>3. u # n  BY <1>0, <2>2 DEF Newest, Sound
  <2>. QED  BY <1>0, <2>2, <2>3 DEF Backed
<1>5. ASSUME NEW s \in DOMAIN g, NEW t \in DOMAIN g, s < t
      PROVE  g[s].updated <= g[t].updated
  <2>1. s # n  BY <1>0, <1>5 DEF Newest, Sound
  <2>2. CASE t = n  BY <1>0, <2>1, <2>2 DEF Sound, Stored
  <2>3. CASE t # n  BY <1>0, <2>1, <2>3, <1>5 DEF Sound
  <2>. QED  BY <2>2, <2>3
<1>6. \A s \in DOMAIN g, f \in Fields : Sources(g, s, f) # {}
  BY <1>0, <1>1 DEF Sound
<1>. QED  BY <1>0, <1>2, <1>3, <1>4, <1>5, <1>6 DEF Sound, g

(***************************************************************************)
(* Appending a version.                                                    *)
(***************************************************************************)
IsAppended(g, h, n, entry, day) ==
  /\ n \in Nat /\ DOMAIN g = DOMAIN h \cup {n} /\ Newest(g, n)
  /\ \A s \in DOMAIN h : s < n /\ g[s] = h[s]
  /\ g[n].kind = entry.kind /\ g[n].by = entry.by
  /\ g[n].full = TRUE /\ g[n].data = entry.data /\ g[n].updated = day

LEMMA AppendedRows ==
  ASSUME NEW h, NEW day, Sound(h, day), NEW entry, IsEntry(entry)
  PROVE  IsAppended(Appended(h, entry, day), h, LatestSeq(h) + 1, entry, day)
<1>. DEFINE n == LatestSeq(h) + 1
            g == Appended(h, entry, day)
<1>1. LatestSeq(h) \in Nat /\ \A s \in DOMAIN h : s <= LatestSeq(h)  BY LatestNat
<1>2. n \in Nat /\ DOMAIN h \subseteq Nat  BY <1>1 DEF Sound
<1>3. \A s \in DOMAIN h : s < n  BY <1>1, <1>2
<1>4. DOMAIN g = DOMAIN h \cup {n}  BY DEF Appended
<1>5. Newest(g, n)  BY <1>2, <1>3, <1>4 DEF Newest
<1>6. \A s \in DOMAIN h : s # n  BY <1>2, <1>3
<1>7. \A s \in DOMAIN h : g[s] = h[s]  BY <1>6 DEF Appended
<1>8. g[n] = Row(entry, day)  BY DEF Appended
<1>. QED  BY <1>2, <1>3, <1>4, <1>5, <1>7, <1>8 DEF Row, IsAppended

LEMMA AppendedLoads ==
  ASSUME NEW h, NEW day, Sound(h, day), NEW entry, IsEntry(entry), NEW s \in DOMAIN h
  PROVE  /\ \A f \in Fields : Sources(Appended(h, entry, day), s, f) = Sources(h, s, f)
         /\ Load(Appended(h, entry, day), s) = Load(h, s)
<1>. DEFINE n == LatestSeq(h) + 1
            g == Appended(h, entry, day)
<1>a. IsAppended(g, h, n, entry, day)  BY AppendedRows
<1>. HIDE DEF n, g
<1>0. n \in Nat /\ DOMAIN g = DOMAIN h \cup {n} /\ \A t \in DOMAIN h : t < n /\ g[t] = h[t]
  BY <1>a DEF IsAppended
<1>1. ASSUME NEW f \in Fields PROVE Sources(g, s, f) = Sources(h, s, f)
  <2>1. PICK t \in DOMAIN h : Sources(h, s, f) = {t}  BY SourcesSingle
  <2>2. t \in Nat /\ s \in Nat /\ t < n /\ s <= t /\ Holds(h[t], f)
    BY <2>1, <1>0 DEF Sound, Sources
  <2>3. \A u \in DOMAIN h : s <= u /\ u < t => ~ Holds(h[u], f)  BY <2>1 DEF Sources
  <2>4. ~ (n < t)  BY <1>0, <2>2
  <2>5. t \in Sources(g, s, f)
    <3>1. \A u \in DOMAIN g : s <= u /\ u < t => ~ Holds(g[u], f)  BY <1>0, <2>3, <2>4
    <3>2. t \in DOMAIN g /\ g[t] = h[t]  BY <1>0
    <3>. QED  BY <3>1, <3>2, <2>2 DEF Sources
  <2>6. ASSUME NEW u \in Sources(g, s, f) PROVE u = t
    <3>1. u \in DOMAIN g /\ s <= u /\ Holds(g[u], f)  BY DEF Sources
    <3>2. ~ (t < u)  BY <1>0, <2>2 DEF Sources
    <3>3. u # n  BY <2>2, <3>2
    <3>4. u \in DOMAIN h /\ g[u] = h[u] /\ u \in Nat  BY <1>0, <3>1, <3>3 DEF Sound
    <3>5. ~ (u < t)  BY <2>3, <3>1, <3>4
    <3>. QED  BY <2>2, <3>2, <3>4, <3>5
  <2>. QED  BY <2>1, <2>5, <2>6
<1>2. ASSUME NEW f \in Fields
      PROVE  \E t, u : /\ Sources(h, s, f) = {t} /\ Sources(g, s, f) = {u}
                       /\ g[u].data[f] = h[t].data[f]
  <2>1. PICK t \in DOMAIN h : Sources(h, s, f) = {t}  BY SourcesSingle
  <2>. QED  BY <2>1, <1>0, <1>1
<1>3. Load(g, s) = Load(h, s)  BY <1>2, LoadSame
<1>. QED  BY <1>1, <1>3 DEF g

LEMMA AppendedSound ==
  ASSUME NEW h, NEW day, Sound(h, day), NEW entry, IsEntry(entry)
  PROVE  Sound(Appended(h, entry, day), day)
<1>. DEFINE n == LatestSeq(h) + 1
            g == Appended(h, entry, day)
<1>a. IsAppended(g, h, n, entry, day)  BY AppendedRows
<1>1. \A s \in DOMAIN h, f \in Fields : Sources(g, s, f) = Sources(h, s, f)
  BY AppendedLoads
<1>. HIDE DEF n, g
<1>0. /\ n \in Nat /\ DOMAIN g = DOMAIN h \cup {n} /\ Newest(g, n)
      /\ \A s \in DOMAIN h : s < n /\ g[s] = h[s]
      /\ g[n].full = TRUE /\ g[n].data = entry.data /\ g[n].updated = day
  BY <1>a DEF IsAppended
<1>2. DOMAIN g \subseteq Nat /\ IsFiniteSet(DOMAIN g) /\ day \in Nat
  BY <1>0, FS_AddElement DEF Sound
<1>3. ASSUME NEW s \in DOMAIN g
      PROVE  /\ g[s].full \in BOOLEAN /\ DOMAIN g[s].data \subseteq Fields
             /\ g[s].full => DOMAIN g[s].data = Fields
             /\ Pinned(g[s]) => g[s].full
             /\ ~ g[s].full => Backed(g, s)
             /\ g[s].updated \in Nat /\ g[s].updated <= day
             /\ \A f \in Fields : Sources(g, s, f) # {}
  <2>1. CASE s = n
    <3>1. g[s].updated \in Nat /\ g[s].updated <= day  BY <1>0, <1>2, <2>1
    <3>2. g[s].full \in BOOLEAN /\ g[s].full  BY <1>0, <2>1
    <3>3. DOMAIN g[s].data = Fields  BY <1>0, <2>1 DEF IsEntry
    <3>4. \A f \in Fields : Sources(g, s, f) = {s}  BY <1>2, <3>2, SourceOfFull
    <3>. QED  BY <3>1, <3>2, <3>3, <3>4
  <2>2. CASE s # n
    <3>1. s \in DOMAIN h /\ g[s] = h[s]  BY <1>0, <2>2
    <3>2. Backed(h, s) => Backed(g, s)  BY <1>0 DEF Backed
    <3>. QED  BY <1>1, <3>1, <3>2 DEF Sound
  <2>. QED  BY <2>1, <2>2
<1>4. ASSUME NEW s \in DOMAIN g, NEW t \in DOMAIN g, s < t
      PROVE  g[s].updated <= g[t].updated
  <2>1. s # n  BY <1>0, <1>2, <1>4 DEF Newest
  <2>2. CASE t = n  BY <1>0, <2>1, <2>2 DEF Sound
  <2>3. CASE t # n  BY <1>0, <2>1, <2>3, <1>4 DEF Sound
  <2>. QED  BY <2>2, <2>3
<1>. QED  BY <1>0, <1>2, <1>3, <1>4 DEF Sound, g

(***************************************************************************)
(* Compaction.                                                             *)
(***************************************************************************)
\* Above the version that becomes a difference is a whole one, which stays
\* whole and is not the newest.
LEMMA NextOfCrossing ==
  ASSUME NEW h, NEW day, Sound(h, day), NEW c \in DOMAIN h, Crosses(h, c)
  PROVE  \E v \in DOMAIN h : /\ NextNewer(h, c) = {v} /\ c < v /\ h[v].full
                             /\ ~ Crosses(h, v) /\ \E n \in DOMAIN h : v < n
<1>0. DOMAIN h \subseteq Nat /\ IsFiniteSet(DOMAIN h)  BY DEF Sound
<1>1. PICK v \in NextNewer(h, c) : h[v].full  BY DEF Crosses
<1>2. v \in DOMAIN h /\ c < v /\ \A u \in DOMAIN h : c < u => v <= u  BY DEF NextNewer
<1>3. ASSUME NEW u \in NextNewer(h, c) PROVE u = v
  BY <1>0, <1>2 DEF NextNewer
<1>4. ~ Crosses(h, v)
  <2>1. Offset(h, v) < Offset(h, c)  BY <1>0, <1>2, OffsetFalls
  <2>2. Offset(h, v) \in Nat /\ Offset(h, c) \in Nat  BY <1>0, OffsetNat
  <2>. QED  BY <2>1, <2>2 DEF Crosses
<1>5. \E n \in DOMAIN h : v < n
  <2>1. SUFFICES ASSUME \A n \in DOMAIN h : ~ (v < n) PROVE FALSE  OBVIOUS
  <2>2. {u \in DOMAIN h : c < u} = {} \cup {v}  BY <1>0, <1>2, <2>1
  <2>3. Cardinality({} \cup {v}) = 1  BY FS_EmptySet, FS_AddElement
  <2>4. Offset(h, c) = 1  BY <2>2, <2>3 DEF Offset
  <2>. QED  BY <2>4, HistoryAssumption DEF Crosses
<1>. QED  BY <1>1, <1>2, <1>3, <1>4, <1>5

LEMMA CompactedRows ==
  ASSUME NEW h, NEW s \in DOMAIN h
  PROVE  /\ DOMAIN Compacted(h) = DOMAIN h
         /\ ~ Crosses(h, s) => Compacted(h)[s] = h[s]
         /\ Crosses(h, s) =>
              Compacted(h)[s] = Stored(h[s], FALSE, ReverseDiff(h, s), h[s].updated)
BY DEF Compacted

\* What a difference leaves out is in the next newer version.
LEMMA ReverseDiffOf ==
  ASSUME NEW h, NEW c, NEW v, NextNewer(h, c) = {v}
  PROVE  /\ DOMAIN ReverseDiff(h, c) \subseteq Fields
         /\ \A f \in Fields : IF f \in DOMAIN ReverseDiff(h, c)
                               THEN ReverseDiff(h, c)[f] = h[c].data[f]
                               ELSE h[c].data[f] = h[v].data[f]
<1>1. TheOne(NextNewer(h, c)) = v  BY TheOneOf
<1>2. ReverseDiff(h, c) =
        [f \in {g \in Fields : h[c].data[g] # h[v].data[g]} |-> h[c].data[f]]
  BY <1>1 DEF ReverseDiff
<1>3. DOMAIN ReverseDiff(h, c) = {g \in Fields : h[c].data[g] # h[v].data[g]}  BY <1>2
<1>. QED  BY <1>2, <1>3

LEMMA CompactedSources ==
  ASSUME NEW h, NEW day, Sound(h, day), NEW s \in DOMAIN h, NEW f \in Fields
  PROVE  \E t, u : /\ Sources(h, s, f) = {t} /\ Sources(Compacted(h), s, f) = {u}
                   /\ Compacted(h)[u].data[f] = h[t].data[f]
<1>. DEFINE g == Compacted(h)
<1>0. DOMAIN g = DOMAIN h /\ DOMAIN h \subseteq Nat  BY CompactedRows DEF Sound
<1>1. PICK t \in DOMAIN h : Sources(h, s, f) = {t}  BY SourcesSingle
<1>2. /\ s <= t /\ Holds(h[t], f)
      /\ \A u \in DOMAIN h : s <= u /\ u < t => ~ Holds(h[u], f)
  BY <1>1 DEF Sources
<1>3. \A u \in DOMAIN h : s <= u /\ u < t => ~ Holds(g[u], f)
  <2>1. \A u \in DOMAIN h : ~ Holds(h[u], f) => ~ Crosses(h, u)  BY DEF Holds, Crosses
  <2>. QED  BY <1>2, <2>1, CompactedRows
<1>4. CASE ~ Crosses(h, t)
  <2>1. g[t] = h[t]  BY <1>4, CompactedRows
  <2>2. t \in Sources(g, s, f)  BY <1>0, <1>2, <1>3, <2>1 DEF Sources
  <2>3. Sources(g, s, f) = {t}  BY <1>0, <2>2, SourcesUnique
  <2>. QED  BY <1>1, <2>1, <2>3
<1>5. CASE Crosses(h, t)
  <2>0. g[t] = Stored(h[t], FALSE, ReverseDiff(h, t), h[t].updated)  BY <1>5, CompactedRows
  <2>a. g[t].full = FALSE /\ g[t].data = ReverseDiff(h, t)  BY <2>0 DEF Stored
  <2>1. PICK v \in DOMAIN h : /\ NextNewer(h, t) = {v} /\ t < v /\ h[v].full
                              /\ ~ Crosses(h, v)
    BY <1>5, NextOfCrossing
  <2>2. CASE f \in DOMAIN ReverseDiff(h, t)
    <3>1. g[t].data[f] = h[t].data[f] /\ Holds(g[t], f)
      BY <2>a, <2>1, <2>2, ReverseDiffOf DEF Holds
    <3>2. t \in Sources(g, s, f)  BY <1>0, <1>2, <1>3, <3>1 DEF Sources
    <3>3. Sources(g, s, f) = {t}  BY <1>0, <3>2, SourcesUnique
    <3>. QED  BY <1>1, <3>1, <3>3
  <2>3. CASE f \notin DOMAIN ReverseDiff(h, t)
    <3>1. h[t].data[f] = h[v].data[f]  BY <2>1, <2>3, ReverseDiffOf
    <3>2. g[v] = h[v] /\ Holds(g[v], f)  BY <2>1, CompactedRows DEF Holds
    <3>3. ~ Holds(g[t], f)  BY <2>a, <2>3 DEF Holds
    <3>4. \A u \in DOMAIN h : ~ (t < u /\ u < v)  BY <1>0, <2>1 DEF NextNewer
    <3>5. \A u \in DOMAIN h : s <= u /\ u < v => ~ Holds(g[u], f)
      BY <1>0, <1>3, <3>3, <3>4
    <3>6. s <= v  BY <1>0, <1>2, <2>1
    <3>7. v \in Sources(g, s, f)  BY <1>0, <3>2, <3>5, <3>6 DEF Sources
    <3>8. Sources(g, s, f) = {v}  BY <1>0, <3>7, SourcesUnique
    <3>. QED  BY <1>1, <3>1, <3>2, <3>8
  <2>. QED  BY <2>2, <2>3
<1>. QED  BY <1>4, <1>5

LEMMA CompactedLoads ==
  ASSUME NEW h, NEW day, Sound(h, day), NEW s \in DOMAIN h
  PROVE  Load(Compacted(h), s) = Load(h, s)
BY CompactedSources, LoadSame

LEMMA CompactedSound ==
  ASSUME NEW h, NEW day, Sound(h, day)
  PROVE  Sound(Compacted(h), day)
<1>. DEFINE g == Compacted(h)
<1>0. DOMAIN g = DOMAIN h
  <2>1. CASE DOMAIN h = {}  BY <2>1 DEF Compacted
  <2>2. CASE DOMAIN h # {}  BY <2>2, CompactedRows
  <2>. QED  BY <2>1, <2>2
<1>1. DOMAIN g # {} => \E n : Newest(g, n)  BY <1>0 DEF Sound, Newest
<1>2. ASSUME NEW s \in DOMAIN h
      PROVE  /\ g[s].full \in BOOLEAN /\ DOMAIN g[s].data \subseteq Fields
             /\ g[s].full => DOMAIN g[s].data = Fields
             /\ Pinned(g[s]) => g[s].full
             /\ g[s].updated = h[s].updated
  <2>1. CASE ~ Crosses(h, s)
    <3>1. g[s] = h[s]  BY <2>1, CompactedRows
    <3>. QED  BY <3>1 DEF Sound
  <2>2. CASE Crosses(h, s)
    <3>1. g[s] = Stored(h[s], FALSE, ReverseDiff(h, s), h[s].updated)  BY <2>2, CompactedRows
    <3>2. PICK v \in DOMAIN h : NextNewer(h, s) = {v}  BY <2>2, NextOfCrossing
    <3>3. DOMAIN ReverseDiff(h, s) \subseteq Fields  BY <3>2, ReverseDiffOf
    <3>4. /\ g[s].full = FALSE /\ g[s].data = ReverseDiff(h, s)
          /\ g[s].updated = h[s].updated /\ g[s].kind = h[s].kind
      BY <3>1 DEF Stored
    <3>5. ~ Pinned(g[s])  BY <2>2, <3>4 DEF Crosses, Pinned
    <3>. QED  BY <3>3, <3>4, <3>5
  <2>. QED  BY <2>1, <2>2
<1>3. ASSUME NEW s \in DOMAIN h, ~ g[s].full PROVE Backed(g, s)
  <2>1. ASSUME NEW c \in DOMAIN h, Crosses(h, c)
        PROVE  \E v \in DOMAIN h, n \in DOMAIN h : c < v /\ v < n /\ g[v].full
    <3>1. PICK v \in DOMAIN h : c < v /\ h[v].full /\ ~ Crosses(h, v) /\ \E n \in DOMAIN h : v < n
      BY <2>1, NextOfCrossing
    <3>2. g[v] = h[v]  BY <3>1, CompactedRows
    <3>. QED  BY <3>1, <3>2
  <2>2. CASE Crosses(h, s)  BY <1>0, <2>1, <2>2 DEF Backed
  <2>3. CASE ~ Crosses(h, s)
    <3>1. ~ h[s].full  BY <1>3, <2>3, CompactedRows
    <3>2. PICK u \in DOMAIN h, n \in DOMAIN h : s < u /\ u < n /\ h[u].full
      BY <3>1 DEF Sound, Backed
    <3>3. CASE Crosses(h, u)
      <4>1. PICK v \in DOMAIN h, m \in DOMAIN h : u < v /\ v < m /\ g[v].full
        BY <2>1, <3>3
      <4>2. s < v  BY <3>2, <4>1 DEF Sound
      <4>. QED  BY <1>0, <4>1, <4>2 DEF Backed
    <3>4. CASE ~ Crosses(h, u)
      <4>1. g[u].full  BY <3>2, <3>4, CompactedRows
      <4>. QED  BY <1>0, <3>2, <4>1 DEF Backed
    <3>. QED  BY <3>3, <3>4
  <2>. QED  BY <2>2, <2>3
<1>4. \A s \in DOMAIN h, f \in Fields : Sources(g, s, f) # {}  BY CompactedSources
<1>. HIDE DEF g
<1>5. \A s \in DOMAIN g : /\ g[s].updated \in Nat /\ g[s].updated <= day
                          /\ \A t \in DOMAIN g : s < t => g[s].updated <= g[t].updated
  BY <1>0, <1>2 DEF Sound
<1>6. DOMAIN g \subseteq Nat /\ IsFiniteSet(DOMAIN g) /\ day \in Nat  BY <1>0 DEF Sound
<1>. QED  BY <1>0, <1>1, <1>2, <1>3, <1>4, <1>5, <1>6 DEF Sound, g

(***************************************************************************)
(* Pruning.                                                                *)
(***************************************************************************)
\* Above a version that is kept for its place and age, everything is kept.
LEMMA KeptUpwards ==
  ASSUME NEW h, NEW day, Sound(h, day), NEW s \in DOMAIN h, Kept(h, s, day),
         ~ Pinned(h[s]), NEW u \in DOMAIN h, s < u
  PROVE  Kept(h, u, day)
<1>1. Offset(h, u) < Offset(h, s) /\ Offset(h, u) \in Nat /\ Offset(h, s) \in Nat
  BY OffsetFalls, OffsetNat DEF Sound
<1>2. Offset(h, s) < MaxVersions /\ day <= h[s].updated + MaxAge  BY DEF Kept
<1>3. h[s].updated <= h[u].updated /\ h[s].updated \in Nat /\ h[u].updated \in Nat /\ day \in Nat
  BY DEF Sound
<1>4. Offset(h, u) < MaxVersions  BY <1>1, <1>2, HistoryAssumption
<1>5. day <= h[u].updated + MaxAge  BY <1>2, <1>3, HistoryAssumption
<1>. QED  BY <1>4, <1>5 DEF Kept

LEMMA PrunedRows ==
  ASSUME NEW h, NEW day
  PROVE  /\ DOMAIN Pruned(h, day) = {t \in DOMAIN h : Kept(h, t, day)}
         /\ \A s \in DOMAIN Pruned(h, day) : Pruned(h, day)[s] = h[s]
BY DEF Pruned

LEMMA PrunedSources ==
  ASSUME NEW h, NEW day, Sound(h, day), NEW s \in DOMAIN Pruned(h, day), NEW f \in Fields
  PROVE  /\ Sources(Pruned(h, day), s, f) = Sources(h, s, f)
         /\ \A t \in Sources(h, s, f) : t \in DOMAIN Pruned(h, day)
<1>. DEFINE g == Pruned(h, day)
<1>0. /\ DOMAIN g \subseteq DOMAIN h /\ DOMAIN h \subseteq Nat /\ g[s] = h[s]
      /\ s \in DOMAIN h /\ Kept(h, s, day)
  BY PrunedRows DEF Sound
<1>1. CASE h[s].full
  <2>1. Sources(h, s, f) = {s}  BY <1>0, <1>1, SourceOfFull
  <2>2. Sources(g, s, f) = {s}  BY <1>0, <1>1, SourceOfFull
  <2>. QED  BY <2>1, <2>2
<1>2. CASE ~ h[s].full
  <2>1. ~ Pinned(h[s])  BY <1>0, <1>2 DEF Sound
  <2>2. \A u \in DOMAIN h : s <= u => u \in DOMAIN g /\ g[u] = h[u]
    <3>1. ASSUME NEW u \in DOMAIN h, s <= u PROVE Kept(h, u, day)
      <4>1. CASE s = u  BY <1>0, <4>1
      <4>2. CASE s # u
        <5>1. s < u  BY <1>0, <3>1, <4>2
        <5>. QED  BY <1>0, <2>1, <5>1, KeptUpwards
      <4>. QED  BY <4>1, <4>2
    <3>. QED  BY <3>1, PrunedRows
  <2>3. Sources(g, s, f) = Sources(h, s, f)  BY <1>0, <2>2 DEF Sources
  <2>4. \A t \in Sources(h, s, f) : t \in DOMAIN g  BY <2>2 DEF Sources
  <2>. QED  BY <2>3, <2>4
<1>. QED  BY <1>1, <1>2

LEMMA PrunedLoads ==
  ASSUME NEW h, NEW day, Sound(h, day), NEW s \in DOMAIN Pruned(h, day)
  PROVE  Load(Pruned(h, day), s) = Load(h, s)
<1>. DEFINE g == Pruned(h, day)
<1>1. ASSUME NEW f \in Fields
      PROVE  \E t, u : /\ Sources(h, s, f) = {t} /\ Sources(g, s, f) = {u}
                       /\ g[u].data[f] = h[t].data[f]
  <2>0. s \in DOMAIN h  BY PrunedRows
  <2>1. PICK t \in DOMAIN h : Sources(h, s, f) = {t}  BY <2>0, SourcesSingle
  <2>2. Sources(g, s, f) = {t} /\ t \in DOMAIN g  BY <2>1, PrunedSources
  <2>3. g[t] = h[t]  BY <2>2, PrunedRows
  <2>. QED  BY <2>1, <2>2, <2>3
<1>. QED  BY <1>1, LoadSame

LEMMA PrunedSound ==
  ASSUME NEW h, NEW day, Sound(h, day), NEW n, Newest(h, n), h[n].updated = day
  PROVE  /\ Sound(Pruned(h, day), day) /\ Newest(Pruned(h, day), n)
         /\ Pruned(h, day)[n] = h[n]
<1>. DEFINE g == Pruned(h, day)
<1>1. Kept(h, n, day)
  <2>1. Offset(h, n) = 0  BY OffsetOfNewest DEF Sound
  <2>2. day \in Nat /\ day <= day + MaxAge /\ 0 < MaxVersions  BY HistoryAssumption DEF Sound
  <2>. QED  BY <2>1, <2>2 DEF Kept
<1>2. n \in DOMAIN g /\ DOMAIN g \subseteq DOMAIN h
  <2>1. DOMAIN g = {t \in DOMAIN h : Kept(h, t, day)}  BY DEF Pruned
  <2>2. n \in DOMAIN h  BY DEF Newest
  <2>. QED  BY <1>1, <2>1, <2>2
<1>3. Newest(g, n)  BY <1>2 DEF Newest
<1>4. \A s \in DOMAIN g : g[s] = h[s]  BY PrunedRows
<1>5. IsFiniteSet(DOMAIN g)  BY <1>2, FS_Subset DEF Sound
<1>6. ASSUME NEW s \in DOMAIN g, ~ g[s].full PROVE Backed(g, s)
  <2>1. s \in DOMAIN h /\ ~ h[s].full /\ Kept(h, s, day)  BY <1>2, <1>4, <1>6, PrunedRows
  <2>2. ~ Pinned(h[s])  BY <2>1 DEF Sound
  <2>3. PICK u \in DOMAIN h, m \in DOMAIN h : s < u /\ u < m /\ h[u].full
    BY <2>1 DEF Sound, Backed
  <2>4. s < m  BY <2>1, <2>3 DEF Sound
  <2>5. u \in DOMAIN g /\ m \in DOMAIN g
    <3>1. Kept(h, u, day) /\ Kept(h, m, day)  BY <2>1, <2>2, <2>3, <2>4, KeptUpwards
    <3>. QED  BY <3>1 DEF Pruned
  <2>6. g[u].full  BY <1>4, <2>3, <2>5
  <2>. QED  BY <2>3, <2>5, <2>6 DEF Backed
<1>7. \A s \in DOMAIN g, f \in Fields : Sources(g, s, f) # {}
  <2>1. \A s \in DOMAIN g, f \in Fields : Sources(g, s, f) = Sources(h, s, f)
    BY PrunedSources
  <2>. QED  BY <1>2, <2>1 DEF Sound
<1>. HIDE DEF g
<1>8. \A s \in DOMAIN g :
        /\ g[s].full \in BOOLEAN /\ DOMAIN g[s].data \subseteq Fields
        /\ g[s].full => DOMAIN g[s].data = Fields
        /\ Pinned(g[s]) => g[s].full
        /\ g[s].updated \in Nat /\ g[s].updated <= day
        /\ \A t \in DOMAIN g : s < t => g[s].updated <= g[t].updated
  BY <1>2, <1>4 DEF Sound
<1>9. DOMAIN g \subseteq Nat /\ day \in Nat  BY <1>2 DEF Sound
<1>. QED  BY <1>2, <1>3, <1>4, <1>5, <1>6, <1>7, <1>8, <1>9 DEF Sound, g

(***************************************************************************)
(* Recording a version.                                                    *)
(***************************************************************************)
IsRecorded(g, h, n, entry) ==
  /\ Newest(g, n) /\ LatestSeq(g) = n
  /\ g[n].kind = entry.kind /\ g[n].by = entry.by
  /\ g[n].full = TRUE /\ g[n].data = entry.data
  /\ n = LatestSeq(h) \/ n = LatestSeq(h) + 1
  /\ entry.kind # "write" => n = LatestSeq(h) + 1

\* Recording leaves a sound history whose newest version is the entry.
LEMMA RecordedSound ==
  ASSUME NEW h, NEW day, Sound(h, day), NEW entry, IsEntry(entry)
  PROVE  /\ Sound(Recorded(h, entry, day), day)
         /\ \E n : IsRecorded(Recorded(h, entry, day), h, n, entry)
<1>. DEFINE r == Recorded(h, entry, day)
<1>1. CASE Folds(h, entry, day)
  <2>1. r = Folded(h, entry, day)  BY <1>1 DEF Recorded
  <2>2. Sound(r, day)  BY <1>1, <2>1, FoldedSound
  <2>. DEFINE n == LatestSeq(h)
              g == Folded(h, entry, day)
  <2>3. Newest(h, n) /\ DOMAIN g = DOMAIN h /\ g[n] = Stored(h[n], TRUE, entry.data, day)
    BY <1>1, FoldedRows
  <2>4. Newest(g, n)  BY <2>3 DEF Newest
  <2>5. LatestSeq(g) = n  BY <2>1, <2>2, <2>4, LatestIs DEF Sound
  <2>6. entry.kind = "write" /\ h[n].kind = entry.kind /\ h[n].by = entry.by
    BY <1>1 DEF Folds
  <2>7. IsRecorded(g, h, n, entry)
    BY <2>3, <2>4, <2>5, <2>6 DEF IsRecorded, Stored
  <2>. QED  BY <2>1, <2>2, <2>7
<1>2. CASE ~ Folds(h, entry, day)
  <2>. DEFINE n == LatestSeq(h) + 1
              a == Appended(h, entry, day)
              c == Compacted(a)
              g == Pruned(c, day)
  <2>1. r = g  BY <1>2 DEF Recorded
  <2>2. IsAppended(a, h, n, entry, day)  BY AppendedRows
  <2>3. Sound(a, day)  BY AppendedSound
  <2>4. Sound(c, day)  BY <2>3, CompactedSound
  <2>. HIDE DEF a
  <2>5. Newest(a, n) /\ n \in DOMAIN a  BY <2>2 DEF IsAppended, Newest
  <2>6. ~ Crosses(a, n)
    <3>1. Offset(a, n) = 0  BY <2>3, <2>5, OffsetOfNewest DEF Sound
    <3>. QED  BY <3>1, HistoryAssumption DEF Crosses
  <2>7. DOMAIN c = DOMAIN a /\ c[n] = a[n]  BY <2>5, <2>6, CompactedRows
  <2>8. Newest(c, n)  BY <2>5, <2>7 DEF Newest
  <2>. HIDE DEF c
  <2>9. c[n].updated = day  BY <2>2, <2>7 DEF IsAppended
  <2>10. Sound(g, day) /\ Newest(g, n) /\ g[n] = c[n]  BY <2>4, <2>8, <2>9, PrunedSound
  <2>. HIDE DEF g
  <2>11. LatestSeq(g) = n  BY <2>10, LatestIs DEF Sound
  <2>. HIDE DEF n
  <2>12. /\ g[n].kind = entry.kind /\ g[n].by = entry.by
         /\ g[n].full = TRUE /\ g[n].data = entry.data
    BY <2>2, <2>7, <2>10 DEF IsAppended
  <2>13. n = LatestSeq(h) + 1  BY DEF n
  <2>14. IsRecorded(g, h, n, entry)  BY <2>10, <2>11, <2>12, <2>13 DEF IsRecorded
  <2>. QED  BY <2>1, <2>10, <2>14
<1>. QED  BY <1>1, <1>2

\* What has been superseded and is kept reads the same.
LEMMA RecordedLoads ==
  ASSUME NEW h, NEW day, Sound(h, day), NEW entry, IsEntry(entry),
         NEW s \in DOMAIN h, s # LatestSeq(h), s \in DOMAIN Recorded(h, entry, day)
  PROVE  Load(Recorded(h, entry, day), s) = Load(h, s)
<1>1. CASE Folds(h, entry, day)  BY <1>1, FoldedLoads DEF Recorded
<1>2. CASE ~ Folds(h, entry, day)
  <2>. DEFINE a == Appended(h, entry, day)
              c == Compacted(a)
  <2>1. Recorded(h, entry, day) = Pruned(c, day)  BY <1>2 DEF Recorded
  <2>2. Sound(a, day) /\ Load(a, s) = Load(h, s)  BY AppendedSound, AppendedLoads
  <2>3. s \in DOMAIN a  BY DEF Appended
  <2>. HIDE DEF a
  <2>4. Sound(c, day) /\ Load(c, s) = Load(a, s)  BY <2>2, <2>3, CompactedSound, CompactedLoads
  <2>. HIDE DEF c
  <2>5. Load(Pruned(c, day), s) = Load(c, s)  BY <2>1, <2>4, PrunedLoads
  <2>. QED  BY <2>1, <2>2, <2>4, <2>5
<1>. QED  BY <1>1, <1>2

\* The version of a publication stays as it is.
LEMMA RecordedPinned ==
  ASSUME NEW h, NEW day, Sound(h, day), NEW entry, IsEntry(entry),
         NEW s \in DOMAIN h, Pinned(h[s])
  PROVE  s \in DOMAIN Recorded(h, entry, day) /\ Recorded(h, entry, day)[s] = h[s]
<1>1. CASE Folds(h, entry, day)
  <2>1. s # LatestSeq(h)  BY <1>1 DEF Folds, Pinned
  <2>. QED  BY <1>1, <2>1 DEF Recorded, Folded
<1>2. CASE ~ Folds(h, entry, day)
  <2>. DEFINE a == Appended(h, entry, day)
              c == Compacted(a)
  <2>1. Recorded(h, entry, day) = Pruned(c, day)  BY <1>2 DEF Recorded
  <2>2. IsAppended(a, h, LatestSeq(h) + 1, entry, day)  BY AppendedRows
  <2>. HIDE DEF a
  <2>3. s \in DOMAIN a /\ a[s] = h[s]  BY <2>2 DEF IsAppended
  <2>4. ~ Crosses(a, s)  BY <2>3 DEF Crosses
  <2>5. s \in DOMAIN c /\ c[s] = h[s]  BY <2>3, <2>4, CompactedRows
  <2>. HIDE DEF c
  <2>6. Kept(c, s, day)  BY <2>5 DEF Kept
  <2>7. s \in DOMAIN Pruned(c, day)  BY <2>5, <2>6 DEF Pruned
  <2>8. Pruned(c, day)[s] = c[s]  BY <2>7, PrunedRows
  <2>. QED  BY <2>1, <2>5, <2>7, <2>8
<1>. QED  BY <1>1, <1>2

(***************************************************************************)
(* Types: rows by members of B, in a status of S, of values of V.          *)
(***************************************************************************)
RowsOf(B, S, V) ==
  [kind : Kinds, by : B, status : S, full : BOOLEAN,
   data : UNION {[F -> V] : F \in SUBSET Fields}, created : Nat, updated : Nat]

LEMMA RecordedTyped ==
  ASSUME NEW h, NEW day, Sound(h, day), NEW B, NEW S, NEW V,
         \A s \in DOMAIN h : h[s] \in RowsOf(B, S, V),
         NEW entry \in [kind : Kinds, by : B, status : S, data : [Fields -> V]]
  PROVE  LET g == Recorded(h, entry, day)
         IN  /\ DOMAIN g \subseteq DOMAIN h \cup {LatestSeq(h) + 1}
             /\ \A s \in DOMAIN g : g[s] \in RowsOf(B, S, V)
<1>. DEFINE D == UNION {[F -> V] : F \in SUBSET Fields}
<1>0. day \in Nat /\ entry.data \in D /\ IsEntry(entry)  BY DEF Sound, IsEntry
<1>1. \A row \in RowsOf(B, S, V), full \in BOOLEAN, data \in D, u \in Nat :
        Stored(row, full, data, u) \in RowsOf(B, S, V)
  BY DEF Stored, RowsOf
<1>2. Row(entry, day) \in RowsOf(B, S, V)  BY <1>0 DEF Row, RowsOf
<1>3. CASE Folds(h, entry, day)
  <2>1. Recorded(h, entry, day) = Folded(h, entry, day)  BY <1>3 DEF Recorded
  <2>. DEFINE n == LatestSeq(h)
  <2>2. n \in DOMAIN h  BY <1>0, <1>3, FoldedRows DEF Newest
  <2>3. h[n] \in RowsOf(B, S, V)  BY <2>2
  <2>. HIDE DEF n, D
  <2>4. Stored(h[n], TRUE, entry.data, day) \in RowsOf(B, S, V)  BY <1>0, <1>1, <2>3
  <2>. QED  BY <2>1, <2>4 DEF Folded, n
<1>4. CASE ~ Folds(h, entry, day)
  <2>. DEFINE a == Appended(h, entry, day)
              c == Compacted(a)
              g == Pruned(c, day)
  <2>1. Recorded(h, entry, day) = g  BY <1>4 DEF Recorded
  <2>2. DOMAIN a = DOMAIN h \cup {LatestSeq(h) + 1}
        /\ \A s \in DOMAIN a : a[s] \in RowsOf(B, S, V)
    BY <1>2 DEF Appended
  <2>3. Sound(a, day)  BY <1>0, AppendedSound
  <2>. HIDE DEF a
  <2>4. ASSUME NEW s \in DOMAIN a, Crosses(a, s)
        PROVE  ReverseDiff(a, s) \in D /\ a[s].updated \in Nat
    <3>1. PICK v \in DOMAIN a : NextNewer(a, s) = {v}  BY <2>3, <2>4, NextOfCrossing
    <3>2. DOMAIN ReverseDiff(a, s) \subseteq Fields
          /\ \A f \in DOMAIN ReverseDiff(a, s) : ReverseDiff(a, s)[f] = a[s].data[f]
      BY <3>1, ReverseDiffOf
    <3>a. a[s] \in RowsOf(B, S, V)  BY <2>2
    <3>b. a[s].data \in D  BY <3>a DEF RowsOf
    <3>3. PICK F \in SUBSET Fields : a[s].data \in [F -> V]  BY <3>b
    <3>4. DOMAIN a[s].data = Fields  BY <2>3, <2>4 DEF Sound, Crosses
    <3>5. \A f \in Fields : a[s].data[f] \in V  BY <3>3, <3>4
    <3>6. ReverseDiff(a, s) \in [DOMAIN ReverseDiff(a, s) -> V]
      BY <3>2, <3>5 DEF ReverseDiff
    <3>. QED  BY <3>2, <3>6, <2>3 DEF Sound
  <2>5. ASSUME NEW s \in DOMAIN a PROVE c[s] \in RowsOf(B, S, V)
    <3>1. CASE Crosses(a, s)
      <4>1. c[s] = Stored(a[s], FALSE, ReverseDiff(a, s), a[s].updated)  BY <3>1, CompactedRows
      <4>2. a[s] \in RowsOf(B, S, V) /\ ReverseDiff(a, s) \in D /\ a[s].updated \in Nat
        BY <2>2, <2>4, <3>1
      <4>. HIDE DEF D, c
      <4>3. Stored(a[s], FALSE, ReverseDiff(a, s), a[s].updated) \in RowsOf(B, S, V)
        BY <1>1, <4>2
      <4>. QED  BY <4>1, <4>3
    <3>2. CASE ~ Crosses(a, s)  BY <2>2, <3>2, CompactedRows
    <3>. QED  BY <3>1, <3>2
  <2>6. DOMAIN c = DOMAIN a  BY DEF Compacted
  <2>. HIDE DEF c
  <2>7. DOMAIN g \subseteq DOMAIN c /\ \A s \in DOMAIN g : g[s] = c[s]  BY DEF Pruned
  <2>. QED  BY <2>1, <2>2, <2>5, <2>6, <2>7
<1>. QED  BY <1>3, <1>4

-----------------------------------------------------------------------------

HistoryOK ==
  /\ Sound(hist, now)
  /\ There => DOMAIN hist # {} /\ hist[LatestSeq(hist)].data = rec.data

BaseOK ==
  \A c \in Clients, f \in Fields :
    /\ base[c].fv[f] <= rec.fv[f]
    /\ base[c].fv[f] = rec.fv[f] =>
         \/ base[c].data[f] = rec.data[f]
         \/ f \in RelationFields /\ rec.data[f] = Absent

AskOK ==
  ask.stage # "none" =>
    /\ ask.version <= rec.version
    /\ ask.version = rec.version => ask.data = rec.data
    /\ ask.stage = "record" => ~ ask.spent
    /\ ask.stage = "shown" => ask.seq <= LatestSeq(hist)
    /\ ask.stage = "shown" /\ ask.spent => ask.seq < LatestSeq(hist)

RecordInv == RecordTypeOK /\ HistoryOK /\ BaseOK /\ AskOK

(***************************************************************************)
(* What a step that leaves a version does to the history.                  *)
(***************************************************************************)
LEMMA RowTypeIs == RowType = RowsOf(Clients, Statuses, Values \cup {Absent})
BY DEF RowType, RowsOf

LEMMA HistoryNat ==
  ASSUME RecordTypeOK
  PROVE  DOMAIN hist \subseteq Nat /\ MaxSeq \in Nat
BY BoundsAssumption DEF RecordTypeOK

Recorded1(c, kind, data) ==
  /\ Sound(hist', now)
  /\ DOMAIN hist' \subseteq 1 .. MaxSeq
  /\ \A s \in DOMAIN hist' :
       hist'[s] \in RowType /\ (hist'[s].full => hist'[s].data \in Data)
  /\ LatestSeq(hist') \in DOMAIN hist'
  /\ hist'[LatestSeq(hist')].kind = kind /\ hist'[LatestSeq(hist')].by = c
  /\ hist'[LatestSeq(hist')].data = data
  /\ LatestSeq(hist) \in Nat /\ LatestSeq(hist') \in Nat
  /\ LatestSeq(hist) <= LatestSeq(hist')
  /\ kind # "write" => LatestSeq(hist') = LatestSeq(hist) + 1

LEMMA RowDataTyped ==
  ASSUME NEW row \in RowType, DOMAIN row.data \subseteq Fields
  PROVE  /\ row.data \in [DOMAIN row.data -> Values \cup {Absent}]
         /\ DOMAIN row.data = Fields => row.data \in Data
<1>1. row.data \in UNION {[F -> Values \cup {Absent}] : F \in SUBSET Fields}  BY DEF RowType
<1>2. PICK F \in SUBSET Fields : row.data \in [F -> Values \cup {Absent}]  BY <1>1
<1>3. DOMAIN row.data = F  BY <1>2
<1>. QED  BY <1>2, <1>3 DEF Data

LEMMA RecordStep ==
  ASSUME RecordTypeOK, Sound(hist, now),
         NEW c \in Clients, NEW kind \in Kinds, NEW status \in Statuses, NEW data \in Data,
         HasRoom, Record(c, kind, status, data)
  PROVE  Recorded1(c, kind, data)
<1>. DEFINE entry == [kind |-> kind, by |-> c, status |-> status, data |-> data]
            V == Values \cup {Absent}
            L == LatestSeq(hist)
<1>1. entry \in [kind : Kinds, by : Clients, status : Statuses, data : [Fields -> V]]
  BY DEF Data
<1>2. IsEntry(entry)  BY <1>1 DEF IsEntry
<1>3. hist' = Recorded(hist, entry, now)  BY DEF Record
<1>4. entry.kind = kind /\ entry.by = c /\ entry.data = data  OBVIOUS
<1>. HIDE DEF entry
<1>5. Sound(hist', now) /\ \E n : IsRecorded(hist', hist, n, entry)
  BY <1>2, <1>3, RecordedSound
<1>6. PICK n : IsRecorded(hist', hist, n, entry)  BY <1>5
<1>7. \A s \in DOMAIN hist : hist[s] \in RowsOf(Clients, Statuses, V)
  BY RowTypeIs DEF RecordTypeOK
<1>8. /\ DOMAIN hist' \subseteq DOMAIN hist \cup {L + 1}
      /\ \A s \in DOMAIN hist' : hist'[s] \in RowsOf(Clients, Statuses, V)
  <2>. HIDE DEF V, L
  <2>1. LET g == Recorded(hist, entry, now)
        IN  /\ DOMAIN g \subseteq DOMAIN hist \cup {LatestSeq(hist) + 1}
            /\ \A s \in DOMAIN g : g[s] \in RowsOf(Clients, Statuses, V)
    BY <1>1, <1>7, RecordedTyped
  <2>. QED  BY <1>3, <2>1 DEF L
<1>9. ASSUME NEW s \in DOMAIN hist'
      PROVE  hist'[s] \in RowType /\ (hist'[s].full => hist'[s].data \in Data)
  <2>1. hist'[s] \in RowType  BY <1>8, RowTypeIs
  <2>2. DOMAIN hist'[s].data \subseteq Fields /\ (hist'[s].full => DOMAIN hist'[s].data = Fields)
    BY <1>5 DEF Sound
  <2>. QED  BY <2>1, <2>2, RowDataTyped
<1>10. L \in Nat /\ \A s \in DOMAIN hist : s <= L  BY LatestNat
<1>11. DOMAIN hist' \subseteq 1 .. MaxSeq
  <2>1. L + 1 \in 1 .. MaxSeq  BY <1>10, BoundsAssumption DEF HasRoom
  <2>. QED  BY <1>8, <2>1 DEF RecordTypeOK
<1>12. /\ n \in DOMAIN hist' /\ LatestSeq(hist') = n
       /\ hist'[n].kind = kind /\ hist'[n].by = c /\ hist'[n].data = data
       /\ n = L \/ n = L + 1
       /\ kind # "write" => n = L + 1
  BY <1>4, <1>6 DEF IsRecorded, Newest
<1>13. n \in Nat /\ L <= n  BY <1>10, <1>12
<1>. QED  BY <1>5, <1>9, <1>10, <1>11, <1>12, <1>13 DEF Recorded1

\* What is read back are values.
LEMMA LoadTyped ==
  ASSUME RecordTypeOK, Sound(hist, now), NEW s \in DOMAIN hist
  PROVE  Load(hist, s) \in Data
<1>1. ASSUME NEW f \in Fields
      PROVE  hist[TheOne(Sources(hist, s, f))].data[f] \in Values \cup {Absent}
  <2>1. PICK t \in DOMAIN hist : Sources(hist, s, f) = {t}  BY SourcesSingle
  <2>2. TheOne(Sources(hist, s, f)) = t  BY <2>1, TheOneOf
  <2>3. Holds(hist[t], f)  BY <2>1 DEF Sources
  <2>4. hist[t] \in RowType  BY DEF RecordTypeOK
  <2>5. DOMAIN hist[t].data \subseteq Fields /\ (hist[t].full => DOMAIN hist[t].data = Fields)
    BY DEF Sound
  <2>6. hist[t].data \in [DOMAIN hist[t].data -> Values \cup {Absent}]  BY <2>4, <2>5, RowDataTyped
  <2>7. f \in DOMAIN hist[t].data  BY <2>3, <2>5 DEF Holds
  <2>. QED  BY <2>2, <2>6, <2>7
<1>. QED  BY <1>1 DEF Load, Data

(***************************************************************************)
(* The four sorts of steps.                                                *)
(***************************************************************************)
WriteStep(c, kind, status, data) ==
  /\ \E force \in BOOLEAN : Write(c, kind, status, data, force)
  /\ kind \in {"write", "restore"}
  /\ kind = "write" /\ rec.version # 0 => Conflicts(c, data) = {}
  /\ UNCHANGED <<published, base, ask, now>>

PublishStep(c, kind) ==
  /\ There /\ HasRoom
  /\ kind \in {"publish", "unpublish"} /\ Record(c, kind, rec.status, rec.data)
  /\ published' \in {0, rec.version}
  /\ \/ c \in People /\ ask' = ask
     \/ c \in Agents /\ Expected /\ ask' = [ask EXCEPT !.spent = TRUE]
  /\ UNCHANGED <<rec, base, now>>

QuietStep ==
  \/ \E c \in Clients : Read(c)
  \/ AskRecord \/ AskHistory \/ RecordTick
  \/ UNCHANGED recordVars

LEMMA StepKinds ==
  ASSUME RecordTypeOK, Sound(hist, now), [RecordNext]_recordVars
  PROVE  \/ \E c \in Clients, kind \in Kinds, status \in Statuses, data \in Data :
              WriteStep(c, kind, status, data)
         \/ \E c \in Clients : Delete(c)
         \/ \E c \in Clients, kind \in Kinds : PublishStep(c, kind)
         \/ QuietStep
<1>1. "write" \in Kinds /\ "restore" \in Kinds /\ "publish" \in Kinds /\ "unpublish" \in Kinds
  BY DEF Kinds
<1>2. CASE UNCHANGED recordVars  BY <1>2 DEF QuietStep
<1>3. CASE AskRecord \/ AskHistory \/ RecordTick  BY <1>3 DEF QuietStep
<1>4. ASSUME NEW c \in Clients,
             \/ Create(c) \/ Read(c) \/ Restore(c) \/ Delete(c)
             \/ SyncPush(c) \/ RecordUpdate(c)
             \/ Publish(c) \/ Unpublish(c)
             \/ ConfirmedPublish(c) \/ ConfirmedUnpublish(c)
      PROVE  \/ \E kind \in Kinds, status \in Statuses, data \in Data :
                  WriteStep(c, kind, status, data)
             \/ Delete(c) \/ Read(c)
             \/ \E kind \in Kinds : PublishStep(c, kind)
  <2>1. CASE Create(c)
    <3>1. PICK data \in Data, status \in Statuses : Write(c, "write", status, data, FALSE)
      BY <2>1 DEF Create
    <3>2. rec.version = 0 /\ UNCHANGED <<published, base, ask, now>>  BY <2>1 DEF Create
    <3>3. WriteStep(c, "write", status, data)  BY <3>1, <3>2 DEF WriteStep
    <3>. QED  BY <1>1, <3>3
  <2>2. CASE Read(c)  BY <2>2
  <2>3. CASE Restore(c)
    <3>1. PICK s \in DOMAIN hist :
            Write(c, "restore", hist[s].status, Load(hist, s), rec.deleted)
      BY <2>3 DEF Restore
    <3>2. UNCHANGED <<published, base, ask, now>>  BY <2>3 DEF Restore
    <3>3. rec.deleted \in BOOLEAN /\ hist[s].status \in Statuses  BY DEF RecordTypeOK, RowType
    <3>4. Load(hist, s) \in Data  BY LoadTyped
    <3>5. WriteStep(c, "restore", hist[s].status, Load(hist, s))
      BY <3>1, <3>2, <3>3 DEF WriteStep
    <3>. QED  BY <1>1, <3>3, <3>4, <3>5
  <2>4. CASE Delete(c)  BY <2>4
  <2>5. CASE SyncPush(c)
    <3>1. PICK data \in Data, status \in Statuses :
            Conflicts(c, data) = {} /\ Write(c, "write", status, data, FALSE)
      BY <2>5 DEF SyncPush
    <3>2. UNCHANGED <<published, base, ask, now>>  BY <2>5 DEF SyncPush
    <3>3. WriteStep(c, "write", status, data)  BY <3>1, <3>2 DEF WriteStep
    <3>. QED  BY <1>1, <3>3
  <2>6. CASE RecordUpdate(c)
    <3>1. PICK data \in Data, status \in Statuses :
            Conflicts(c, data) = {} /\ Write(c, "write", status, data, FALSE)
      BY <2>6 DEF RecordUpdate
    <3>2. UNCHANGED <<published, base, ask, now>>  BY <2>6 DEF RecordUpdate
    <3>3. WriteStep(c, "write", status, data)  BY <3>1, <3>2 DEF WriteStep
    <3>. QED  BY <1>1, <3>3
  <2>7. CASE Publish(c)
    <3>1. PublishStep(c, "publish")  BY <2>7 DEF Publish, PublishCore, PublishStep
    <3>. QED  BY <1>1, <3>1
  <2>8. CASE Unpublish(c)
    <3>1. PublishStep(c, "unpublish")
      BY <2>8 DEF Unpublish, UnpublishCore, PublishStep, RecordTypeOK
    <3>. QED  BY <1>1, <3>1
  <2>9. CASE ConfirmedPublish(c)
    <3>1. PublishStep(c, "publish")  BY <2>9 DEF ConfirmedPublish, PublishCore, PublishStep
    <3>. QED  BY <1>1, <3>1
  <2>10. CASE ConfirmedUnpublish(c)
    <3>1. PublishStep(c, "unpublish")
      BY <2>10 DEF ConfirmedUnpublish, UnpublishCore, PublishStep, RecordTypeOK
    <3>. QED  BY <1>1, <3>1
  <2>. QED  BY <1>4, <2>1, <2>2, <2>3, <2>4, <2>5, <2>6, <2>7, <2>8, <2>9, <2>10
<1>5. CASE \E c \in Clients :
             \/ Create(c) \/ Read(c) \/ Restore(c) \/ Delete(c)
             \/ SyncPush(c) \/ RecordUpdate(c)
             \/ Publish(c) \/ Unpublish(c)
             \/ ConfirmedPublish(c) \/ ConfirmedUnpublish(c)
  BY <1>4, <1>5 DEF QuietStep
<1>. QED  BY <1>2, <1>3, <1>5 DEF RecordNext

\* What a write does to the record.
WrittenRec(status, data) ==
  /\ rec'.data = data /\ rec'.status = status /\ rec'.version = rec.version + 1
  /\ rec'.deleted = FALSE
  /\ rec' \in [data : Data, fv : [Fields -> Nat],
               status : Statuses, version : Nat, deleted : BOOLEAN]
  /\ \A f \in Fields :
       rec'.fv[f] = IF data[f] # rec.data[f] THEN rec.fv[f] + 1 ELSE rec.fv[f]

LEMMA WriteRec ==
  ASSUME RecordTypeOK, NEW c \in Clients, NEW kind \in Kinds, NEW status \in Statuses,
         NEW data \in Data, WriteStep(c, kind, status, data)
  PROVE  HasRoom /\ Record(c, kind, status, data) /\ WrittenRec(status, data)
<1>. DEFINE fv == [f \in Fields |-> IF f \in Changed(data) THEN rec.fv[f] + 1 ELSE rec.fv[f]]
<1>1. /\ HasRoom /\ Record(c, kind, status, data)
      /\ rec' = [data |-> data, status |-> status, deleted |-> FALSE,
                 fv |-> fv, version |-> rec.version + 1]
  BY DEF WriteStep, Write
<1>2. \A f \in Fields : rec.fv[f] \in Nat  BY DEF RecordTypeOK
<1>3. rec.version \in Nat  BY DEF RecordTypeOK
<1>4. fv \in [Fields -> Nat]  BY <1>2
<1>5. \A f \in Fields : fv[f] = IF data[f] # rec.data[f] THEN rec.fv[f] + 1 ELSE rec.fv[f]
  BY DEF Changed
<1>. HIDE DEF fv
<1>. QED  BY <1>1, <1>3, <1>4, <1>5 DEF WrittenRec

LEMMA DeleteRec ==
  ASSUME RecordTypeOK, NEW c \in Clients, Delete(c)
  PROVE  /\ HasRoom /\ Record(c, "delete", rec.status, rec.data) /\ There
         /\ rec'.version = rec.version + 1 /\ rec'.deleted = TRUE
         /\ rec'.fv = rec.fv
         /\ rec' \in [data : Data, fv : [Fields -> Nat],
                      status : Statuses, version : Nat, deleted : BOOLEAN]
         /\ \A f \in Fields :
              rec'.data[f] = IF f \in RelationFields THEN Absent ELSE rec.data[f]
         /\ published' = 0 /\ UNCHANGED <<base, ask, now>>
<1>. DEFINE data == [f \in Fields |-> IF f \in RelationFields THEN Absent ELSE rec.data[f]]
<1>1. /\ HasRoom /\ Record(c, "delete", rec.status, rec.data) /\ There
      /\ rec' = [data |-> data, fv |-> rec.fv, status |-> rec.status,
                 version |-> rec.version + 1, deleted |-> TRUE]
      /\ published' = 0 /\ UNCHANGED <<base, ask, now>>
  BY DEF Delete, CascadeUnpublish
<1>2. data \in Data  BY DEF RecordTypeOK, Data
<1>3. rec.fv \in [Fields -> Nat] /\ rec.status \in Statuses /\ rec.version \in Nat
  BY DEF RecordTypeOK
<1>4. \A f \in Fields : data[f] = IF f \in RelationFields THEN Absent ELSE rec.data[f]
  OBVIOUS
<1>. HIDE DEF data
<1>. QED  BY <1>1, <1>2, <1>3, <1>4

(***************************************************************************)
(* The invariant.                                                          *)
(***************************************************************************)
\* What the steps that leave a version do to the history.
LEMMA StepRecords ==
  ASSUME RecordInv, NEW c \in Clients, NEW kind \in Kinds, NEW status \in Statuses,
         NEW data \in Data, WriteStep(c, kind, status, data)
  PROVE  Recorded1(c, kind, data)
<1>1. HasRoom /\ Record(c, kind, status, data)  BY WriteRec DEF RecordInv
<1>. QED  BY <1>1, RecordStep DEF RecordInv, HistoryOK

LEMMA DeleteRecords ==
  ASSUME RecordInv, NEW c \in Clients, Delete(c)
  PROVE  Recorded1(c, "delete", rec.data)
<1>1. HasRoom /\ Record(c, "delete", rec.status, rec.data)  BY DeleteRec DEF RecordInv
<1>2. rec.status \in Statuses /\ rec.data \in Data  BY DEF RecordInv, RecordTypeOK
<1>3. "delete" \in Kinds  BY DEF Kinds
<1>. QED  BY <1>1, <1>2, <1>3, RecordStep DEF RecordInv, HistoryOK

LEMMA PublishRecords ==
  ASSUME RecordInv, NEW c \in Clients, NEW kind \in Kinds, PublishStep(c, kind)
  PROVE  Recorded1(c, kind, rec.data)
<1>1. HasRoom /\ Record(c, kind, rec.status, rec.data)  BY DEF PublishStep
<1>2. rec.status \in Statuses /\ rec.data \in Data  BY DEF RecordInv, RecordTypeOK
<1>. QED  BY <1>1, <1>2, RecordStep DEF RecordInv, HistoryOK

HistTyped ==
  /\ DOMAIN hist \subseteq 1 .. MaxSeq
  /\ \A s \in DOMAIN hist :
       hist[s] \in RowType /\ (hist[s].full => hist[s].data \in Data)

LEMMA InitInv == RecordInit => RecordInv
<1>. SUFFICES ASSUME RecordInit PROVE RecordInv  OBVIOUS
<1>1. Nothing \in Data /\ NoRecord.fv \in [Fields -> Nat]  BY DEF Nothing, Data, NoRecord
<1>2. NoRecord \in [data : Data, fv : [Fields -> Nat], status : Statuses,
                    version : Nat, deleted : BOOLEAN]
  BY <1>1, StatusesAssumption DEF NoRecord
<1>3. NoAsk \in [stage : {"none", "record", "shown"}, version : Nat, seq : Nat,
                 data : Data, spent : BOOLEAN]
  BY <1>1 DEF NoAsk
<1>4. base \in [Clients -> [data : Data, fv : [Fields -> Nat]]]  BY <1>1 DEF RecordInit
<1>5. DOMAIN hist = {}  BY DEF RecordInit
<1>6. ~ There /\ published = 0 /\ rec.version = 0  BY DEF RecordInit, There, NoRecord
<1>7. RecordTypeOK
  BY <1>2, <1>3, <1>4, <1>5, <1>6 DEF RecordInit, RecordTypeOK
<1>8. HistoryOK
  <2>1. IsFiniteSet(DOMAIN hist)  BY <1>5, FS_EmptySet
  <2>. QED  BY <1>5, <1>6, <2>1 DEF HistoryOK, Sound, RecordInit
<1>9. BaseOK
  BY <1>1 DEF BaseOK, RecordInit, NoRecord
<1>10. AskOK  BY DEF AskOK, RecordInit, NoAsk
<1>. QED  BY <1>7, <1>8, <1>9, <1>10 DEF RecordInv

LEMMA WriteInv ==
  ASSUME RecordInv, NEW c \in Clients, NEW kind \in Kinds, NEW status \in Statuses,
         NEW data \in Data, WriteStep(c, kind, status, data)
  PROVE  RecordInv'
<1>1. Recorded1(c, kind, data)  BY StepRecords
<1>2. /\ rec'.data = data /\ rec'.version = rec.version + 1 /\ rec'.deleted = FALSE
      /\ rec' \in [data : Data, fv : [Fields -> Nat],
                   status : Statuses, version : Nat, deleted : BOOLEAN]
      /\ \A f \in Fields :
           rec'.fv[f] = IF data[f] # rec.data[f] THEN rec.fv[f] + 1 ELSE rec.fv[f]
  <2>1. WrittenRec(status, data)  BY WriteRec DEF RecordInv
  <2>. QED  BY <2>1 DEF WrittenRec
<1>3. UNCHANGED <<published, base, ask, now>>  BY DEF WriteStep
<1>4. rec.version \in Nat /\ \A f \in Fields : rec.fv[f] \in Nat
  BY DEF RecordInv, RecordTypeOK
<1>5. RecordTypeOK'
  <2>1. There'  BY <1>2, <1>4 DEF There
  <2>2. published' \in 0 .. rec'.version
    BY <1>2, <1>3, <1>4 DEF RecordInv, RecordTypeOK
  <2>3. HistTyped'  BY <1>1 DEF Recorded1, HistTyped
  <2>. QED  BY <1>2, <1>3, <2>1, <2>2, <2>3 DEF RecordInv, RecordTypeOK, HistTyped
<1>6. HistoryOK'  BY <1>1, <1>2, <1>3 DEF HistoryOK, Recorded1
<1>7. BaseOK'
  <2>. SUFFICES ASSUME NEW d \in Clients, NEW f \in Fields
       PROVE  /\ base[d].fv[f] <= rec'.fv[f]
              /\ base[d].fv[f] = rec'.fv[f] =>
                   \/ base[d].data[f] = rec'.data[f]
                   \/ f \in RelationFields /\ rec'.data[f] = Absent
    BY <1>3 DEF BaseOK
  <2>1. base[d].fv[f] \in Nat  BY DEF RecordInv, RecordTypeOK
  <2>2. /\ base[d].fv[f] <= rec.fv[f]
        /\ base[d].fv[f] = rec.fv[f] =>
             \/ base[d].data[f] = rec.data[f]
             \/ f \in RelationFields /\ rec.data[f] = Absent
    BY DEF RecordInv, BaseOK
  <2>3. CASE data[f] # rec.data[f]
    <3>1. rec'.fv[f] = rec.fv[f] + 1  BY <1>2, <2>3
    <3>2. base[d].fv[f] <= rec'.fv[f] /\ base[d].fv[f] # rec'.fv[f]
      BY <1>4, <2>1, <2>2, <3>1
    <3>. QED  BY <3>2
  <2>4. CASE data[f] = rec.data[f]
    <3>1. rec'.fv[f] = rec.fv[f] /\ rec'.data[f] = rec.data[f]  BY <1>2, <2>4
    <3>. QED  BY <2>2, <3>1
  <2>. QED  BY <2>3, <2>4
<1>8. AskOK'
  <2>1. LatestSeq(hist) \in Nat /\ LatestSeq(hist') \in Nat /\ LatestSeq(hist) <= LatestSeq(hist')
    BY <1>1 DEF Recorded1
  <2>2. ask.version \in Nat /\ ask.seq \in Nat  BY DEF RecordInv, RecordTypeOK
  <2>. QED  BY <1>2, <1>3, <1>4, <2>1, <2>2 DEF RecordInv, AskOK
<1>. QED  BY <1>5, <1>6, <1>7, <1>8 DEF RecordInv

LEMMA DeleteInv ==
  ASSUME RecordInv, NEW c \in Clients, Delete(c)
  PROVE  RecordInv'
<1>1. Recorded1(c, "delete", rec.data)  BY DeleteRecords
<1>2. /\ rec'.version = rec.version + 1 /\ rec'.deleted = TRUE /\ rec'.fv = rec.fv
      /\ rec' \in [data : Data, fv : [Fields -> Nat],
                   status : Statuses, version : Nat, deleted : BOOLEAN]
      /\ \A f \in Fields :
           rec'.data[f] = IF f \in RelationFields THEN Absent ELSE rec.data[f]
      /\ published' = 0 /\ UNCHANGED <<base, ask, now>>
  BY DeleteRec DEF RecordInv
<1>3. rec.version \in Nat  BY DEF RecordInv, RecordTypeOK
<1>4. RecordTypeOK'
  <2>1. published' \in 0 .. rec'.version  BY <1>2, <1>3
  <2>2. HistTyped'  BY <1>1 DEF Recorded1, HistTyped
  <2>. QED  BY <1>2, <2>1, <2>2 DEF RecordInv, RecordTypeOK, HistTyped
<1>5. HistoryOK'
  <2>1. ~ There'  BY <1>2 DEF There
  <2>. QED  BY <1>1, <1>2, <2>1 DEF HistoryOK, Recorded1
<1>6. BaseOK'
  <2>. SUFFICES ASSUME NEW d \in Clients, NEW f \in Fields
       PROVE  /\ base[d].fv[f] <= rec.fv[f]
              /\ base[d].fv[f] = rec.fv[f] =>
                   \/ base[d].data[f] = rec'.data[f]
                   \/ f \in RelationFields /\ rec'.data[f] = Absent
    BY <1>2 DEF BaseOK
  <2>1. /\ base[d].fv[f] <= rec.fv[f]
        /\ base[d].fv[f] = rec.fv[f] =>
             \/ base[d].data[f] = rec.data[f]
             \/ f \in RelationFields /\ rec.data[f] = Absent
    BY DEF RecordInv, BaseOK
  <2>2. rec'.data[f] = IF f \in RelationFields THEN Absent ELSE rec.data[f]  BY <1>2
  <2>. QED  BY <2>1, <2>2
<1>7. AskOK'
  <2>1. LatestSeq(hist) \in Nat /\ LatestSeq(hist') \in Nat /\ LatestSeq(hist) <= LatestSeq(hist')
    BY <1>1 DEF Recorded1
  <2>2. ask.version \in Nat /\ ask.seq \in Nat  BY DEF RecordInv, RecordTypeOK
  <2>. QED  BY <1>2, <1>3, <2>1, <2>2 DEF RecordInv, AskOK
<1>. QED  BY <1>4, <1>5, <1>6, <1>7 DEF RecordInv

LEMMA PublishInv ==
  ASSUME RecordInv, NEW c \in Clients, NEW kind \in Kinds, PublishStep(c, kind)
  PROVE  RecordInv'
<1>1. Recorded1(c, kind, rec.data)  BY PublishRecords
<1>2. /\ There /\ published' \in {0, rec.version} /\ kind # "write"
      /\ \/ c \in People /\ ask' = ask
         \/ c \in Agents /\ Expected /\ ask' = [ask EXCEPT !.spent = TRUE]
      /\ UNCHANGED <<rec, base, now>>
  BY DEF PublishStep
<1>3. rec.version \in Nat  BY DEF RecordInv, RecordTypeOK
<1>4. ask \in [stage : {"none", "record", "shown"}, version : Nat, seq : Nat,
               data : Data, spent : BOOLEAN]
  BY DEF RecordInv, RecordTypeOK
<1>5. RecordTypeOK'
  <2>1. published' \in 0 .. rec'.version  BY <1>2, <1>3
  <2>2. HistTyped'  BY <1>1 DEF Recorded1, HistTyped
  <2>3. There'  BY <1>2 DEF There
  <2>4. ask' \in [stage : {"none", "record", "shown"}, version : Nat, seq : Nat,
                  data : Data, spent : BOOLEAN]
    BY <1>2, <1>4
  <2>. QED  BY <1>2, <2>1, <2>2, <2>3, <2>4 DEF RecordInv, RecordTypeOK, HistTyped
<1>6. HistoryOK'
  BY <1>1, <1>2 DEF HistoryOK, Recorded1, There
<1>7. BaseOK'  BY <1>2 DEF RecordInv, BaseOK
<1>8. AskOK'
  <2>1. /\ LatestSeq(hist) \in Nat /\ LatestSeq(hist') \in Nat
        /\ LatestSeq(hist') = LatestSeq(hist) + 1
    BY <1>1, <1>2 DEF Recorded1
  <2>2. CASE ask' = ask  BY <1>2, <1>4, <2>1, <2>2 DEF RecordInv, AskOK
  <2>3. CASE Expected /\ ask' = [ask EXCEPT !.spent = TRUE]
    <3>1. /\ ask'.stage = "shown" /\ ask'.version = ask.version /\ ask'.seq = LatestSeq(hist)
          /\ ask'.data = ask.data
      BY <1>4, <2>3 DEF Expected
    <3>2. ask.version = rec.version /\ ask.data = rec.data
      BY <2>3 DEF Expected, RecordInv, AskOK
    <3>. QED  BY <1>2, <1>3, <2>1, <3>1, <3>2 DEF AskOK
  <2>. QED  BY <1>2, <2>2, <2>3
<1>. QED  BY <1>5, <1>6, <1>7, <1>8 DEF RecordInv

LEMMA QuietInv == ASSUME RecordInv, QuietStep PROVE RecordInv'
<1>1. rec \in [data : Data, fv : [Fields -> Nat], status : Statuses,
               version : Nat, deleted : BOOLEAN]
  BY DEF RecordInv, RecordTypeOK
<1>2. base \in [Clients -> [data : Data, fv : [Fields -> Nat]]]
  BY DEF RecordInv, RecordTypeOK
<1>3. ask \in [stage : {"none", "record", "shown"}, version : Nat, seq : Nat,
               data : Data, spent : BOOLEAN]
  BY DEF RecordInv, RecordTypeOK
<1>4. LatestSeq(hist) \in Nat  BY LatestNat DEF RecordInv, HistoryOK
<1>5. ASSUME NEW c \in Clients, Read(c) PROVE RecordInv'
  <2>1. /\ base' = [base EXCEPT ![c] = [data |-> rec.data, fv |-> rec.fv]]
        /\ UNCHANGED <<rec, hist, published, ask, now>>
    BY <1>5 DEF Read
  <2>2. base' \in [Clients -> [data : Data, fv : [Fields -> Nat]]]  BY <1>1, <1>2, <2>1
  <2>3. RecordTypeOK'  BY <2>1, <2>2 DEF RecordInv, RecordTypeOK, There
  <2>4. HistoryOK' /\ AskOK'  BY <2>1 DEF RecordInv, HistoryOK, AskOK, There
  <2>5. BaseOK'
    <3>. SUFFICES ASSUME NEW d \in Clients, NEW f \in Fields
         PROVE  /\ base'[d].fv[f] <= rec.fv[f]
                /\ base'[d].fv[f] = rec.fv[f] =>
                     \/ base'[d].data[f] = rec.data[f]
                     \/ f \in RelationFields /\ rec.data[f] = Absent
      BY <2>1 DEF BaseOK
    <3>1. CASE d = c
      <4>1. base'[d].fv = rec.fv /\ base'[d].data = rec.data  BY <1>2, <2>1, <3>1
      <4>2. rec.fv[f] \in Nat  BY <1>1
      <4>. QED  BY <4>1, <4>2
    <3>2. CASE d # c
      <4>1. base'[d] = base[d]  BY <1>2, <2>1, <3>2
      <4>. QED  BY <4>1 DEF RecordInv, BaseOK
    <3>. QED  BY <3>1, <3>2
  <2>. QED  BY <2>3, <2>4, <2>5 DEF RecordInv
<1>6. CASE AskRecord
  <2>1. /\ ask' = [stage |-> "record", version |-> rec.version, seq |-> 0,
                   data |-> rec.data, spent |-> FALSE]
        /\ UNCHANGED <<rec, hist, published, base, now>>
    BY <1>6 DEF AskRecord
  <2>2. ask' \in [stage : {"none", "record", "shown"}, version : Nat, seq : Nat,
                  data : Data, spent : BOOLEAN]
    BY <1>1, <2>1
  <2>3. RecordTypeOK'  BY <2>1, <2>2 DEF RecordInv, RecordTypeOK, There
  <2>4. HistoryOK' /\ BaseOK'  BY <2>1 DEF RecordInv, HistoryOK, BaseOK, There
  <2>5. AskOK'  BY <1>1, <2>1 DEF AskOK
  <2>. QED  BY <2>3, <2>4, <2>5 DEF RecordInv
<1>7. CASE AskHistory
  <2>1. /\ ask.stage = "record"
        /\ ask' = [ask EXCEPT !.stage = "shown", !.seq = LatestSeq(hist)]
        /\ UNCHANGED <<rec, hist, published, base, now>>
    BY <1>7 DEF AskHistory
  <2>2. /\ ask'.stage = "shown" /\ ask'.seq = LatestSeq(hist) /\ ask'.version = ask.version
        /\ ask'.data = ask.data /\ ask'.spent = ask.spent
    BY <1>3, <2>1
  <2>3. ask' \in [stage : {"none", "record", "shown"}, version : Nat, seq : Nat,
                  data : Data, spent : BOOLEAN]
    BY <1>3, <1>4, <2>1
  <2>4. RecordTypeOK'  BY <2>1, <2>3 DEF RecordInv, RecordTypeOK, There
  <2>5. HistoryOK' /\ BaseOK'  BY <2>1 DEF RecordInv, HistoryOK, BaseOK, There
  <2>6. /\ ask.version <= rec.version /\ (ask.version = rec.version => ask.data = rec.data)
        /\ ~ ask.spent
    BY <2>1 DEF RecordInv, AskOK
  <2>7. AskOK'  BY <1>4, <2>1, <2>2, <2>6 DEF AskOK
  <2>. QED  BY <2>4, <2>5, <2>7 DEF RecordInv
<1>8. CASE RecordTick
  <2>1. now' = now + 1 /\ UNCHANGED <<rec, hist, published, base, ask>>
    BY <1>8 DEF RecordTick
  <2>2. now \in Nat /\ now + 1 \in Nat  BY DEF RecordInv, RecordTypeOK
  <2>3. RecordTypeOK'  BY <2>1, <2>2 DEF RecordInv, RecordTypeOK, There
  <2>4. Sound(hist, now + 1)
    <3>1. Sound(hist, now)  BY DEF RecordInv, HistoryOK
    <3>2. \A s \in DOMAIN hist : hist[s].updated \in Nat /\ hist[s].updated <= now + 1
      BY <2>2, <3>1 DEF Sound
    <3>. QED  BY <2>2, <3>1, <3>2 DEF Sound
  <2>5. HistoryOK'  BY <2>1, <2>4 DEF RecordInv, HistoryOK, There
  <2>6. BaseOK' /\ AskOK'  BY <2>1 DEF RecordInv, BaseOK, AskOK
  <2>. QED  BY <2>3, <2>5, <2>6 DEF RecordInv
<1>9. CASE UNCHANGED recordVars
  BY <1>9 DEF recordVars, RecordInv, RecordTypeOK, HistoryOK, BaseOK, AskOK, There
<1>. QED  BY <1>5, <1>6, <1>7, <1>8, <1>9 DEF QuietStep

LEMMA NextInv == RecordInv /\ [RecordNext]_recordVars => RecordInv'
<1>. SUFFICES ASSUME RecordInv, [RecordNext]_recordVars PROVE RecordInv'  OBVIOUS
<1>1. RecordTypeOK /\ Sound(hist, now)  BY DEF RecordInv, HistoryOK
<1>. QED  BY <1>1, StepKinds, WriteInv, DeleteInv, PublishInv, QuietInv

LEMMA Invariant == RecordSpec => []RecordInv
<1>. QED  BY InitInv, NextInv, PTL DEF RecordSpec

(***************************************************************************)
(* The theorems.                                                           *)
(***************************************************************************)
\* The versions, what is published and what was read or asked have their types,
\* and bind one another as RecordTypeOK says.
THEOREM RecordTyped == RecordSpec => []RecordTypeOK
<1>1. RecordInv => RecordTypeOK  BY DEF RecordInv
<1>. QED  BY <1>1, Invariant, PTL

\* The newest version of a record that is there reads as the record, through
\* every write, folded or appended, restoration and publication.
THEOREM LatestStaysCurrent == RecordSpec => []LatestIsCurrent
<1>1. ASSUME RecordInv PROVE LatestIsCurrent
  <2>. SUFFICES ASSUME There PROVE Load(hist, LatestSeq(hist)) = rec.data
    BY DEF LatestIsCurrent
  <2>. DEFINE n == LatestSeq(hist)
  <2>1. Sound(hist, now) /\ DOMAIN hist # {} /\ hist[n].data = rec.data
    BY <1>1 DEF RecordInv, HistoryOK
  <2>2. Newest(hist, n)  BY <2>1, LatestNewest
  <2>. HIDE DEF n
  <2>3. n \in DOMAIN hist /\ DOMAIN hist \subseteq Nat  BY <2>1, <2>2 DEF Newest, Sound
  <2>4. hist[n].full
    <3>. SUFFICES ASSUME ~ hist[n].full PROVE FALSE  OBVIOUS
    <3>1. PICK u \in DOMAIN hist, m \in DOMAIN hist : n < u /\ u < m
      BY <2>1, <2>3 DEF Sound, Backed
    <3>. QED  BY <2>2, <2>3, <3>1 DEF Newest
  <2>5. Load(hist, n) = [f \in Fields |-> hist[n].data[f]]  BY <2>3, <2>4, LoadOfFull
  <2>6. rec.data \in [Fields -> Values \cup {Absent}]
    BY <1>1 DEF RecordInv, RecordTypeOK, Data
  <2>7. [f \in Fields |-> rec.data[f]] = rec.data  BY <2>6
  <2>. QED  BY <2>1, <2>5, <2>7 DEF n
<1>2. RecordInv => LatestIsCurrent  BY <1>1
<1>. QED  BY <1>2, Invariant, PTL

\* Every step leaves the history as it is or records one version.
LEMMA StepOfHistory ==
  ASSUME RecordInv, [RecordNext]_recordVars
  PROVE  \/ hist' = hist
         \/ \E entry : IsEntry(entry) /\ hist' = Recorded(hist, entry, now)
<1>1. RecordTypeOK /\ Sound(hist, now)  BY DEF RecordInv, HistoryOK
<1>2. ASSUME NEW c \in Clients, NEW kind \in Kinds, NEW status \in Statuses,
             NEW data \in Data, Record(c, kind, status, data)
      PROVE  \E entry : IsEntry(entry) /\ hist' = Recorded(hist, entry, now)
  <2>. DEFINE entry == [kind |-> kind, by |-> c, status |-> status, data |-> data]
  <2>1. hist' = Recorded(hist, entry, now)  BY <1>2 DEF Record
  <2>2. entry.data = data /\ DOMAIN data = Fields  BY DEF Data
  <2>. HIDE DEF entry
  <2>3. IsEntry(entry)  BY <2>2 DEF IsEntry
  <2>. QED  BY <2>1, <2>3
<1>3. rec.status \in Statuses /\ rec.data \in Data  BY <1>1 DEF RecordTypeOK
<1>4. ASSUME NEW c \in Clients, NEW kind \in Kinds, NEW status \in Statuses, NEW data \in Data,
             WriteStep(c, kind, status, data)
      PROVE  Record(c, kind, status, data)
  BY <1>4 DEF WriteStep, Write
<1>5. ASSUME NEW c \in Clients, Delete(c)
      PROVE  "delete" \in Kinds /\ Record(c, "delete", rec.status, rec.data)
  BY <1>5 DEF Delete, Kinds
<1>6. ASSUME NEW c \in Clients, NEW kind \in Kinds, PublishStep(c, kind)
      PROVE  Record(c, kind, rec.status, rec.data)
  BY <1>6 DEF PublishStep
<1>7. CASE QuietStep
  BY <1>7 DEF QuietStep, Read, AskRecord, AskHistory, RecordTick, recordVars
<1>8. CASE \E c \in Clients, kind \in Kinds, status \in Statuses, data \in Data :
             WriteStep(c, kind, status, data)
  BY <1>2, <1>4, <1>8
<1>9. CASE \E c \in Clients : Delete(c)  BY <1>2, <1>3, <1>5, <1>9
<1>10. CASE \E c \in Clients, kind \in Kinds : PublishStep(c, kind)
  BY <1>2, <1>3, <1>6, <1>10
<1>. QED  BY <1>1, <1>7, <1>8, <1>9, <1>10, StepKinds

\* A version that has been superseded reads the same as long as it is kept,
\* whatever is folded, compacted, pruned or written after it.
THEOREM SupersededStayFixed == RecordSpec => SupersededVersionsFixed
<1>1. ASSUME RecordInv, [RecordNext]_recordVars,
             NEW s \in DOMAIN hist, s # LatestSeq(hist), s \in DOMAIN hist'
      PROVE  Load(hist', s) = Load(hist, s)
  <2>1. Sound(hist, now)  BY <1>1 DEF RecordInv, HistoryOK
  <2>2. CASE hist' = hist  BY <2>2
  <2>3. CASE \E entry : IsEntry(entry) /\ hist' = Recorded(hist, entry, now)
    <3>1. PICK entry : IsEntry(entry) /\ hist' = Recorded(hist, entry, now)  BY <2>3
    <3>2. s \in DOMAIN Recorded(hist, entry, now)  BY <1>1, <3>1
    <3>3. Load(Recorded(hist, entry, now), s) = Load(hist, s)
      BY <1>1, <2>1, <3>1, <3>2, RecordedLoads
    <3>. QED  BY <3>1, <3>3
  <2>. QED  BY <1>1, <2>2, <2>3, StepOfHistory
<1>2. RecordInv /\ [RecordNext]_recordVars =>
        [\A s \in DOMAIN hist :
           s # LatestSeq(hist) /\ s \in DOMAIN hist' => Load(hist', s) = Load(hist, s)]_recordVars
  BY <1>1
<1>. QED  BY <1>2, Invariant, PTL DEF RecordSpec, SupersededVersionsFixed

\* The versions of publications and of their withdrawals stay, whole, at every
\* length and age of the history.
THEOREM PublicationsStay == RecordSpec => PublicationsKept
<1>1. ASSUME RecordInv, [RecordNext]_recordVars, NEW s \in DOMAIN hist, Pinned(hist[s])
      PROVE  s \in DOMAIN hist' /\ hist'[s] = hist[s]
  <2>1. Sound(hist, now)  BY <1>1 DEF RecordInv, HistoryOK
  <2>2. CASE hist' = hist  BY <2>2
  <2>3. CASE \E entry : IsEntry(entry) /\ hist' = Recorded(hist, entry, now)
    BY <1>1, <2>1, <2>3, RecordedPinned
  <2>. QED  BY <1>1, <2>2, <2>3, StepOfHistory
<1>2. RecordInv /\ [RecordNext]_recordVars =>
        [\A s \in DOMAIN hist :
           Pinned(hist[s]) => s \in DOMAIN hist' /\ hist'[s] = hist[s]]_recordVars
  BY <1>1
<1>. QED  BY <1>2, Invariant, PTL DEF RecordSpec, PublicationsKept

\* Nobody overwrites what they have not seen: an agent in any field, a person
\* in rich text, with the exception of a relation that is empty.
THEOREM SeenBefore == RecordSpec => SeenBeforeOverwritten
<1>1. ASSUME RecordInv, [RecordNext]_recordVars, NEW c \in Clients, NEW f \in Fields,
             rec.version # 0, WrittenBy(c), rec'.data[f] # rec.data[f],
             c \in Agents \/ f \in RichFields
      PROVE  base[c].data[f] = rec.data[f] \/ (f \in RelationFields /\ rec.data[f] = Absent)
  <2>1. RecordTypeOK /\ Sound(hist, now)  BY <1>1 DEF RecordInv, HistoryOK
  <2>2. /\ rec'.version # rec.version
        /\ hist'[LatestSeq(hist')].by = c /\ hist'[LatestSeq(hist')].kind = "write"
    BY <1>1 DEF WrittenBy
  <2>3. ASSUME NEW d \in Clients, NEW kind \in Kinds, NEW status \in Statuses,
               NEW data \in Data, WriteStep(d, kind, status, data)
        PROVE  base[c].data[f] = rec.data[f] \/ (f \in RelationFields /\ rec.data[f] = Absent)
    <3>1. Recorded1(d, kind, data)  BY <1>1, <2>3, StepRecords
    <3>2. d = c /\ kind = "write"  BY <2>2, <3>1 DEF Recorded1
    <3>3. rec'.data = data  BY <2>3 DEF WriteStep, Write
    <3>4. Conflicts(c, data) = {}  BY <1>1, <2>3, <3>2 DEF WriteStep
    <3>5. f \in Changed(data)  BY <1>1, <3>3 DEF Changed
    <3>6. ~ Stale(c, f)  BY <1>1, <3>4, <3>5 DEF Conflicts
    <3>. QED  BY <1>1, <3>6 DEF Stale, RecordInv, BaseOK
  <2>4. ASSUME NEW d \in Clients, Delete(d) PROVE FALSE
    <3>1. Recorded1(d, "delete", rec.data)  BY <1>1, <2>4, DeleteRecords
    <3>. QED  BY <2>2, <3>1 DEF Recorded1
  <2>5. ASSUME NEW d \in Clients, NEW kind \in Kinds, PublishStep(d, kind) PROVE FALSE
    BY <2>2, <2>5 DEF PublishStep
  <2>6. CASE QuietStep
    BY <2>2, <2>6 DEF QuietStep, Read, AskRecord, AskHistory, RecordTick, recordVars
  <2>. QED  BY <1>1, <2>1, <2>3, <2>4, <2>5, <2>6, StepKinds
<1>2. RecordInv /\ [RecordNext]_recordVars =>
        [\A c \in Clients, f \in Fields :
           /\ rec.version # 0 /\ WrittenBy(c) /\ rec'.data[f] # rec.data[f]
           /\ c \in Agents \/ f \in RichFields
           => \/ base[c].data[f] = rec.data[f]
              \/ f \in RelationFields /\ rec.data[f] = Absent]_recordVars
  BY <1>1
<1>. QED  BY <1>2, Invariant, PTL DEF RecordSpec, SeenBeforeOverwritten

\* An agent publishes or unpublishes only the content the confirmation was
\* asked for, and once per confirmation.
THEOREM ConfirmedShown == RecordSpec => ConfirmedIsShown
<1>1. ASSUME RecordInv, [RecordNext]_recordVars,
             hist' # hist, hist'[LatestSeq(hist')].by \in Agents,
             Pinned(hist'[LatestSeq(hist')])
      PROVE  ask.data = rec.data /\ ~ ask.spent
  <2>1. RecordTypeOK /\ Sound(hist, now)  BY <1>1 DEF RecordInv, HistoryOK
  <2>2. ASSUME NEW c \in Clients, NEW kind \in Kinds, NEW data, Recorded1(c, kind, data)
        PROVE  kind \in {"publish", "unpublish"} /\ c \in Agents
    BY <1>1, <2>2 DEF Recorded1, Pinned
  <2>3. ASSUME NEW c \in Clients, NEW kind \in Kinds, NEW status \in Statuses,
               NEW data \in Data, WriteStep(c, kind, status, data)
        PROVE  FALSE
    <3>1. Recorded1(c, kind, data)  BY <1>1, <2>3, StepRecords
    <3>. QED  BY <2>2, <2>3, <3>1 DEF WriteStep
  <2>4. ASSUME NEW c \in Clients, Delete(c) PROVE FALSE
    <3>1. Recorded1(c, "delete", rec.data)  BY <1>1, <2>4, DeleteRecords
    <3>2. "delete" \in Kinds  BY DEF Kinds
    <3>. QED  BY <2>2, <3>1, <3>2
  <2>5. ASSUME NEW c \in Clients, NEW kind \in Kinds, PublishStep(c, kind)
        PROVE  ask.data = rec.data /\ ~ ask.spent
    <3>1. Recorded1(c, kind, rec.data)  BY <1>1, <2>5, PublishRecords
    <3>2. c \in Agents  BY <2>2, <3>1
    <3>3. Expected  BY <2>5, <3>2, ClientsAssumption DEF PublishStep
    <3>4. ask.stage = "shown" /\ ask.version = rec.version /\ ask.seq = LatestSeq(hist)
      BY <3>3 DEF Expected
    <3>5. LatestSeq(hist) \in Nat  BY <3>1 DEF Recorded1
    <3>6. /\ ask.version = rec.version => ask.data = rec.data
          /\ ask.stage = "shown" /\ ask.spent => ask.seq < LatestSeq(hist)
      BY <1>1, <3>4 DEF RecordInv, AskOK
    <3>7. ~ ask.spent  BY <3>4, <3>5, <3>6
    <3>. QED  BY <3>4, <3>6, <3>7
  <2>6. CASE QuietStep
    BY <1>1, <2>6 DEF QuietStep, Read, AskRecord, AskHistory, RecordTick, recordVars
  <2>. QED  BY <1>1, <2>1, <2>3, <2>4, <2>5, <2>6, StepKinds
<1>2. RecordInv /\ [RecordNext]_recordVars =>
        [hist' # hist /\ hist'[LatestSeq(hist')].by \in Agents
           /\ Pinned(hist'[LatestSeq(hist')])
         => ask.data = rec.data /\ ~ ask.spent]_recordVars
  BY <1>1
<1>. QED  BY <1>2, Invariant, PTL DEF RecordSpec, ConfirmedIsShown

===============================================================================
