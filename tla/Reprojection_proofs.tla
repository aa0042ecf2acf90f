------------------------- MODULE Reprojection_proofs --------------------------
(***************************************************************************)
(* Rebuilds next to publications and removals, for any records, consumers, *)
(* page sizes and clocks, as long as the margin of the sweep covers what a *)
(* batch can take: once for the rows of now, twice for those of before a   *)
(* removal.                                                                *)
(***************************************************************************)
EXTENDS Reprojection, FiniteSetTheorems, WellFoundedInduction, TLAPS

Rebuilds == [kind : {"reproject"}, from : Nat, epoch : Int, known : Nat]
Messages == Job \cup Rebuilds
Payload == [rec : Record, seq : Nat \ {0}]
Batches == [at : Nat, jobs : SUBSET Messages, msg : Messages \cup {NoMessage},
            todo : SUBSET Payload, next : Nat]

TypesOK ==
  /\ rows \in [Record -> Nat] /\ tombs \in [Record -> Nat] /\ removed \in [Record -> Nat]
  /\ snapshot \in [Record -> Nat] /\ stamp \in [Record -> Nat]
  /\ seq \in Nat /\ clock \in Nat
  /\ queue \subseteq Messages /\ batch \in [Worker -> Batches]

(* A message that is queued or in a batch.                                 *)
Known(m) == m \in queue \/ \E w \in Worker : m \in batch[w].jobs

InHand(w, r, n) == [rec |-> r, seq |-> n] \in batch[w].todo

LEMMA RecordsAreNumbers == Record \subseteq Nat \ {0} /\ IsFiniteSet(Record)
BY RecordsAssumption, FS_CardinalityType

LEMMA Constants ==
  /\ Margin \in Nat /\ Skew \in Nat /\ MaxBatch \in Nat /\ PageSize \in Nat /\ PageSize # 0
BY TimesAssumption

-----------------------------------------------------------------------------
(* Pages.                                                                  *)
LEMMA Smallest ==
  ASSUME NEW S \in SUBSET Nat, S # {}
  PROVE  \E m \in S : \A x \in S : m <= x
<1> DEFINE less == {ss \in Nat \X Nat : ss[1] < ss[2]}
<1>0. IsWellFoundedOn(less, Nat)
  BY NatLessThanWellFounded DEF OpToRel
<1>1. PICK m \in S : \A x \in S : <<x, m>> \notin less
  <2> HIDE DEF less
  <2> QED
    BY <1>0, WFMin
<1>2. \A x \in S : ~ x < m
  BY <1>1
<1> HIDE DEF less
<1> QED
  BY <1>2

LEMMA Greatest ==
  ASSUME NEW S \in SUBSET Record, S # {}
  PROVE  \E m \in S : \A x \in S : x <= m
<1> DEFINE n == Cardinality(Record)
           T == {n - x : x \in S}
<1>1. n \in Nat /\ \A x \in S : x \in 1 .. n
  BY RecordsAssumption, FS_CardinalityType
<1>2. T \in SUBSET Nat /\ T # {}
  BY <1>1
<1>3. PICK t \in T : \A y \in T : t <= y
  BY <1>2, Smallest
<1>4. PICK m \in S : t = n - m
  BY <1>3
<1>5. \A x \in S : n - m <= n - x
  BY <1>3, <1>4
<1> QED
  BY <1>1, <1>5

(* What is published from one record on and before another.                *)
Before(n, r) == {x \in Record : snapshot[x] # 0 /\ x > n /\ x < r}

LEMMA PageOfRecords ==
  ASSUME NEW n
  PROVE  /\ Page(n) \subseteq Record /\ IsFiniteSet(Page(n))
         /\ \A r \in Record :
              r \in Page(n) <=> snapshot[r] # 0 /\ r > n /\ Cardinality(Before(n, r)) < PageSize
<1>1. Page(n) \subseteq Record
  BY DEF Page
<1> QED
  BY <1>1, RecordsAreNumbers, FS_Subset DEF Page, Before

LEMMA InBefore ==
  ASSUME NEW n, NEW r, NEW x
  PROVE  x \in Before(n, r) <=> x \in Record /\ snapshot[x] # 0 /\ x > n /\ x < r
BY DEF Before

(* A page has no gaps.                                                     *)
LEMMA PageIsPrefix ==
  ASSUME NEW n \in Nat, NEW r \in Page(n), NEW x \in Record, snapshot[x] # 0, x > n, x <= r
  PROVE  x \in Page(n)
<1>1. r \in Record /\ r \in Nat /\ x \in Nat
  BY PageOfRecords, RecordsAreNumbers
<1>2. Before(n, x) \subseteq Before(n, r) /\ IsFiniteSet(Before(n, r))
  <2>1. ASSUME NEW y \in Before(n, x) PROVE y \in Before(n, r)
    <3>1. y \in Record /\ snapshot[y] # 0 /\ y > n /\ y < x
      BY InBefore
    <3>2. y \in Nat
      BY <3>1, RecordsAreNumbers
    <3> QED
      BY <1>1, <3>1, <3>2, InBefore
  <2>2. Before(n, x) \subseteq Before(n, r)
    BY <2>1, InBefore
  <2>3. Before(n, r) \subseteq Record
    BY InBefore
  <2> QED
    BY <2>2, <2>3, RecordsAreNumbers, FS_Subset
<1>3. Cardinality(Before(n, x)) <= Cardinality(Before(n, r)) /\ Cardinality(Before(n, r)) < PageSize
  BY <1>1, <1>2, FS_Subset, PageOfRecords
<1>4. Cardinality(Before(n, x)) \in Nat /\ Cardinality(Before(n, r)) \in Nat
  BY <1>2, FS_Subset, FS_CardinalityType
<1> QED
  BY <1>3, <1>4, PageOfRecords, Constants

(* A page that is not full is the last one.                                *)
LEMMA LastPage ==
  ASSUME NEW n \in Nat, Cardinality(Page(n)) # PageSize,
         NEW x \in Record, snapshot[x] # 0, x > n
  PROVE  x \in Page(n)
<1> SUFFICES ASSUME x \notin Page(n)
             PROVE  FALSE
  OBVIOUS
<1> DEFINE out == {y \in Record : snapshot[y] # 0 /\ y > n /\ y \notin Page(n)}
<1>1. PICK y \in out : \A z \in out : y <= z
  <2>1. out \in SUBSET Nat /\ out # {}
    BY RecordsAreNumbers
  <2> HIDE DEF out
  <2> QED
    BY <2>1, Smallest
<1>2. ASSUME NEW z \in Before(n, y) PROVE z \in Page(n)
  <2>1. z \in Record /\ snapshot[z] # 0 /\ z > n /\ z < y
    BY InBefore
  <2> QED
    BY <1>1, <2>1, RecordsAreNumbers
<1>3. Cardinality(Before(n, y)) <= Cardinality(Page(n)) /\ ~ Cardinality(Before(n, y)) < PageSize
  BY <1>1, <1>2, PageOfRecords, FS_Subset
<1>4. Cardinality(Before(n, y)) \in Nat /\ Cardinality(Page(n)) \in Nat
  BY <1>2, PageOfRecords, FS_Subset, FS_CardinalityType
<1>5. Page(n) # {} /\ PageSize < Cardinality(Page(n))
  BY <1>3, <1>4, Constants, FS_EmptySet
<1>6. PICK m \in Page(n) : \A z \in Page(n) : z <= m
  BY <1>5, Greatest, PageOfRecords
<1>7. Page(n) = Before(n, m) \cup {m} /\ m \notin Before(n, m)
  <2>1. m \in Record /\ m \in Nat /\ n < m
    BY <1>6, PageOfRecords, RecordsAreNumbers
  <2>2. ASSUME NEW z \in Before(n, m) PROVE z \in Page(n)
    <3>1. z \in Record /\ snapshot[z] # 0 /\ z > n /\ z < m
      BY InBefore
    <3>2. z <= m
      BY <2>1, <3>1, RecordsAreNumbers
    <3> QED
      BY <1>6, <3>1, <3>2, PageIsPrefix
  <2>3. \A z \in Page(n) : z = m \/ z \in Before(n, m)
    BY <1>6, <2>1, PageOfRecords, RecordsAreNumbers, InBefore
  <2>4. m \notin Before(n, m) /\ m \in Page(n)
    BY <1>6, <2>1, InBefore
  <2> QED
    BY <2>2, <2>3, <2>4
<1>8. IsFiniteSet(Before(n, m)) /\ Cardinality(Before(n, m)) < PageSize
  BY <1>6, <1>7, PageOfRecords, FS_Subset
<1>9. Cardinality(Page(n)) = Cardinality(Before(n, m)) + 1 /\ Cardinality(Before(n, m)) \in Nat
  BY <1>7, <1>8, FS_AddElement, FS_CardinalityType
<1> QED
  BY <1>5, <1>8, <1>9, <1>4, Constants

(* The cursor after a page: none after the last one, and else the page     *)
(* holds all that is published up to it.                                   *)
LEMMA CursorOfPage ==
  ASSUME NEW n \in Nat
  PROVE  /\ NextCursor(Page(n)) \in Nat
         /\ \A r \in Record : snapshot[r] # 0 /\ r > n =>
              \/ r \in Page(n)
              \/ NextCursor(Page(n)) # 0 /\ r > NextCursor(Page(n))
<1>1. CASE Cardinality(Page(n)) # PageSize
  BY <1>1, LastPage DEF NextCursor
<1>2. CASE Cardinality(Page(n)) = PageSize
  <2>1. Page(n) # {}
    BY <1>2, Constants, FS_EmptySet
  <2>2. \E m \in Page(n) : \A z \in Page(n) : z <= m
    BY <2>1, Greatest, PageOfRecords
  <2>3. NextCursor(Page(n)) \in Page(n)
    BY <1>2, <2>2 DEF NextCursor
  <2>4. NextCursor(Page(n)) \in Nat \ {0}
    BY <2>3, PageOfRecords, RecordsAreNumbers
  <2>5. \A r \in Record : snapshot[r] # 0 /\ r > n /\ ~ r > NextCursor(Page(n)) => r \in Page(n)
    BY <2>3, <2>4, PageIsPrefix, RecordsAreNumbers
  <2> QED
    BY <2>4, <2>5
<1> QED
  BY <1>1, <1>2

-----------------------------------------------------------------------------
(* What the steps of a consumer do to its batch.                           *)
Elsewhere(w) == \A v \in Worker \ {w} : batch'[v] = batch[v]

(* A batch between two messages.                                           *)
LEMMA BatchWaits ==
  ASSUME NEW t \in Nat, NEW ms \in SUBSET Messages, TypesOK, NEW w \in Worker,
         batch' = [batch EXCEPT ![w] = Between(t, ms)]
  PROVE  /\ batch' \in [Worker -> Batches] /\ Elsewhere(w)
         /\ batch'[w].at = t /\ batch'[w].jobs = ms
         /\ batch'[w].msg = NoMessage /\ batch'[w].todo = {}
<1>1. Between(t, ms) \in Batches
  BY DEF Between, Batches
<1>2. batch' \in [Worker -> Batches] /\ Elsewhere(w) /\ batch'[w] = Between(t, ms)
  BY <1>1 DEF TypesOK, Elsewhere
<1> QED
  BY <1>2 DEF Between

LEMMA Starting ==
  ASSUME TypesOK, NEW w \in Worker, StartBatch(w)
  PROVE  /\ batch' \in [Worker -> Batches] /\ Elsewhere(w)
         /\ batch'[w].at = clock /\ batch'[w].jobs \subseteq queue
         /\ batch'[w].msg = NoMessage /\ batch'[w].todo = {}
<1>1. PICK ms \in SUBSET queue :
        batch' = [batch EXCEPT ![w] = Between(clock, ms)]
  BY DEF StartBatch
<1>2. PICK t : t = clock
  OBVIOUS
<1>3. ms \in SUBSET Messages /\ t \in Nat
  BY <1>1, <1>2 DEF TypesOK
<1>4. batch' = [batch EXCEPT ![w] = Between(t, ms)]
  BY <1>1, <1>2
<1>5. /\ batch' \in [Worker -> Batches] /\ Elsewhere(w)
      /\ batch'[w].at = t /\ batch'[w].jobs = ms
      /\ batch'[w].msg = NoMessage /\ batch'[w].todo = {}
  BY <1>3, <1>4, BatchWaits
<1> QED
  BY <1>1, <1>2, <1>5

LEMMA Settling ==
  ASSUME TypesOK, NEW w \in Worker, NEW m, Settle(w, m)
  PROVE  /\ batch' \in [Worker -> Batches] /\ Elsewhere(w)
         /\ batch'[w].jobs = batch[w].jobs \ {m}
         /\ batch'[w].jobs # {} => batch'[w].at = batch[w].at
         /\ batch'[w].msg = NoMessage /\ batch'[w].todo = {}
<1>1. PICK t : t = IF batch[w].jobs = {m} THEN 0 ELSE batch[w].at
  OBVIOUS
<1>2. PICK ms : ms = batch[w].jobs \ {m}
  OBVIOUS
<1>3. batch' = [batch EXCEPT ![w] = Between(t, ms)]
  BY <1>1, <1>2 DEF Settle
<1>4. t \in Nat /\ ms \in SUBSET Messages
  BY <1>1, <1>2 DEF TypesOK, Batches
<1>5. ms # {} => t = batch[w].at
  BY <1>1, <1>2
<1> QED
  BY <1>2, <1>3, <1>4, <1>5, BatchWaits

LEMMA Reading ==
  ASSUME TypesOK, NEW w \in Worker, NEW m \in batch[w].jobs, ReadPayloads(w, m)
  PROVE  /\ batch' \in [Worker -> Batches] /\ Elsewhere(w)
         /\ batch'[w].at = batch[w].at /\ batch'[w].jobs = batch[w].jobs
         /\ batch'[w].msg = m /\ batch'[w].todo = Payloads(m)
         /\ m.kind = "reproject" => batch'[w].next = NextCursor(Page(m.from))
<1> DEFINE n == IF m.kind = "reproject" THEN NextCursor(Page(m.from)) ELSE 0
<1>1. m \in Messages /\ batch[w] \in Batches
  BY DEF TypesOK, Batches
<1>2. Payloads(m) \subseteq Payload
  <2> SUFFICES ASSUME NEW p \in Payloads(m)
               PROVE  p \in Payload
    OBVIOUS
  <2>1. PICK r : /\ r \in IF m.kind = "upsert" THEN {m.rec} ELSE Page(m.from)
                 /\ snapshot[r] # 0 /\ p = [rec |-> r, seq |-> snapshot[r]]
    BY DEF Payloads
  <2>2. r \in Record
    BY <1>1, <2>1 DEF Messages, Job, Rebuilds, Page
  <2> QED
    BY <2>1, <2>2 DEF Payload, TypesOK
<1>3. n \in Nat
  <2>1. m.kind = "reproject" => m.from \in Nat
    BY <1>1 DEF Messages, Job, Rebuilds
  <2> QED
    BY <2>1, CursorOfPage
<1> QED
  BY <1>1, <1>2, <1>3 DEF ReadPayloads, TypesOK, Batches, Elsewhere

(* The acknowledgement settles the message; what it sends is queued.       *)
LEMMA Acking ==
  ASSUME TypesOK, NEW w \in Worker, NEW m, NEW sent \in SUBSET Messages, Ack(w, m, sent)
  PROVE  queue' \subseteq queue \cup sent /\ queue' \subseteq Messages /\ Settle(w, m)
BY DEF Ack, TypesOK

(* A step after which the consumer is between two messages.                *)
Rests(w) ==
  \/ StartBatch(w) \/ EndUpsert(w) \/ SendNextPage(w) \/ Sweep(w) \/ JobFails(w)
  \/ \E m \in batch[w].jobs : ProjectDelete(w, m)

NextPage(w) == Rebuild(batch[w].next, batch[w].msg.epoch, batch[w].msg.known)

LEMMA NextPageOK ==
  ASSUME TypesOK, NEW w \in Worker, batch[w].msg.kind = "reproject"
  PROVE  NextPage(w) \in Messages
<1>1. batch[w].msg \in Messages \cup {NoMessage} /\ batch[w].next \in Nat
  BY DEF TypesOK, Batches
<1>2. batch[w].msg \in Rebuilds
  BY <1>1 DEF Messages, Job, NoMessage
<1> QED
  BY <1>1, <1>2 DEF NextPage, Rebuild, Rebuilds, Messages

LEMMA Resting ==
  ASSUME TypesOK, NEW w \in Worker, Rests(w)
  PROVE  /\ batch' \in [Worker -> Batches] /\ Elsewhere(w) /\ queue' \subseteq Messages
         /\ batch'[w].msg = NoMessage /\ batch'[w].todo = {}
         /\ batch'[w].jobs # {} =>
              \/ batch'[w].at = clock
              \/ batch[w].jobs # {} /\ batch'[w].at = batch[w].at
         /\ batch'[w].jobs \subseteq queue \cup batch[w].jobs
         /\ queue' \subseteq queue \cup IF SendNextPage(w) THEN {NextPage(w)} ELSE {}
         /\ UNCHANGED <<clock, snapshot, seq, stamp>>
<1>1. CASE StartBatch(w)
  BY <1>1, Starting DEF StartBatch, TypesOK
<1>2. ASSUME NEW m, NEW sent \in SUBSET Messages, Ack(w, m, sent)
      PROVE  /\ batch' \in [Worker -> Batches] /\ Elsewhere(w) /\ queue' \subseteq Messages
             /\ batch'[w].msg = NoMessage /\ batch'[w].todo = {}
             /\ batch'[w].jobs # {} => batch[w].jobs # {} /\ batch'[w].at = batch[w].at
             /\ batch'[w].jobs \subseteq batch[w].jobs
             /\ queue' \subseteq queue \cup sent
  BY <1>2, Acking, Settling
<1>3. CASE EndUpsert(w)
  BY <1>2, <1>3 DEF EndUpsert
<1>4. CASE SendNextPage(w)
  <2>1. Ack(w, batch[w].msg, {NextPage(w)}) /\ NextPage(w) \in Messages
    BY <1>4, NextPageOK DEF SendNextPage, NextPage
  <2> QED
    BY <1>2, <1>4, <2>1 DEF SendNextPage
<1>5. CASE Sweep(w)
  BY <1>2, <1>5 DEF Sweep
<1>6. CASE JobFails(w)
  BY <1>6, Settling DEF JobFails, TypesOK
<1>7. CASE \E m \in batch[w].jobs : ProjectDelete(w, m)
  BY <1>2, <1>7 DEF ProjectDelete
<1> QED
  BY <1>1, <1>3, <1>4, <1>5, <1>6, <1>7 DEF Rests

(* Only the messages that a step sends become known.                       *)
LEMMA KnownAfter ==
  ASSUME NEW w \in Worker, Elsewhere(w), NEW sent,
         batch'[w].jobs \subseteq queue \cup batch[w].jobs, queue' \subseteq queue \cup sent,
         NEW m, Known(m)'
  PROVE  Known(m) \/ m \in sent
BY DEF Known, Elsewhere

-----------------------------------------------------------------------------
(* What the steps do to the tables.                                        *)
LEMMA Writing ==
  ASSUME TypesOK, NEW w \in Worker, NEW p \in batch[w].todo, WritePayload(w, p)
  PROVE  /\ p \in Payload
         /\ batch' \in [Worker -> Batches] /\ Elsewhere(w)
         /\ batch'[w].at = batch[w].at /\ batch'[w].jobs = batch[w].jobs
         /\ batch'[w].msg = batch[w].msg /\ batch'[w].next = batch[w].next
         /\ batch'[w].todo = batch[w].todo \ {p}
         /\ rows' \in [Record -> Nat] /\ tombs' \in [Record -> Nat] /\ stamp' \in [Record -> Nat]
         /\ \A r \in Record \ {p.rec} :
              rows'[r] = rows[r] /\ tombs'[r] = tombs[r] /\ stamp'[r] = stamp[r]
         /\ UpsertWins(p.rec, p.seq) => rows'[p.rec] = p.seq /\ stamp'[p.rec] = batch[w].at
         /\ ~UpsertWins(p.rec, p.seq) =>
              rows'[p.rec] = rows[p.rec] /\ stamp'[p.rec] = stamp[p.rec]
         /\ tombs'[p.rec] = IF tombs[p.rec] <= p.seq THEN 0 ELSE tombs[p.rec]
         /\ UNCHANGED <<clock, snapshot, seq, queue, removed>>
<1>1. p \in Payload /\ batch[w] \in Batches
  BY DEF TypesOK, Batches
<1>2. p.rec \in Record /\ p.seq \in Nat
  BY <1>1 DEF Payload
<1>3. /\ batch' \in [Worker -> Batches] /\ Elsewhere(w)
      /\ batch'[w].at = batch[w].at /\ batch'[w].jobs = batch[w].jobs
      /\ batch'[w].msg = batch[w].msg /\ batch'[w].next = batch[w].next
      /\ batch'[w].todo = batch[w].todo \ {p}
  BY <1>1 DEF WritePayload, TypesOK, Batches, Elsewhere
<1>4. /\ rows' \in [Record -> Nat]
      /\ \A r \in Record \ {p.rec} : rows'[r] = rows[r]
      /\ rows'[p.rec] = RowAfterUpsert(p.rec, p.seq)
  BY <1>2 DEF WritePayload, UpsertBatch, RowAfterUpsert, TypesOK
<1>5. /\ tombs' \in [Record -> Nat]
      /\ \A r \in Record \ {p.rec} : tombs'[r] = tombs[r]
      /\ tombs'[p.rec] = IF tombs[p.rec] <= p.seq THEN 0 ELSE tombs[p.rec]
  BY <1>2 DEF WritePayload, UpsertBatch, TypesOK
<1>6. /\ stamp' \in [Record -> Nat]
      /\ \A r \in Record \ {p.rec} : stamp'[r] = stamp[r]
      /\ stamp'[p.rec] = IF UpsertWins(p.rec, p.seq) THEN batch[w].at ELSE stamp[p.rec]
  <2>1. batch[w].at \in Nat
    BY <1>1 DEF Batches
  <2> QED
    BY <1>2, <2>1 DEF WritePayload, TypesOK
<1> QED
  BY <1>1, <1>3, <1>4, <1>5, <1>6 DEF WritePayload, RowAfterUpsert

LEMMA Deleting ==
  ASSUME TypesOK, NEW w \in Worker, NEW m \in batch[w].jobs, ProjectDelete(w, m)
  PROVE  /\ m.rec \in Record /\ m.seq \in Nat /\ m.kind = "delete"
         /\ rows' \in [Record -> Nat] /\ tombs' \in [Record -> Nat] /\ removed' \in [Record -> Nat]
         /\ \A r \in Record \ {m.rec} :
              rows'[r] = rows[r] /\ tombs'[r] = tombs[r] /\ removed'[r] = removed[r]
         /\ rows'[m.rec] = IF rows[m.rec] <= m.seq THEN 0 ELSE rows[m.rec]
         /\ tombs'[m.rec] = IF tombs[m.rec] <= m.seq THEN m.seq ELSE tombs[m.rec]
         /\ removed'[m.rec] = IF removed[m.rec] < m.seq THEN m.seq ELSE removed[m.rec]
<1>1. m \in Messages /\ m.kind = "delete"
  BY DEF TypesOK, Batches, ProjectDelete
<1>2. m.rec \in Record /\ m.seq \in Nat
  BY <1>1 DEF Messages, Job, Rebuilds
<1>3. /\ rows' \in [Record -> Nat]
      /\ \A r \in Record \ {m.rec} : rows'[r] = rows[r]
      /\ rows'[m.rec] = IF rows[m.rec] <= m.seq THEN 0 ELSE rows[m.rec]
  BY <1>2 DEF ProjectDelete, DeleteBatch, RowAfterDelete, TypesOK
<1>4. /\ tombs' \in [Record -> Nat]
      /\ \A r \in Record \ {m.rec} : tombs'[r] = tombs[r]
      /\ tombs'[m.rec] = IF tombs[m.rec] <= m.seq THEN m.seq ELSE tombs[m.rec]
  BY <1>2 DEF ProjectDelete, DeleteBatch, TypesOK
<1>5. /\ removed' \in [Record -> Nat]
      /\ \A r \in Record \ {m.rec} : removed'[r] = removed[r]
      /\ removed'[m.rec] = IF removed[m.rec] < m.seq THEN m.seq ELSE removed[m.rec]
  BY <1>2 DEF ProjectDelete, TypesOK
<1> QED
  BY <1>1, <1>2, <1>3, <1>4, <1>5

LEMMA Sweeping ==
  ASSUME TypesOK, NEW w \in Worker, Sweep(w)
  PROVE  /\ batch[w].msg \in Rebuilds /\ batch[w].todo = {} /\ batch[w].next = 0
         /\ rows' \in [Record -> Nat] /\ UNCHANGED <<tombs, removed>>
         /\ \A r \in Record :
              rows'[r] = IF stamp[r] < batch[w].msg.epoch - Margin THEN 0 ELSE rows[r]
<1>1. batch[w].msg \in Messages \cup {NoMessage}
  BY DEF TypesOK, Batches
<1>2. batch[w].msg \in Rebuilds
  BY <1>1 DEF Messages, Job, NoMessage, Sweep, Sweeps
<1> QED
  BY <1>2 DEF Sweep, Sweeps, SweepBatch, Stale, TypesOK

(* The steps, by what they touch.                                          *)
LEMMA Steps ==
  ASSUME [Next]_vars
  PROVE  \/ UNCHANGED vars
         \/ \E r \in Record : Publish(r) \/ Unpublish(r)
         \/ StartReprojection \/ Tick
         \/ \E w \in Worker : \/ \E m \in batch[w].jobs : ReadPayloads(w, m)
                              \/ \E p \in batch[w].todo : WritePayload(w, p)
                              \/ Rests(w)
BY DEF Next, Rests

-----------------------------------------------------------------------------
LEMMA InitTypes == Init => TypesOK
<1> SUFFICES ASSUME Init PROVE TypesOK
  OBVIOUS
<1>1. 0 \in Nat /\ Record \cup {0} \subseteq Nat /\ seq \in Nat
  BY RecordsAreNumbers, FS_CardinalityType DEF Init
<1>2. Between(0, {}) \in Batches
  BY DEF Between, Batches
<1>3. batch \in [Worker -> Batches] /\ queue \subseteq Messages
  BY <1>2 DEF Init
<1>4. /\ rows \in [Record -> Nat] /\ snapshot \in [Record -> Nat]
      /\ tombs \in [Record -> Nat] /\ stamp \in [Record -> Nat] /\ removed \in [Record -> Nat]
  BY <1>1 DEF Init
<1> QED
  BY <1>1, <1>3, <1>4 DEF Init, TypesOK

LEMMA StepTypes == TypesOK /\ [Next]_vars => TypesOK'
<1> SUFFICES ASSUME TypesOK, [Next]_vars PROVE TypesOK'
  OBVIOUS
<1>1. CASE UNCHANGED vars
  BY <1>1 DEF vars, TypesOK
<1>2. ASSUME NEW r \in Record, Publish(r) \/ Unpublish(r) PROVE TypesOK'
  <2>1. PICK n : n = seq + 1
    OBVIOUS
  <2>2. n \in Nat
    BY <2>1 DEF TypesOK
  <2>3. Upsert(r, n) \in Messages /\ Delete(r, n) \in Messages
    BY <2>2 DEF Upsert, Delete, Messages, Job
  <2>4. seq' = n /\ queue' \subseteq queue \cup {Upsert(r, n), Delete(r, n)}
    BY <1>2, <2>1 DEF Publish, Unpublish
  <2>5. snapshot' \in [Record -> Nat]
    BY <1>2, <2>1, <2>2 DEF Publish, Unpublish, TypesOK
  <2>6. UNCHANGED <<rows, tombs, clock, stamp, batch, removed>>
    BY <1>2 DEF Publish, Unpublish
  <2> QED
    BY <2>2, <2>3, <2>4, <2>5, <2>6 DEF TypesOK
<1>3. CASE StartReprojection
  <2>1. PICK d \in -Skew .. Skew : queue' = queue \cup {Rebuild(0, clock + d, seq)}
    BY <1>3 DEF StartReprojection
  <2>2. Rebuild(0, clock + d, seq) \in Messages
    BY <2>1, Constants DEF TypesOK, Rebuild, Messages, Rebuilds
  <2> QED
    BY <1>3, <2>1, <2>2 DEF StartReprojection, TypesOK
<1>4. CASE Tick
  BY <1>4 DEF Tick, TypesOK
<1>5. ASSUME NEW w \in Worker, NEW m \in batch[w].jobs, ReadPayloads(w, m) PROVE TypesOK'
  BY <1>5, Reading DEF ReadPayloads, TypesOK
<1>6. ASSUME NEW w \in Worker, NEW p \in batch[w].todo, WritePayload(w, p) PROVE TypesOK'
  BY <1>6, Writing DEF TypesOK
<1>7. ASSUME NEW w \in Worker, Rests(w) PROVE TypesOK'
  <2>1. rows' \in [Record -> Nat] /\ tombs' \in [Record -> Nat] /\ removed' \in [Record -> Nat]
    <3>1. CASE \E m \in batch[w].jobs : ProjectDelete(w, m)
      BY <3>1, Deleting
    <3>2. CASE Sweep(w)
      BY <3>2, Sweeping DEF TypesOK
    <3>3. CASE StartBatch(w) \/ EndUpsert(w) \/ SendNextPage(w) \/ JobFails(w)
      BY <3>3 DEF StartBatch, EndUpsert, SendNextPage, JobFails, TypesOK
    <3> QED
      BY <1>7, <3>1, <3>2, <3>3 DEF Rests
  <2> QED
    BY <1>7, <2>1, Resting DEF TypesOK
<1> QED
  BY <1>1, <1>2, <1>3, <1>4, <1>5, <1>6, <1>7, Steps

-----------------------------------------------------------------------------
(* Which publication everything belongs to: what is shown, removed or in   *)
(* hand is never ahead of the snapshot, and what was removed is never in   *)
(* hand.                                                                   *)
RecordNumbers(r) ==
  /\ rows[r] <= seq /\ tombs[r] <= seq /\ removed[r] <= seq /\ snapshot[r] <= seq
  /\ snapshot[r] # 0 =>
       rows[r] <= snapshot[r] /\ tombs[r] < snapshot[r] /\ removed[r] < snapshot[r]

DeleteNumbers(m) == m.seq <= seq /\ (snapshot[m.rec] # 0 => m.seq < snapshot[m.rec])

HandNumbers(p) ==
  /\ p.seq <= seq /\ p.seq # removed[p.rec]
  /\ snapshot[p.rec] # 0 => p.seq <= snapshot[p.rec]
  /\ \A m : Known(m) /\ m.kind = "delete" /\ m.rec = p.rec => m.seq # p.seq

Numbers ==
  /\ \A r \in Record : RecordNumbers(r)
  /\ \A m : Known(m) /\ m.kind = "delete" => DeleteNumbers(m)
  /\ \A w \in Worker : \A p \in batch[w].todo : HandNumbers(p)

LEMMA KnownTyped ==
  ASSUME TypesOK, NEW m, Known(m)
  PROVE  m \in Messages
BY DEF Known, TypesOK, Batches

LEMMA DeleteTyped ==
  ASSUME TypesOK, NEW m, Known(m), m.kind = "delete"
  PROVE  m.rec \in Record /\ m.seq \in Nat
BY KnownTyped DEF Messages, Job, Rebuilds

LEMMA HandTyped ==
  ASSUME TypesOK, NEW w \in Worker, NEW p \in batch[w].todo
  PROVE  p.rec \in Record /\ p.seq \in Nat
BY DEF TypesOK, Batches, Payload

(* A payload just read shows the snapshot of its record.                   *)
LEMMA ReadNow ==
  ASSUME TypesOK, NEW w \in Worker, NEW m \in batch[w].jobs, ReadPayloads(w, m),
         NEW p \in Payloads(m)
  PROVE  p.rec \in Record /\ p.seq = snapshot[p.rec] /\ snapshot[p.rec] # 0
<1>1. PICK r : /\ r \in IF m.kind = "upsert" THEN {m.rec} ELSE Page(m.from)
               /\ snapshot[r] # 0 /\ p = [rec |-> r, seq |-> snapshot[r]]
  BY DEF Payloads
<1>2. p \in Payload
  BY Reading, StepTypes DEF TypesOK, Batches
<1> QED
  BY <1>1, <1>2 DEF Payload

LEMMA InitNumbers == Init => Numbers
<1> SUFFICES ASSUME Init PROVE Numbers
  OBVIOUS
<1>1. seq \in Nat /\ \A r \in Record : r \in Nat /\ r # 0 /\ r <= seq
  <2>1. seq = Cardinality(Record)
    BY DEF Init
  <2>2. seq \in Nat
    BY <2>1, RecordsAssumption, FS_CardinalityType
  <2>3. Record = 1 .. seq
    BY <2>1, RecordsAssumption
  <2> QED
    BY <2>2, <2>3
<1>2. \A w \in Worker : batch[w].jobs = {} /\ batch[w].todo = {}
  BY DEF Init, Between
<1>3. \A m : ~Known(m)
  BY <1>2 DEF Known, Init
<1>4. \A r \in Record : tombs[r] = 0 /\ removed[r] = 0 /\ rows[r] \in {0, r} /\ snapshot[r] \in {0, r}
  BY DEF Init
<1>5. \A r \in Record :
        /\ rows[r] <= seq /\ tombs[r] <= seq /\ removed[r] <= seq /\ snapshot[r] <= seq
        /\ snapshot[r] # 0 =>
             rows[r] <= snapshot[r] /\ tombs[r] < snapshot[r] /\ removed[r] < snapshot[r]
  <2> TAKE r \in Record
  <2>1. r \in Nat /\ 0 < r /\ r <= seq
    BY <1>1
  <2>2. tombs[r] = 0 /\ removed[r] = 0
    BY <1>4
  <2>3. (rows[r] = 0 \/ rows[r] = r) /\ (snapshot[r] = 0 \/ snapshot[r] = r)
    BY <1>4
  <2> QED
    BY <1>1, <2>1, <2>2, <2>3
<1> QED
  BY <1>2, <1>3, <1>5 DEF Numbers, RecordNumbers, DeleteNumbers, HandNumbers

(* A publication or a removal of it takes the next number.                 *)
LEMMA Publishing ==
  ASSUME TypesOK, NEW r \in Record, Publish(r) \/ Unpublish(r)
  PROVE  /\ seq \in Nat /\ seq' = seq + 1
         /\ \A x \in Record \ {r} : snapshot'[x] = snapshot[x]
         /\ snapshot'[r] # 0 => snapshot'[r] = seq'
         /\ \A m : Known(m)' =>
              \/ Known(m)
              \/ m.kind = "upsert"
              \/ m.kind = "delete" /\ m.rec = r /\ m.seq = seq' /\ snapshot'[r] = 0
         /\ UNCHANGED <<rows, tombs, clock, stamp, batch, removed>>
<1>1. seq \in Nat /\ seq' = seq + 1 /\ UNCHANGED <<rows, tombs, clock, stamp, batch, removed>>
  BY DEF Publish, Unpublish, TypesOK
<1>2. PICK n : n = seq'
  OBVIOUS
<1>3. n \in Nat
  BY <1>1, <1>2
<1>4. \/ snapshot' = [snapshot EXCEPT ![r] = n] /\ queue' = queue \cup {Upsert(r, n)}
      \/ snapshot' = [snapshot EXCEPT ![r] = 0] /\ queue' = queue \cup {Delete(r, n)}
  BY <1>1, <1>2 DEF Publish, Unpublish
<1>5. /\ \A x \in Record \ {r} : snapshot'[x] = snapshot[x]
      /\ \/ snapshot'[r] = n /\ queue' = queue \cup {Upsert(r, n)}
         \/ snapshot'[r] = 0 /\ queue' = queue \cup {Delete(r, n)}
  BY <1>3, <1>4 DEF TypesOK
<1>6. ASSUME NEW m, Known(m)', ~Known(m)
      PROVE  m \in queue'
  BY <1>1, <1>6 DEF Known
<1>7. ASSUME NEW m, Known(m)', ~Known(m)
      PROVE  \/ m.kind = "upsert"
             \/ m.kind = "delete" /\ m.rec = r /\ m.seq = seq' /\ snapshot'[r] = 0
  <2>1. m \in queue' /\ m \notin queue
    BY <1>6, <1>7 DEF Known
  <2> QED
    BY <1>2, <1>5, <2>1 DEF Upsert, Delete
<1> QED
  BY <1>1, <1>2, <1>5, <1>7

LEMMA RestingKnown ==
  ASSUME TypesOK, NEW w \in Worker, Rests(w), NEW m, Known(m)'
  PROVE  Known(m) \/ (SendNextPage(w) /\ m = NextPage(w))
<1> DEFINE sent == IF SendNextPage(w) THEN {NextPage(w)} ELSE {}
<1>1. Known(m) \/ m \in sent
  <2>1. /\ Elsewhere(w) /\ batch'[w].jobs \subseteq queue \cup batch[w].jobs
        /\ queue' \subseteq queue \cup sent
    BY Resting
  <2> HIDE DEF sent
  <2> QED
    BY <2>1, KnownAfter
<1> QED
  BY <1>1

LEMMA ReadingKnown ==
  ASSUME TypesOK, NEW w \in Worker, NEW n \in batch[w].jobs, ReadPayloads(w, n), NEW m, Known(m)'
  PROVE  Known(m)
<1>1. Elsewhere(w) /\ batch'[w].jobs \subseteq queue \cup batch[w].jobs
  BY Reading
<1>2. queue' = queue
  BY DEF ReadPayloads
<1> QED
  BY <1>1, <1>2 DEF Known, Elsewhere

LEMMA WritingKnown ==
  ASSUME TypesOK, NEW w \in Worker, NEW p \in batch[w].todo, WritePayload(w, p), NEW m, Known(m)'
  PROVE  Known(m)
<1>1. Elsewhere(w) /\ batch'[w].jobs \subseteq queue \cup batch[w].jobs
  BY Writing
<1>2. queue' = queue
  BY Writing
<1> QED
  BY <1>1, <1>2 DEF Known, Elsewhere

(* Nothing but reading puts a payload into a hand.                         *)
LEMMA HandsAfterRest ==
  ASSUME TypesOK, NEW w \in Worker, Rests(w), NEW v \in Worker, NEW p \in batch'[v].todo
  PROVE  v # w /\ batch'[v] = batch[v] /\ p \in batch[v].todo
BY Resting DEF Elsewhere

LEMMA PublishNumbers ==
  ASSUME TypesOK, Numbers, NEW r \in Record, Publish(r) \/ Unpublish(r)
  PROVE  Numbers'
<1>1. ASSUME NEW x \in Record
      PROVE  RecordNumbers(x)'
  <2>1. /\ rows[x] \in Nat /\ tombs[x] \in Nat /\ removed[x] \in Nat /\ snapshot[x] \in Nat
        /\ rows'[x] = rows[x] /\ tombs'[x] = tombs[x] /\ removed'[x] = removed[x]
    BY Publishing DEF TypesOK
  <2>2. rows[x] <= seq /\ tombs[x] <= seq /\ removed[x] <= seq /\ snapshot[x] <= seq
    BY DEF Numbers, RecordNumbers, DeleteNumbers, HandNumbers
  <2>3. seq \in Nat /\ seq' = seq + 1
    BY Publishing
  <2>4. CASE x = r
    <3>1. snapshot'[x] = 0 \/ snapshot'[x] = seq'
      BY <2>4, Publishing
    <3> QED
      BY <2>1, <2>2, <2>3, <3>1 DEF RecordNumbers
  <2>5. CASE x # r
    <3>1. snapshot'[x] = snapshot[x]
      BY <2>5, Publishing
    <3>2. snapshot[x] # 0 => rows[x] <= snapshot[x] /\ tombs[x] < snapshot[x] /\ removed[x] < snapshot[x]
      BY DEF Numbers, RecordNumbers, DeleteNumbers, HandNumbers
    <3> QED
      BY <2>1, <2>2, <2>3, <3>1, <3>2 DEF RecordNumbers
  <2> QED
    BY <2>4, <2>5
<1>2. ASSUME NEW m, Known(m)', m.kind = "delete"
      PROVE  DeleteNumbers(m)'
  <2>1. CASE m.rec = r /\ m.seq = seq' /\ snapshot'[r] = 0
    BY <2>1, Publishing DEF DeleteNumbers
  <2>2. CASE Known(m)
    <3>1. m.rec \in Record /\ m.seq \in Nat /\ m.seq <= seq
      BY <1>2, <2>2, DeleteTyped DEF Numbers, RecordNumbers, DeleteNumbers, HandNumbers
    <3>2. snapshot[m.rec] # 0 => m.seq < snapshot[m.rec]
      BY <1>2, <2>2 DEF Numbers, RecordNumbers, DeleteNumbers, HandNumbers
    <3> QED
      BY <3>1, <3>2, Publishing DEF DeleteNumbers
  <2> QED
    BY <1>2, <2>1, <2>2, Publishing
<1>3. ASSUME NEW w \in Worker, NEW p \in batch'[w].todo
      PROVE  HandNumbers(p)'
  <2>1. p \in batch[w].todo
    BY Publishing
  <2>2. p.rec \in Record /\ p.seq \in Nat /\ p.seq <= seq /\ p.seq # removed[p.rec]
    BY <2>1, HandTyped DEF Numbers, RecordNumbers, DeleteNumbers, HandNumbers
  <2>3. snapshot[p.rec] # 0 => p.seq <= snapshot[p.rec]
    BY <2>1 DEF Numbers, RecordNumbers, DeleteNumbers, HandNumbers
  <2>4. snapshot'[p.rec] # 0 => p.seq <= snapshot'[p.rec]
    BY <2>2, <2>3, Publishing
  <2>5. ASSUME NEW m, Known(m)', m.kind = "delete", m.rec = p.rec PROVE m.seq # p.seq
    <3>1. CASE m.seq = seq'
      BY <3>1, <2>2, Publishing
    <3>2. CASE Known(m)
      BY <2>1, <2>5, <3>2 DEF Numbers, RecordNumbers, DeleteNumbers, HandNumbers
    <3> QED
      BY <2>5, <3>1, <3>2, Publishing
  <2> QED
    BY <2>2, <2>4, <2>5, Publishing DEF HandNumbers
<1> QED
  BY <1>1, <1>2, <1>3 DEF Numbers, RecordNumbers, DeleteNumbers, HandNumbers

LEMMA ReadNumbers ==
  ASSUME TypesOK, Numbers, NEW v \in Worker, NEW n \in batch[v].jobs, ReadPayloads(v, n)
  PROVE  Numbers'
<1>1. UNCHANGED <<rows, tombs, removed, snapshot, seq>>
  BY DEF ReadPayloads
<1>2. ASSUME NEW w \in Worker, NEW p \in batch'[w].todo
      PROVE  /\ p.seq <= seq /\ p.seq # removed[p.rec]
             /\ snapshot[p.rec] # 0 => p.seq <= snapshot[p.rec]
             /\ \A m : Known(m) /\ m.kind = "delete" /\ m.rec = p.rec => m.seq # p.seq
  <2>1. CASE w = v
    <3>1. p.rec \in Record /\ p.seq = snapshot[p.rec] /\ snapshot[p.rec] # 0
      BY <2>1, Reading, ReadNow
    <3>2. /\ p.seq \in Nat /\ removed[p.rec] \in Nat /\ seq \in Nat
          /\ p.seq <= seq /\ removed[p.rec] < p.seq
      BY <3>1 DEF TypesOK, Numbers, RecordNumbers, DeleteNumbers, HandNumbers
    <3>3. ASSUME NEW m, Known(m), m.kind = "delete", m.rec = p.rec PROVE m.seq # p.seq
      <4>1. m.seq \in Nat /\ m.seq < p.seq
        BY <3>1, <3>3, DeleteTyped DEF Numbers, RecordNumbers, DeleteNumbers, HandNumbers
      <4> QED
        BY <3>2, <4>1
    <3> QED
      BY <3>1, <3>2, <3>3
  <2>2. CASE w # v
    <3>1. p \in batch[w].todo
      BY <2>2, Reading DEF Elsewhere
    <3> QED
      BY <3>1 DEF Numbers, RecordNumbers, DeleteNumbers, HandNumbers
  <2> QED
    BY <2>1, <2>2
<1>3. ASSUME NEW w \in Worker, NEW p \in batch'[w].todo
      PROVE  HandNumbers(p)'
  BY <1>1, <1>2, ReadingKnown DEF HandNumbers
<1>4. ASSUME NEW m, Known(m)', m.kind = "delete"
      PROVE  DeleteNumbers(m)'
  BY <1>1, <1>4, ReadingKnown DEF Numbers, RecordNumbers, DeleteNumbers, HandNumbers
<1>5. ASSUME NEW r \in Record
      PROVE  RecordNumbers(r)'
  BY <1>1 DEF Numbers, RecordNumbers, DeleteNumbers, HandNumbers
<1> QED
  BY <1>3, <1>4, <1>5 DEF Numbers, RecordNumbers, DeleteNumbers, HandNumbers

LEMMA WriteNumbers ==
  ASSUME TypesOK, Numbers, NEW v \in Worker, NEW q \in batch[v].todo, WritePayload(v, q)
  PROVE  Numbers'
<1>1. UNCHANGED <<removed, snapshot, seq>>
  BY Writing
<1>2. ASSUME NEW r \in Record
      PROVE  /\ rows'[r] <= seq /\ tombs'[r] <= seq
             /\ snapshot[r] # 0 => rows'[r] <= snapshot[r] /\ tombs'[r] < snapshot[r]
  <2>1. /\ rows[r] \in Nat /\ tombs[r] \in Nat /\ snapshot[r] \in Nat /\ seq \in Nat
        /\ rows[r] <= seq /\ tombs[r] <= seq
        /\ snapshot[r] # 0 => rows[r] <= snapshot[r] /\ tombs[r] < snapshot[r]
    BY DEF TypesOK, Numbers, RecordNumbers, DeleteNumbers, HandNumbers
  <2>2. /\ q.seq \in Nat /\ q.seq <= seq
        /\ snapshot[q.rec] # 0 => q.seq <= snapshot[q.rec]
    BY HandTyped DEF Numbers, RecordNumbers, DeleteNumbers, HandNumbers
  <2>3. rows'[r] = rows[r] \/ (r = q.rec /\ rows'[r] = q.seq)
    BY Writing
  <2>4. tombs'[r] = tombs[r] \/ tombs'[r] = 0
    BY Writing
  <2> QED
    BY <2>1, <2>2, <2>3, <2>4
<1>3. ASSUME NEW w \in Worker, NEW p \in batch'[w].todo PROVE p \in batch[w].todo
  BY Writing DEF Elsewhere
<1>4. ASSUME NEW w \in Worker, NEW p \in batch'[w].todo
      PROVE  HandNumbers(p)'
  BY <1>1, <1>3, WritingKnown DEF Numbers, RecordNumbers, DeleteNumbers, HandNumbers
<1>5. ASSUME NEW m, Known(m)', m.kind = "delete"
      PROVE  DeleteNumbers(m)'
  BY <1>1, <1>5, WritingKnown DEF Numbers, RecordNumbers, DeleteNumbers, HandNumbers
<1>6. ASSUME NEW r \in Record
      PROVE  RecordNumbers(r)'
  BY <1>1, <1>2 DEF Numbers, RecordNumbers, DeleteNumbers, HandNumbers
<1> QED
  BY <1>4, <1>5, <1>6 DEF Numbers, RecordNumbers, DeleteNumbers, HandNumbers

(* At rest the consumer may have carried out a removal or a sweep.         *)
LEMMA RestTables ==
  ASSUME TypesOK, NEW w \in Worker, Rests(w)
  PROVE  \/ UNCHANGED <<rows, tombs, removed>>
         \/ \E m \in batch[w].jobs : ProjectDelete(w, m)
         \/ Sweep(w)
BY DEF Rests, StartBatch, EndUpsert, SendNextPage, JobFails

LEMMA RestNumbers ==
  ASSUME TypesOK, Numbers, NEW v \in Worker, Rests(v)
  PROVE  Numbers'
<1> DEFINE Fits(r) ==
      /\ rows'[r] <= seq /\ tombs'[r] <= seq /\ removed'[r] <= seq
      /\ snapshot[r] # 0 =>
           rows'[r] <= snapshot[r] /\ tombs'[r] < snapshot[r] /\ removed'[r] < snapshot[r]
      /\ \/ removed'[r] = removed[r]
         \/ \E m \in batch[v].jobs : m.kind = "delete" /\ m.rec = r /\ removed'[r] = m.seq
<1>1. UNCHANGED <<snapshot, seq>> /\ seq \in Nat
  BY Resting DEF TypesOK
<1>2. ASSUME NEW m, Known(m)', m.kind = "delete" PROVE Known(m)
  <2>1. NextPage(v).kind = "reproject"
    BY DEF NextPage, Rebuild
  <2> QED
    BY <1>2, <2>1, RestingKnown
<1>3. ASSUME NEW r \in Record
      PROVE  Fits(r)
  <2>1. /\ rows[r] \in Nat /\ tombs[r] \in Nat /\ removed[r] \in Nat /\ snapshot[r] \in Nat
        /\ rows[r] <= seq /\ tombs[r] <= seq /\ removed[r] <= seq
        /\ snapshot[r] # 0 => rows[r] <= snapshot[r] /\ tombs[r] < snapshot[r] /\ removed[r] < snapshot[r]
    BY DEF TypesOK, Numbers, RecordNumbers, DeleteNumbers, HandNumbers
  <2>2. CASE UNCHANGED <<rows, tombs, removed>>
    BY <2>1, <2>2
  <2>3. ASSUME NEW m \in batch[v].jobs, ProjectDelete(v, m)
        PROVE  Fits(r)
    <3>1. /\ m.rec \in Record /\ m.seq \in Nat /\ m.seq <= seq
          /\ snapshot[m.rec] # 0 => m.seq < snapshot[m.rec]
      BY <2>3, Deleting DEF Numbers, Known, RecordNumbers, DeleteNumbers, HandNumbers
    <3> QED
      BY <1>1, <2>1, <2>3, <3>1, Deleting
  <2>4. CASE Sweep(v)
    <3>1. (rows'[r] = rows[r] \/ rows'[r] = 0) /\ tombs'[r] = tombs[r] /\ removed'[r] = removed[r]
      BY <2>4, Sweeping
    <3> QED
      BY <1>1, <2>1, <3>1
  <2> QED
    BY <2>2, <2>3, <2>4, RestTables
<1>4. ASSUME NEW w \in Worker, NEW p \in batch'[w].todo
      PROVE  HandNumbers(p)'
  <2>1. p \in batch[w].todo
    BY HandsAfterRest
  <2>2. /\ p.rec \in Record /\ p.seq <= seq /\ p.seq # removed[p.rec]
        /\ snapshot[p.rec] # 0 => p.seq <= snapshot[p.rec]
        /\ \A m : Known(m) /\ m.kind = "delete" /\ m.rec = p.rec => m.seq # p.seq
    BY <2>1, HandTyped DEF Numbers, RecordNumbers, DeleteNumbers, HandNumbers
  <2>3. p.seq # removed'[p.rec]
    BY <1>3, <2>2 DEF Known
  <2> QED
    BY <1>1, <1>2, <2>2, <2>3 DEF HandNumbers
<1>5. ASSUME NEW m, Known(m)', m.kind = "delete"
      PROVE  DeleteNumbers(m)'
  BY <1>1, <1>2, <1>5 DEF Numbers, RecordNumbers, DeleteNumbers, HandNumbers
<1>6. ASSUME NEW r \in Record
      PROVE  RecordNumbers(r)'
  BY <1>1, <1>3 DEF Numbers, RecordNumbers, DeleteNumbers, HandNumbers
<1> QED
  BY <1>4, <1>5, <1>6 DEF Numbers, RecordNumbers, DeleteNumbers, HandNumbers

LEMMA StepNumbers == TypesOK /\ Numbers /\ [Next]_vars => Numbers'
<1> SUFFICES ASSUME TypesOK, Numbers, [Next]_vars PROVE Numbers'
  OBVIOUS
<1>1. CASE UNCHANGED vars
  BY <1>1 DEF vars, Numbers, Known, RecordNumbers, DeleteNumbers, HandNumbers
<1>2. CASE Tick
  BY <1>2 DEF Tick, Numbers, Known, RecordNumbers, DeleteNumbers, HandNumbers
<1>3. CASE StartReprojection
  <2>1. UNCHANGED <<rows, tombs, removed, snapshot, seq, batch>>
    BY <1>3 DEF StartReprojection
  <2>2. ASSUME NEW m, Known(m)', m.kind = "delete" PROVE Known(m)
    <3>1. PICK d : queue' = queue \cup {Rebuild(0, clock + d, seq)}
      BY <1>3 DEF StartReprojection
    <3> QED
      BY <2>1, <2>2, <3>1 DEF Known, Rebuild
  <2> QED
    BY <2>1, <2>2 DEF Numbers, RecordNumbers, DeleteNumbers, HandNumbers
<1> QED
  BY <1>1, <1>2, <1>3, PublishNumbers, ReadNumbers, WriteNumbers, RestNumbers, Steps

-----------------------------------------------------------------------------
(* How far the clocks are apart: a batch is not older than MaxBatch, and a *)
(* rebuild is not ahead of the consumers by more than the skew.            *)
BatchTimes(w) ==
  /\ batch[w].jobs # {} => batch[w].at <= clock /\ clock <= batch[w].at + MaxBatch
  /\ batch[w].msg # NoMessage => batch[w].msg \in batch[w].jobs
  /\ batch[w].msg = NoMessage => batch[w].todo = {}

RebuildTimes(m) == m.epoch <= clock + Skew /\ m.known <= seq

Times ==
  /\ \A w \in Worker : BatchTimes(w)
  /\ \A m : Known(m) /\ m.kind = "reproject" => RebuildTimes(m)

LEMMA RebuildTyped ==
  ASSUME TypesOK, NEW m, Known(m), m.kind = "reproject"
  PROVE  m \in Rebuilds
BY KnownTyped DEF Messages, Job

LEMMA SendersMessage ==
  ASSUME TypesOK, Times, NEW w \in Worker, batch[w].msg.kind = "reproject"
  PROVE  batch[w].msg \in batch[w].jobs /\ Known(batch[w].msg) /\ RebuildTimes(batch[w].msg)
BY DEF Times, BatchTimes, Known, NoMessage

LEMMA InitTimes == Init => Times
BY DEF Init, Between, NoMessage, Times, BatchTimes, Known

LEMMA StepTimes == TypesOK /\ Times /\ [Next]_vars => Times'
<1> SUFFICES ASSUME TypesOK, Times, [Next]_vars PROVE Times'
  OBVIOUS
<1>1. CASE UNCHANGED vars
  BY <1>1 DEF vars, Times, BatchTimes, RebuildTimes, Known
<1>2. ASSUME NEW r \in Record, Publish(r) \/ Unpublish(r) PROVE Times'
  <2>1. UNCHANGED <<clock, batch>> /\ seq \in Nat /\ seq' = seq + 1
    BY <1>2, Publishing
  <2>2. ASSUME NEW m, Known(m)', m.kind = "reproject" PROVE RebuildTimes(m)'
    <3>1. Known(m)
      BY <1>2, <2>2, Publishing
    <3>2. RebuildTimes(m) /\ m.known \in Nat
      BY <2>2, <3>1, RebuildTyped DEF Times, Rebuilds
    <3> QED
      BY <2>1, <3>2 DEF RebuildTimes
  <2> QED
    BY <2>1, <2>2 DEF Times, BatchTimes
<1>3. CASE StartReprojection
  <2>1. PICK d \in -Skew .. Skew : queue' = queue \cup {Rebuild(0, clock + d, seq)}
    BY <1>3 DEF StartReprojection
  <2>2. UNCHANGED <<clock, batch, seq>>
    BY <1>3 DEF StartReprojection
  <2>3. ASSUME NEW m, Known(m)', m.kind = "reproject" PROVE RebuildTimes(m)'
    <3>1. CASE Known(m)
      BY <2>2, <2>3, <3>1 DEF Times, RebuildTimes
    <3>2. CASE m = Rebuild(0, clock + d, seq)
      BY <2>2, <3>2, Constants DEF RebuildTimes, Rebuild, TypesOK
    <3> QED
      BY <2>1, <2>2, <2>3, <3>1, <3>2 DEF Known
  <2> QED
    BY <2>2, <2>3 DEF Times, BatchTimes
<1>4. CASE Tick
  <2>1. UNCHANGED <<seq, queue, batch>> /\ clock \in Nat /\ clock' = clock + 1
    BY <1>4 DEF Tick, TypesOK
  <2>2. ASSUME NEW w \in Worker PROVE BatchTimes(w)'
    <3>1. batch[w].at \in Nat /\ batch'[w] = batch[w]
      BY <2>1 DEF TypesOK, Batches
    <3>2. batch[w].jobs # {} => batch[w].at <= clock /\ clock + 1 - batch[w].at <= MaxBatch
      BY <1>4 DEF Tick, Times, BatchTimes
    <3> QED
      BY <2>1, <3>1, <3>2, Constants DEF Times, BatchTimes
  <2>3. ASSUME NEW m, Known(m)', m.kind = "reproject" PROVE RebuildTimes(m)'
    <3>1. Known(m)
      BY <2>1, <2>3 DEF Known
    <3>2. m.epoch \in Int /\ RebuildTimes(m)
      BY <2>3, <3>1, RebuildTyped DEF Times, Rebuilds
    <3> QED
      BY <2>1, <3>2, Constants DEF RebuildTimes
  <2> QED
    BY <2>2, <2>3 DEF Times
<1>5. ASSUME NEW v \in Worker, NEW n \in batch[v].jobs, ReadPayloads(v, n) PROVE Times'
  <2>1. UNCHANGED <<clock, seq>>
    BY <1>5 DEF ReadPayloads
  <2>2. n # NoMessage
    BY DEF TypesOK, Batches, Messages, Job, Rebuilds, NoMessage
  <2>3. ASSUME NEW w \in Worker PROVE BatchTimes(w)'
    <3>1. CASE w = v
      BY <1>5, <2>1, <2>2, <3>1, Reading DEF Times, BatchTimes
    <3>2. CASE w # v
      BY <1>5, <2>1, <3>2, Reading DEF Elsewhere, Times, BatchTimes
    <3> QED
      BY <3>1, <3>2
  <2> QED
    BY <1>5, <2>1, <2>3, ReadingKnown DEF Times, RebuildTimes
<1>6. ASSUME NEW v \in Worker, NEW q \in batch[v].todo, WritePayload(v, q) PROVE Times'
  <2>1. UNCHANGED <<clock, seq>>
    BY <1>6, Writing
  <2>2. ASSUME NEW w \in Worker PROVE BatchTimes(w)'
    <3>1. CASE w = v
      BY <1>6, <2>1, <3>1, Writing DEF Times, BatchTimes
    <3>2. CASE w # v
      BY <1>6, <2>1, <3>2, Writing DEF Elsewhere, Times, BatchTimes
    <3> QED
      BY <3>1, <3>2
  <2> QED
    BY <1>6, <2>1, <2>2, WritingKnown DEF Times, RebuildTimes
<1>7. ASSUME NEW v \in Worker, Rests(v) PROVE Times'
  <2>1. UNCHANGED <<clock, seq>> /\ clock \in Nat
    BY <1>7, Resting DEF TypesOK
  <2>2. ASSUME NEW w \in Worker PROVE BatchTimes(w)'
    <3>1. CASE w = v
      <4>1. batch'[v].jobs # {} => batch'[v].at <= clock /\ clock <= batch'[v].at + MaxBatch
        BY <1>7, <2>1, Resting, Constants DEF Times, BatchTimes
      <4> QED
        BY <1>7, <2>1, <3>1, <4>1, Resting DEF BatchTimes
    <3>2. CASE w # v
      BY <1>7, <2>1, <3>2, Resting DEF Elsewhere, Times, BatchTimes
    <3> QED
      BY <3>1, <3>2
  <2>3. ASSUME NEW m, Known(m)', m.kind = "reproject" PROVE RebuildTimes(m)'
    <3>1. CASE Known(m)
      BY <2>1, <2>3, <3>1 DEF Times, RebuildTimes
    <3>2. CASE SendNextPage(v) /\ m = NextPage(v)
      <4>1. RebuildTimes(batch[v].msg)
        BY <3>2, SendersMessage DEF SendNextPage
      <4> QED
        BY <2>1, <3>2, <4>1 DEF RebuildTimes, NextPage, Rebuild
    <3> QED
      BY <1>7, <2>3, <3>1, <3>2, RestingKnown
  <2> QED
    BY <2>2, <2>3 DEF Times
<1> QED
  BY <1>1, <1>2, <1>3, <1>4, <1>5, <1>6, <1>7, Steps

-----------------------------------------------------------------------------
(* A payload that a newer row has overtaken is still in hand: the batch    *)
(* that holds it had begun before that row's batch was over.               *)
OldPayload ==
  \A w \in Worker : \A p \in batch[w].todo :
    p.seq < rows[p.rec] => batch[w].at <= stamp[p.rec] + MaxBatch

(* A removal is remembered by the tombstone or by a newer row, or nothing  *)
(* before it is in hand any more.                                          *)
AllNewer(r, n) ==
  \A w \in Worker : \A p \in batch[w].todo : p.rec = r => n < p.seq

NotForgotten ==
  \A r \in Record :
    removed[r] <= tombs[r] \/ removed[r] < rows[r] \/ AllNewer(r, removed[r])

Removals == Numbers /\ Times /\ OldPayload /\ NotForgotten

LEMMA BatchRuns ==
  ASSUME TypesOK, Times, NEW w \in Worker, NEW p \in batch[w].todo
  PROVE  /\ batch[w].at \in Nat /\ clock \in Nat
         /\ batch[w].at <= clock /\ clock <= batch[w].at + MaxBatch
BY DEF TypesOK, Batches, Times, BatchTimes

LEMMA InitRemovals == Init => OldPayload /\ NotForgotten
<1> SUFFICES ASSUME Init PROVE OldPayload /\ NotForgotten
  OBVIOUS
<1>1. \A w \in Worker : batch[w].todo = {}
  BY DEF Init, Between
<1> QED
  BY <1>1 DEF OldPayload, NotForgotten, AllNewer

LEMMA ReadRemovals ==
  ASSUME TypesOK, Removals, NEW v \in Worker, NEW n \in batch[v].jobs, ReadPayloads(v, n)
  PROVE  OldPayload' /\ NotForgotten'
<1>1. UNCHANGED <<rows, tombs, removed, stamp>>
  BY DEF ReadPayloads
<1>2. ASSUME NEW w \in Worker, NEW p \in batch'[w].todo
      PROVE  \/ p \in batch[w].todo /\ batch'[w].at = batch[w].at
             \/ rows[p.rec] <= p.seq /\ removed[p.rec] < p.seq
  <2>1. CASE w = v
    <3>1. p.rec \in Record /\ p.seq = snapshot[p.rec] /\ snapshot[p.rec] # 0
      BY <2>1, Reading, ReadNow
    <3> QED
      BY <3>1 DEF Removals, Numbers, RecordNumbers
  <2>2. CASE w # v
    BY <2>2, Reading DEF Elsewhere
  <2> QED
    BY <2>1, <2>2
<1>3. ASSUME NEW w \in Worker, NEW p \in batch'[w].todo, p.seq < rows[p.rec]
      PROVE  batch'[w].at <= stamp[p.rec] + MaxBatch
  <2>1. p.rec \in Record /\ p.seq \in Nat /\ rows[p.rec] \in Nat
    <3>1. TypesOK'
      BY StepTypes DEF Next
    <3>2. p \in Payload
      BY <3>1 DEF TypesOK, Batches
    <3> QED
      BY <3>2 DEF Payload, TypesOK
  <2>2. p \in batch[w].todo /\ batch'[w].at = batch[w].at
    BY <1>2, <1>3, <2>1
  <2> QED
    BY <1>3, <2>2 DEF Removals, OldPayload
<1>4. ASSUME NEW r \in Record
      PROVE  removed[r] <= tombs[r] \/ removed[r] < rows[r] \/ AllNewer(r, removed[r])'
  <2>1. CASE AllNewer(r, removed[r])
    BY <1>1, <1>2, <2>1 DEF AllNewer
  <2> QED
    BY <2>1 DEF Removals, NotForgotten
<1> QED
  BY <1>1, <1>3, <1>4 DEF OldPayload, NotForgotten, AllNewer

LEMMA WriteRemovals ==
  ASSUME TypesOK, Removals, NEW v \in Worker, NEW q \in batch[v].todo, WritePayload(v, q)
  PROVE  OldPayload' /\ NotForgotten'
<1>1. ASSUME NEW w \in Worker, NEW p \in batch'[w].todo
      PROVE  p \in batch[w].todo /\ batch'[w].at = batch[w].at
  BY Writing DEF Elsewhere
<1>2. removed' = removed
  BY Writing
<1>3. ASSUME NEW w \in Worker, NEW p \in batch'[w].todo, p.seq < rows'[p.rec]
      PROVE  batch'[w].at <= stamp'[p.rec] + MaxBatch
  <2>1. p \in batch[w].todo /\ batch'[w].at = batch[w].at /\ p.rec \in Record
    BY <1>1, HandTyped
  <2>2. CASE rows'[p.rec] = rows[p.rec] /\ stamp'[p.rec] = stamp[p.rec]
    BY <1>3, <2>1, <2>2 DEF Removals, OldPayload
  <2>3. CASE stamp'[p.rec] = batch[v].at
    <3>1. /\ batch[w].at \in Nat /\ batch[v].at \in Nat /\ clock \in Nat
          /\ batch[w].at <= clock /\ clock <= batch[v].at + MaxBatch
      BY <2>1, BatchRuns DEF Removals
    <3> QED
      BY <2>1, <2>3, <3>1, Constants
  <2> QED
    BY <2>1, <2>2, <2>3, Writing
<1>4. ASSUME NEW r \in Record
      PROVE  removed[r] <= tombs'[r] \/ removed[r] < rows'[r] \/ AllNewer(r, removed[r])'
  <2>1. /\ rows[r] \in Nat /\ tombs[r] \in Nat /\ removed[r] \in Nat
        /\ q.rec \in Record /\ q.seq \in Nat /\ q.seq # removed[q.rec]
    BY HandTyped DEF TypesOK, Removals, Numbers, HandNumbers
  <2>2. CASE AllNewer(r, removed[r])
    BY <1>1, <1>2, <2>2 DEF AllNewer
  <2>3. CASE r # q.rec /\ ~AllNewer(r, removed[r])
    BY <2>3, Writing DEF Removals, NotForgotten
  <2>4. CASE r = q.rec /\ ~AllNewer(r, removed[r])
    <3>1. removed[r] <= tombs[r] \/ removed[r] < rows[r]
      BY <2>4 DEF Removals, NotForgotten
    <3>2. CASE tombs[r] <= q.seq /\ rows[r] <= q.seq
      <4>1. rows'[r] = q.seq
        BY <2>4, <3>2, Writing DEF UpsertWins
      <4> QED
        BY <2>1, <2>4, <3>1, <3>2, <4>1
    <3>3. CASE tombs[r] <= q.seq /\ ~ rows[r] <= q.seq
      <4>1. rows'[r] = rows[r]
        BY <2>4, <3>3, Writing DEF UpsertWins
      <4> QED
        BY <2>1, <2>4, <3>1, <3>3, <4>1
    <3>4. CASE ~ tombs[r] <= q.seq
      BY <2>4, <3>1, <3>4, Writing DEF UpsertWins
    <3> QED
      BY <3>2, <3>3, <3>4
  <2> QED
    BY <2>2, <2>3, <2>4
<1> QED
  BY <1>2, <1>3, <1>4 DEF OldPayload, NotForgotten, AllNewer

(* Only a sweep forgets a removal, by taking the newer row; and by then    *)
(* nothing from before the removal is in hand.                             *)
LEMMA RestRemovals ==
  ASSUME TypesOK, Removals, Margin >= Skew + 2 * MaxBatch, NEW v \in Worker, Rests(v)
  PROVE  OldPayload' /\ NotForgotten'
<1>1. ASSUME NEW w \in Worker, NEW p \in batch'[w].todo
      PROVE  p \in batch[w].todo /\ batch'[w].at = batch[w].at /\ p.rec \in Record /\ p.seq \in Nat
  BY HandsAfterRest, HandTyped
<1>2. stamp' = stamp
  BY Resting
<1>3. \A r \in Record : rows'[r] = rows[r] \/ rows'[r] = 0
  BY RestTables, Deleting, Sweeping
<1>4. ASSUME NEW w \in Worker, NEW p \in batch'[w].todo, p.seq < rows'[p.rec]
      PROVE  batch'[w].at <= stamp'[p.rec] + MaxBatch
  <2>1. p.seq < rows[p.rec]
    BY <1>1, <1>3, <1>4
  <2> QED
    BY <1>1, <1>2, <2>1 DEF Removals, OldPayload
<1>5. ASSUME NEW r \in Record
      PROVE  removed'[r] <= tombs'[r] \/ removed'[r] < rows'[r] \/ AllNewer(r, removed[r])'
  <2>1. rows[r] \in Nat /\ tombs[r] \in Nat /\ removed[r] \in Nat /\ stamp[r] \in Nat
    BY DEF TypesOK
  <2>2. removed[r] <= tombs[r] \/ removed[r] < rows[r] \/ AllNewer(r, removed[r])
    BY DEF Removals, NotForgotten
  <2>3. CASE UNCHANGED <<rows, tombs, removed>>
    BY <1>1, <2>2, <2>3 DEF AllNewer
  <2>4. ASSUME NEW m \in batch[v].jobs, ProjectDelete(v, m)
        PROVE  removed'[r] <= tombs'[r] \/ removed'[r] < rows'[r] \/ AllNewer(r, removed[r])'
    <3>1. CASE r # m.rec
      BY <1>1, <2>2, <2>4, <3>1, Deleting DEF AllNewer
    <3>2. CASE r = m.rec /\ removed[r] < m.seq
      BY <2>1, <2>4, <3>2, Deleting
    <3>3. CASE r = m.rec /\ ~ removed[r] < m.seq
      <4>1. m.seq \in Nat /\ removed'[r] = removed[r]
        BY <2>4, <3>3, Deleting
      <4>2. CASE removed[r] <= tombs[r]
        BY <2>1, <2>4, <3>3, <4>1, <4>2, Deleting
      <4>3. CASE removed[r] < rows[r]
        BY <2>1, <2>4, <3>3, <4>1, <4>3, Deleting
      <4>4. CASE AllNewer(r, removed[r])
        BY <1>1, <4>1, <4>4 DEF AllNewer
      <4> QED
        BY <2>2, <4>2, <4>3, <4>4
    <3> QED
      BY <3>1, <3>2, <3>3
  <2>5. CASE Sweep(v)
    <3>1. tombs' = tombs /\ removed' = removed
      BY <2>5, Sweeping
    <3>2. CASE removed[r] <= tombs[r] \/ AllNewer(r, removed[r])
      BY <1>1, <3>1, <3>2 DEF AllNewer
    <3>3. CASE rows'[r] = rows[r] /\ removed[r] < rows[r]
      BY <3>1, <3>3
    <3>4. CASE removed[r] < rows[r] /\ stamp[r] < batch[v].msg.epoch - Margin
      <4>1. batch[v].msg.epoch \in Int /\ batch[v].msg.epoch <= clock + Skew
        BY <2>5, Sweeping, SendersMessage DEF Rebuilds, RebuildTimes, Removals
      <4>2. ASSUME NEW w \in Worker, NEW p \in batch[w].todo, p.rec = r
            PROVE  removed[r] < p.seq
        <5>1. p.seq \in Nat
          BY HandTyped
        <5>2. /\ batch[w].at \in Nat /\ clock \in Nat
              /\ batch[w].at <= clock /\ clock <= batch[w].at + MaxBatch
          BY BatchRuns DEF Removals
        <5>3. ~ p.seq < rows[r]
          <6>1. SUFFICES ASSUME batch[w].at <= stamp[r] + MaxBatch PROVE FALSE
            BY <4>2 DEF Removals, OldPayload
          <6> QED
            BY <2>1, <3>4, <4>1, <5>2, <6>1, Constants
        <5> QED
          BY <2>1, <3>4, <5>1, <5>3
      <4> QED
        BY <1>1, <3>1, <4>2 DEF AllNewer
    <3> QED
      BY <2>2, <2>5, <3>2, <3>3, <3>4, Sweeping
  <2> QED
    BY <2>3, <2>4, <2>5, RestTables
<1> QED
  BY <1>4, <1>5 DEF OldPayload, NotForgotten

LEMMA StepRemovals ==
  ASSUME TypesOK, Removals, [Next]_vars, Margin >= Skew + 2 * MaxBatch
  PROVE  OldPayload' /\ NotForgotten'
<1>1. CASE UNCHANGED <<rows, tombs, stamp, batch, removed>>
  BY <1>1 DEF Removals, OldPayload, NotForgotten, AllNewer
<1>2. ASSUME UNCHANGED vars \/ Tick \/ StartReprojection
      PROVE  UNCHANGED <<rows, tombs, stamp, batch, removed>>
  BY <1>2 DEF vars, Tick, StartReprojection
<1> QED
  BY <1>1, <1>2, Publishing, ReadRemovals, WriteRemovals, RestRemovals, Steps

-----------------------------------------------------------------------------
(* What a rebuild has passed is there and is safe from its sweep.          *)
Rebuilt(m, r) ==
  snapshot[r] # 0 =>
    /\ snapshot[r] <= m.known => rows[r] = snapshot[r]
    /\ rows[r] = snapshot[r] => m.epoch - Margin <= stamp[r]

(* A page at work: behind the cursor, in hand, or still to come.           *)
Passing(w, r) ==
  \/ Rebuilt(batch[w].msg, r) \/ InHand(w, r, snapshot[r])
  \/ batch[w].next # 0 /\ r > batch[w].next

Pages ==
  /\ \A m : Known(m) /\ m.kind = "reproject" =>
       \A r \in Record : r <= m.from => Rebuilt(m, r)
  /\ \A w \in Worker : batch[w].msg.kind = "reproject" => \A r \in Record : Passing(w, r)

Restores == Numbers /\ Times /\ Pages

LEMMA InitPages == Init => Pages
BY DEF Init, Between, NoMessage, Pages, Known

(* What keeps its row, its stamp and its snapshot stays rebuilt.           *)
LEMMA StillRebuilt ==
  ASSUME NEW r \in Record, snapshot'[r] = snapshot[r], rows'[r] = rows[r],
         stamp'[r] = stamp[r], NEW m, Rebuilt(m, r)
  PROVE  Rebuilt(m, r)'
BY DEF Rebuilt

(* A payload that is written last is stamped after the epoch.              *)
LEMMA WrittenIsRebuilt ==
  ASSUME TypesOK, Restores, Margin >= Skew + MaxBatch,
         NEW v \in Worker, NEW q \in batch[v].todo, WritePayload(v, q),
         NEW m, Known(m), m.kind = "reproject", UpsertWins(q.rec, q.seq)
  PROVE  /\ rows'[q.rec] = q.seq
         /\ m.epoch - Margin <= stamp'[q.rec]
<1>1. rows'[q.rec] = q.seq /\ stamp'[q.rec] = batch[v].at
  BY Writing
<1>2. m.epoch \in Int /\ m.epoch <= clock + Skew
  BY RebuildTyped DEF Rebuilds, Restores, Times, RebuildTimes
<1>3. /\ batch[v].at \in Nat /\ clock \in Nat /\ clock <= batch[v].at + MaxBatch
  BY BatchRuns DEF Restores
<1> QED
  BY <1>1, <1>2, <1>3, Constants

LEMMA WriteKeeps ==
  ASSUME TypesOK, Restores, Margin >= Skew + MaxBatch,
         NEW v \in Worker, NEW q \in batch[v].todo, WritePayload(v, q),
         NEW m, Known(m), m.kind = "reproject", NEW r \in Record, Rebuilt(m, r)
  PROVE  Rebuilt(m, r)'
<1>1. UNCHANGED snapshot
  BY Writing
<1>2. CASE r # q.rec \/ ~UpsertWins(q.rec, q.seq)
  BY <1>1, <1>2, Writing, StillRebuilt
<1>3. CASE r = q.rec /\ UpsertWins(q.rec, q.seq)
  <2>1. rows'[r] = q.seq /\ m.epoch - Margin <= stamp'[r]
    BY <1>3, WrittenIsRebuilt
  <2>2. /\ q.seq \in Nat /\ snapshot[r] \in Nat /\ rows[r] <= q.seq
        /\ snapshot[r] # 0 => q.seq <= snapshot[r]
    BY <1>3, HandTyped DEF TypesOK, Restores, Numbers, HandNumbers, UpsertWins
  <2> QED
    BY <1>1, <2>1, <2>2 DEF Rebuilt
<1> QED
  BY <1>2, <1>3

LEMMA WritePages ==
  ASSUME TypesOK, Restores, Margin >= Skew + MaxBatch,
         NEW v \in Worker, NEW q \in batch[v].todo, WritePayload(v, q)
  PROVE  Pages'
<1>1. ASSUME NEW m, Known(m)', m.kind = "reproject", NEW r \in Record, r <= m.from
      PROVE  Rebuilt(m, r)'
  <2>1. Known(m)
    BY <1>1, WritingKnown
  <2> QED
    BY <1>1, <2>1, WriteKeeps DEF Restores, Pages
<1>2. ASSUME NEW w \in Worker, batch'[w].msg.kind = "reproject", NEW r \in Record
      PROVE  Passing(w, r)'
  <2>1. batch'[w].msg = batch[w].msg /\ batch'[w].next = batch[w].next /\ UNCHANGED snapshot
    BY Writing DEF Elsewhere
  <2>2. Known(batch[w].msg) /\ Passing(w, r)
    BY <1>2, <2>1, SendersMessage DEF Restores, Pages
  <2>3. CASE Rebuilt(batch[w].msg, r)
    <3>1. PICK m : m = batch[w].msg
      OBVIOUS
    <3>2. Rebuilt(m, r)'
      BY <1>2, <2>1, <2>2, <2>3, <3>1, WriteKeeps
    <3> QED
      BY <2>1, <3>1, <3>2 DEF Passing, Rebuilt
  <2>4. CASE InHand(w, r, snapshot[r])
    <3>1. PICK p : p = [rec |-> r, seq |-> snapshot[r]]
      OBVIOUS
    <3>2. CASE w = v /\ p = q /\ snapshot[r] # 0
      <4>1. UpsertWins(q.rec, q.seq) /\ q.rec = r /\ q.seq = snapshot[r]
        BY <3>1, <3>2 DEF TypesOK, Restores, Numbers, RecordNumbers, UpsertWins
      <4>2. PICK m : m = batch[w].msg
        OBVIOUS
      <4>3. rows'[r] = snapshot[r] /\ m.epoch - Margin <= stamp'[r]
        BY <1>2, <2>1, <2>2, <4>1, <4>2, WrittenIsRebuilt
      <4> QED
        BY <2>1, <4>2, <4>3 DEF Passing, Rebuilt
    <3>3. CASE snapshot[r] = 0
      BY <2>1, <3>3 DEF Passing, Rebuilt
    <3>4. CASE ~(w = v /\ p = q)
      BY <2>1, <2>4, <3>1, <3>4, Writing DEF Passing, InHand, Elsewhere
    <3> QED
      BY <3>2, <3>3, <3>4
  <2>5. CASE batch[w].next # 0 /\ r > batch[w].next
    BY <2>1, <2>5 DEF Passing
  <2> QED
    BY <2>2, <2>3, <2>4, <2>5 DEF Passing
<1> QED
  BY <1>1, <1>2 DEF Pages

LEMMA ReadPages ==
  ASSUME TypesOK, Restores, NEW v \in Worker, NEW n \in batch[v].jobs, ReadPayloads(v, n)
  PROVE  Pages'
<1>1. UNCHANGED <<rows, snapshot, stamp>>
  BY DEF ReadPayloads
<1>2. ASSUME NEW m, Known(m)', m.kind = "reproject", NEW r \in Record, r <= m.from
      PROVE  Rebuilt(m, r)'
  BY <1>1, <1>2, ReadingKnown, StillRebuilt DEF Restores, Pages
<1>3. ASSUME NEW w \in Worker, batch'[w].msg.kind = "reproject", NEW r \in Record
      PROVE  Passing(w, r)'
  <2>1. CASE w # v
    <3>1. batch'[w] = batch[w]
      BY <2>1, Reading DEF Elsewhere
    <3>2. Passing(w, r)
      BY <1>3, <3>1 DEF Restores, Pages
    <3> QED
      BY <1>1, <3>1, <3>2 DEF Passing, Rebuilt, InHand
  <2>2. CASE w = v
    <3>1. /\ batch'[v].msg = n /\ n.kind = "reproject"
          /\ batch'[v].todo = Payloads(n) /\ batch'[v].next = NextCursor(Page(n.from))
      BY <1>3, <2>2, Reading
    <3>2. Known(n)
      BY DEF Known
    <3>3. n.from \in Nat
      BY <3>1, <3>2, RebuildTyped DEF Rebuilds
    <3>4. CASE snapshot[r] = 0
      BY <1>1, <3>4 DEF Passing, Rebuilt
    <3>5. CASE r <= n.from
      BY <1>1, <2>2, <3>1, <3>2, <3>5 DEF Restores, Pages, Passing, Rebuilt
    <3>6. CASE snapshot[r] # 0 /\ r \in Page(n.from)
      <4>1. [rec |-> r, seq |-> snapshot[r]] \in Payloads(n)
        BY <3>1, <3>6 DEF Payloads
      <4> QED
        BY <1>1, <2>2, <3>1, <4>1 DEF Passing, InHand
    <3>7. CASE NextCursor(Page(n.from)) # 0 /\ r > NextCursor(Page(n.from))
      BY <2>2, <3>1, <3>7 DEF Passing
    <3>8. r <= n.from \/ r > n.from
      BY <3>3, RecordsAreNumbers
    <3> QED
      BY <3>3, <3>4, <3>5, <3>6, <3>7, <3>8, CursorOfPage
  <2> QED
    BY <2>1, <2>2
<1> QED
  BY <1>2, <1>3 DEF Pages

(* When the sweep comes, the rebuild has passed every record.              *)
LEMMA AllPassed ==
  ASSUME TypesOK, Restores, NEW w \in Worker, Sweep(w), NEW r \in Record
  PROVE  Rebuilt(batch[w].msg, r)
<1>1. Sweeps(w)
  BY DEF Sweep
<1> QED
  BY <1>1 DEF Sweeps, Restores, Pages, Passing, InHand

(* A row that shows the snapshot of its record is not taken away.          *)
LEMMA RestKeepsCurrent ==
  ASSUME TypesOK, Restores, NEW v \in Worker, Rests(v), NEW r \in Record,
         rows[r] = snapshot[r], snapshot[r] # 0
  PROVE  rows'[r] = rows[r]
<1>1. CASE UNCHANGED rows
  BY <1>1
<1>2. ASSUME NEW m \in batch[v].jobs, ProjectDelete(v, m) PROVE rows'[r] = rows[r]
  <2>1. m.rec = r => m.seq \in Nat /\ m.seq < snapshot[r]
    BY <1>2, Deleting DEF Restores, Numbers, DeleteNumbers, Known
  <2> QED
    BY <1>2, <2>1, Deleting DEF TypesOK
<1>3. CASE Sweep(v)
  <2>1. batch[v].msg.epoch - Margin <= stamp[r]
    BY <1>3, AllPassed DEF Rebuilt
  <2>2. batch[v].msg.epoch \in Int /\ stamp[r] \in Nat
    BY <1>3, Sweeping DEF Rebuilds, TypesOK
  <2> QED
    BY <1>3, <2>1, <2>2, Sweeping, Constants
<1> QED
  BY <1>1, <1>2, <1>3, RestTables

LEMMA RestPages ==
  ASSUME TypesOK, Restores, NEW v \in Worker, Rests(v)
  PROVE  Pages'
<1>1. UNCHANGED <<snapshot, stamp>>
  BY Resting
<1>2. ASSUME NEW m, NEW r \in Record, Rebuilt(m, r)
      PROVE  Rebuilt(m, r)'
  <2>1. rows'[r] = rows[r] \/ rows'[r] = 0
    BY RestTables, Deleting, Sweeping
  <2> QED
    BY <1>1, <1>2, <2>1, RestKeepsCurrent DEF Rebuilt
<1>3. ASSUME NEW m, Known(m)', m.kind = "reproject", NEW r \in Record, r <= m.from
      PROVE  Rebuilt(m, r)'
  <2>1. CASE Known(m)
    BY <1>2, <1>3, <2>1 DEF Restores, Pages
  <2>2. CASE SendNextPage(v) /\ m = NextPage(v)
    <3>1. Passing(v, r) /\ batch[v].todo = {}
      BY <2>2 DEF SendNextPage, Restores, Pages
    <3>2. batch[v].next \in Nat /\ r \in Nat /\ r <= batch[v].next
      BY <1>3, <2>2, RecordsAreNumbers DEF NextPage, Rebuild, TypesOK, Batches
    <3>3. Rebuilt(batch[v].msg, r)
      BY <3>1, <3>2 DEF Passing, InHand
    <3>4. m.known = batch[v].msg.known /\ m.epoch = batch[v].msg.epoch
      BY <2>2 DEF NextPage, Rebuild
    <3>5. Rebuilt(m, r)
      BY <3>3, <3>4 DEF Rebuilt
    <3> QED
      BY <1>2, <3>5
  <2> QED
    BY <1>3, <2>1, <2>2, RestingKnown
<1>4. ASSUME NEW w \in Worker, batch'[w].msg.kind = "reproject", NEW r \in Record
      PROVE  Passing(w, r)'
  <2>1. w # v /\ batch'[w] = batch[w]
    BY <1>4, Resting DEF Elsewhere, NoMessage
  <2>2. Passing(w, r)
    BY <1>4, <2>1 DEF Restores, Pages
  <2>3. CASE Rebuilt(batch[w].msg, r)
    <3>1. PICK m : m = batch[w].msg
      OBVIOUS
    <3>2. Rebuilt(m, r)'
      BY <1>2, <2>3, <3>1
    <3> QED
      BY <2>1, <3>1, <3>2 DEF Passing, Rebuilt
  <2> QED
    BY <1>1, <2>1, <2>2, <2>3 DEF Passing, InHand
<1> QED
  BY <1>3, <1>4 DEF Pages

LEMMA PublishPages ==
  ASSUME TypesOK, Restores, NEW x \in Record, Publish(x) \/ Unpublish(x)
  PROVE  Pages'
<1>1. UNCHANGED <<rows, stamp, batch>>
  BY Publishing
<1>2. ASSUME NEW m, Known(m), m.kind = "reproject"
      PROVE  Rebuilt(m, x)'
  <2>1. m.known \in Nat /\ m.known <= seq /\ rows[x] \in Nat /\ rows[x] <= seq
    BY <1>2, RebuildTyped DEF Rebuilds, TypesOK, Restores, Times, RebuildTimes, Numbers, RecordNumbers
  <2>2. seq \in Nat /\ (snapshot'[x] # 0 => snapshot'[x] = seq + 1) /\ rows'[x] = rows[x]
    BY Publishing
  <2> QED
    BY <2>1, <2>2 DEF Rebuilt
<1>3. ASSUME NEW m, NEW r \in Record, Known(m), m.kind = "reproject", Rebuilt(m, r)
      PROVE  Rebuilt(m, r)'
  BY <1>1, <1>2, <1>3, Publishing, StillRebuilt
<1>4. ASSUME NEW m, Known(m)', m.kind = "reproject", NEW r \in Record, r <= m.from
      PROVE  Rebuilt(m, r)'
  BY <1>3, <1>4, Publishing DEF Restores, Pages
<1>5. ASSUME NEW w \in Worker, batch'[w].msg.kind = "reproject", NEW r \in Record
      PROVE  Passing(w, r)'
  <2>1. PICK m : m = batch[w].msg
    OBVIOUS
  <2>2. Known(m) /\ Passing(w, r) /\ m.kind = "reproject"
    BY <1>1, <1>5, <2>1, SendersMessage DEF Restores, Pages
  <2>3. CASE r = x \/ Rebuilt(m, r)
    <3>1. Rebuilt(m, r)'
      BY <1>2, <1>3, <2>2, <2>3
    <3> QED
      BY <1>1, <2>1, <3>1 DEF Passing, Rebuilt
  <2>4. CASE r # x /\ ~Rebuilt(m, r)
    <3>1. snapshot'[r] = snapshot[r]
      BY <2>4, Publishing
    <3> QED
      BY <1>1, <2>1, <2>2, <2>4, <3>1 DEF Passing, InHand
  <2> QED
    BY <2>3, <2>4
<1> QED
  BY <1>4, <1>5 DEF Pages

LEMMA StepPages ==
  ASSUME TypesOK, Restores, [Next]_vars, Margin >= Skew + MaxBatch
  PROVE  Pages'
<1>1. CASE UNCHANGED <<rows, snapshot, stamp, batch, queue>>
  BY <1>1 DEF Restores, Pages, Passing, Rebuilt, InHand, Known
<1>2. CASE StartReprojection
  <2>1. UNCHANGED <<rows, snapshot, stamp, batch>>
    BY <1>2 DEF StartReprojection
  <2>2. ASSUME NEW m, Known(m)', m.kind = "reproject", NEW r \in Record, r <= m.from
        PROVE  Rebuilt(m, r)'
    <3>1. PICK d : queue' = queue \cup {Rebuild(0, clock + d, seq)}
      BY <1>2 DEF StartReprojection
    <3>2. Known(m) \/ m = Rebuild(0, clock + d, seq)
      BY <2>1, <2>2, <3>1 DEF Known
    <3>3. r \in Nat /\ r # 0
      BY RecordsAreNumbers
    <3>4. Known(m)
      BY <2>2, <3>2, <3>3 DEF Rebuild
    <3> QED
      BY <2>1, <2>2, <3>4 DEF Restores, Pages, Rebuilt
  <2> QED
    BY <2>1, <2>2 DEF Restores, Pages, Passing, Rebuilt, InHand
<1>3. ASSUME UNCHANGED vars \/ Tick
      PROVE  UNCHANGED <<rows, snapshot, stamp, batch, queue>>
  BY <1>3 DEF vars, Tick
<1> QED
  BY <1>1, <1>2, <1>3, PublishPages, ReadPages, WritePages, RestPages, Steps

-----------------------------------------------------------------------------
(* Every variable keeps its type, whatever the margin.                     *)
THEOREM Types == Spec => []TypesOK
<1>1. Init => TypesOK
  BY InitTypes
<1>2. TypesOK /\ [Next]_vars => TypesOK'
  BY StepTypes
<1> QED
  BY <1>1, <1>2, PTL DEF Spec

(* No row, tombstone, payload or job is ahead of the record's snapshot, a  *)
(* tombstone is always behind it, and no batch is older than the bound;    *)
(* whatever the margin.                                                    *)
THEOREM NumbersAndTimes == Spec => [](Numbers /\ Times)
<1>1. Init => Numbers /\ Times
  BY InitNumbers, InitTimes
<1>2. TypesOK /\ Numbers /\ Times /\ [Next]_vars => (Numbers /\ Times)'
  BY StepNumbers, StepTimes
<1> QED
  BY <1>1, <1>2, Types, PTL DEF Spec

(* What one page of a rebuild has passed stays as it should be: the row of *)
(* an unchanged record is there, and is stamped so that no sweep takes it. *)
THEOREM PagesHold == ASSUME Margin >= Skew + MaxBatch PROVE Spec => []Pages
<1>1. Init => Pages
  BY InitPages
<1>2. TypesOK /\ Numbers /\ Times /\ Pages /\ [Next]_vars => Pages'
  BY StepPages DEF Restores
<1> QED
  BY <1>1, <1>2, Types, NumbersAndTimes, PTL DEF Spec

LEMMA StepSurvives ==
  ASSUME TypesOK, Restores, [Next]_vars, NEW r \in Record, rows[r] # 0, rows[r] = snapshot[r]
  PROVE  rows'[r] # 0
<1>1. ASSUME UNCHANGED vars \/ Tick \/ StartReprojection \/ \E x \in Record : Publish(x) \/ Unpublish(x)
      PROVE  UNCHANGED rows
  BY <1>1, Publishing DEF vars, Tick, StartReprojection
<1>2. ASSUME NEW w \in Worker, NEW m \in batch[w].jobs, ReadPayloads(w, m)
      PROVE  UNCHANGED rows
  BY <1>2 DEF ReadPayloads
<1>3. ASSUME NEW w \in Worker, NEW p \in batch[w].todo, WritePayload(w, p)
      PROVE  rows'[r] # 0
  BY <1>3, Writing DEF Payload
<1>4. ASSUME NEW w \in Worker, Rests(w)
      PROVE  rows'[r] # 0
  BY <1>4, RestKeepsCurrent
<1> QED
  BY <1>1, <1>2, <1>3, <1>4, Steps

(* Readers of a published record are not disturbed: no sweep and no late   *)
(* delete job takes a row that shows the current publication, as long as   *)
(* the margin covers the skew of the clocks and one batch.                 *)
THEOREM CurrentRowsSurvive ==
  ASSUME Margin >= Skew + MaxBatch PROVE Spec => CurrentRowSurvives
<1>1. TypesOK /\ Numbers /\ Times /\ Pages /\ [Next]_vars =>
        [\A r \in Record : rows[r] # 0 /\ rows[r] = snapshot[r] => rows'[r] # 0]_vars
  BY StepSurvives DEF Restores
<1> QED
  BY <1>1, Types, NumbersAndTimes, PagesHold, PTL DEF Spec, CurrentRowSurvives

LEMMA StepRestores ==
  ASSUME TypesOK, Restores, NEW w \in Worker, Sweep(w),
         NEW r \in Record, snapshot[r] \in 1 .. batch[w].msg.known
  PROVE  rows'[r] = snapshot[r]
<1>1. snapshot[r] # 0 /\ snapshot[r] <= batch[w].msg.known
  BY DEF TypesOK
<1>2. rows[r] = snapshot[r]
  BY <1>1, AllPassed DEF Rebuilt
<1> QED
  BY <1>1, <1>2, RestKeepsCurrent DEF Rests

(* A rebuild that comes to its sweep has restored every record that was    *)
(* published when it started and has not changed since, even when other    *)
(* rebuilds, publications and removals ran next to it.                     *)
THEOREM RebuildsRestore ==
  ASSUME Margin >= Skew + MaxBatch PROVE Spec => RebuildRestores
<1>1. TypesOK /\ Numbers /\ Times /\ Pages /\ [Next]_vars =>
        [\A w \in Worker : Sweep(w) =>
           \A r \in Record :
             snapshot[r] \in 1 .. batch[w].msg.known => rows'[r] = snapshot[r]]_vars
  BY StepRestores DEF Restores
<1> QED
  BY <1>1, Types, NumbersAndTimes, PagesHold, PTL DEF Spec, RebuildRestores

LEMMA StepNotShownAgain ==
  ASSUME TypesOK, Removals, [Next]_vars, NEW r \in Record, rows'[r] # rows[r], rows'[r] # 0
  PROVE  rows'[r] > removed[r]
<1>1. ASSUME UNCHANGED vars \/ Tick \/ StartReprojection \/ \E x \in Record : Publish(x) \/ Unpublish(x)
      PROVE  UNCHANGED rows
  BY <1>1, Publishing DEF vars, Tick, StartReprojection
<1>2. ASSUME NEW w \in Worker, NEW m \in batch[w].jobs, ReadPayloads(w, m)
      PROVE  UNCHANGED rows
  BY <1>2 DEF ReadPayloads
<1>3. ASSUME NEW w \in Worker, Rests(w)
      PROVE  rows'[r] = rows[r] \/ rows'[r] = 0
  BY <1>3, RestTables, Deleting, Sweeping
<1>4. ASSUME NEW w \in Worker, NEW p \in batch[w].todo, WritePayload(w, p)
      PROVE  rows'[r] > removed[r]
  <2>1. r = p.rec /\ rows'[r] = p.seq /\ tombs[r] <= p.seq /\ rows[r] <= p.seq
    BY <1>4, Writing DEF UpsertWins
  <2>2. /\ p.seq \in Nat /\ rows[r] \in Nat /\ tombs[r] \in Nat /\ removed[r] \in Nat
        /\ p.seq # removed[r]
    BY <2>1, HandTyped DEF TypesOK, Removals, Numbers, HandNumbers
  <2>3. removed[r] <= tombs[r] \/ removed[r] < rows[r] \/ removed[r] < p.seq
    BY <2>1 DEF Removals, NotForgotten, AllNewer
  <2> QED
    BY <2>1, <2>2, <2>3
<1> QED
  BY <1>1, <1>2, <1>3, <1>4, Steps

(* A removal is final for what was published before it, as long as the     *)
(* margin covers the skew of the clocks and two batches: one that read the *)
(* old payload, and one that wrote the newer row which a sweep then takes. *)
THEOREM RemovalsAreFinal ==
  ASSUME Margin >= Skew + 2 * MaxBatch PROVE Spec => NoResurrection
<1>1. Init => OldPayload /\ NotForgotten
  BY InitRemovals
<1>2. TypesOK /\ Numbers /\ Times /\ OldPayload /\ NotForgotten /\ [Next]_vars
        => (OldPayload /\ NotForgotten)'
  BY StepRemovals DEF Removals
<1>3. TypesOK /\ Numbers /\ Times /\ OldPayload /\ NotForgotten /\ [Next]_vars =>
        [\A r \in Record : rows'[r] # rows[r] /\ rows'[r] # 0 => rows'[r] > removed[r]]_vars
  BY StepNotShownAgain DEF Removals
<1> QED
  BY <1>1, <1>2, <1>3, Types, NumbersAndTimes, PTL DEF Spec, NoResurrection
===============================================================================
