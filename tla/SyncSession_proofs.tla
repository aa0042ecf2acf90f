------------------------- MODULE SyncSession_proofs -------------------------
(* Safety of the sync session, for any records, edits, pages, batches and  *)
(* bounds.                                                                 *)
EXTENDS SyncSession, FiniteSetTheorems, SequenceTheorems, WellFoundedInduction, TLAPS

-----------------------------------------------------------------------------
(* Picked keeps what is at the positions, each once.                       *)
LEMMA PickedPositions ==
  ASSUME NEW I, IsFiniteSet(I), I \subseteq Nat,
         NEW at, at = [k \in 1 .. Cardinality(I) |->
                         CHOOSE i \in I : Cardinality({j \in I : j <= i}) = k]
  PROVE  /\ Cardinality(I) \in Nat
         /\ at \in [1 .. Cardinality(I) -> I]
         /\ \A k, l \in 1 .. Cardinality(I) : at[k] = at[l] => k = l
         /\ \A i \in I : \E k \in 1 .. Cardinality(I) : at[k] = i
<1> DEFINE Upto(i) == {j \in I : j <= i}
           n == Cardinality(I)
           rank == [i \in I |-> Cardinality(Upto(i))]
<1>1. n \in Nat /\ IsFiniteSet(1 .. n) /\ Cardinality(1 .. n) = n
  BY FS_CardinalityType, FS_Interval
<1>2. ASSUME NEW i \in I
      PROVE  IsFiniteSet(Upto(i)) /\ Cardinality(Upto(i)) \in 1 .. n
  <2>1. Upto(i) \subseteq I /\ i \in Upto(i)
    OBVIOUS
  <2>2. IsFiniteSet(Upto(i)) /\ Cardinality(Upto(i)) <= n
    BY <2>1, FS_Subset
  <2>3. Cardinality(Upto(i)) \in Nat /\ Cardinality(Upto(i)) # 0
    BY <2>1, <2>2, FS_CardinalityType, FS_EmptySet
  <2> QED
    BY <1>1, <2>2, <2>3
<1>3. ASSUME NEW i \in I, NEW j \in I, i < j
      PROVE  Cardinality(Upto(i)) # Cardinality(Upto(j))
  <2>1. i \in Nat /\ j \in Nat /\ i < j
    BY <1>3
  <2>2. \A k \in Upto(i) : k \in Upto(j)
    BY <2>1
  <2>3. j \in Upto(j) /\ j \notin Upto(i)
    BY <2>1
  <2> QED
    BY <1>2, <2>2, <2>3, FS_Subset
<1>4. rank \in [I -> 1 .. n] /\ \A i, j \in I : rank[i] = rank[j] => i = j
  <2>1. rank \in [I -> 1 .. n]
    BY <1>2
  <2>2. \A i, j \in I : i < j => rank[i] # rank[j]
    BY <1>3
  <2>3. \A i, j \in I : i < j \/ j < i \/ i = j
    OBVIOUS
  <2> QED
    BY <2>1, <2>2, <2>3
<1>5. rank \in Injection(I, 1 .. n)
  BY <1>4 DEF Injection, IsInjective
<1>6. rank \in Surjection(I, 1 .. n)
  BY <1>1, <1>5, FS_Injection
<1>7. \A k \in 1 .. n : \E i \in I : rank[i] = k
  BY <1>6 DEF Surjection
<1>8. \A k \in 1 .. n : at[k] \in I /\ rank[at[k]] = k
  BY <1>7
<1>9. DOMAIN at = 1 .. n /\ at = [k \in 1 .. n |-> at[k]]
  OBVIOUS
<1> HIDE DEF rank, n
<1>10. at \in [1 .. n -> I]
  BY <1>8, <1>9
<1>11. \A k, l \in 1 .. n : at[k] = at[l] => k = l
  BY <1>8
<1>12. \A i \in I : rank[i] \in 1 .. n /\ at[rank[i]] = i
  BY <1>4, <1>8
<1> QED
  BY <1>1, <1>10, <1>11, <1>12 DEF n

LEMMA PickedSeq ==
  ASSUME NEW S, NEW s \in Seq(S), NEW I, I \subseteq 1 .. Len(s)
  PROVE  /\ Picked(s, I) \in Seq(S)
         /\ \A k \in 1 .. Len(Picked(s, I)) : \E i \in I : Picked(s, I)[k] = s[i]
         /\ \A i \in I : \E k \in 1 .. Len(Picked(s, I)) : Picked(s, I)[k] = s[i]
         /\ IsInjective(s) => IsInjective(Picked(s, I))
<1> DEFINE n == Cardinality(I)
           at == [k \in 1 .. n |-> CHOOSE i \in I : Cardinality({j \in I : j <= i}) = k]
<1>1. Len(s) \in Nat /\ DOMAIN s = 1 .. Len(s) /\ \A i \in 1 .. Len(s) : s[i] \in S
  BY LenProperties
<1>2. IsFiniteSet(I) /\ I \subseteq Nat
  <2>1. IsFiniteSet(1 .. Len(s)) /\ 1 .. Len(s) \subseteq Nat
    BY <1>1, FS_Interval
  <2> QED
    BY <2>1, FS_Subset
<1>3. /\ n \in Nat /\ at \in [1 .. n -> I]
      /\ \A k, l \in 1 .. n : at[k] = at[l] => k = l
      /\ \A i \in I : \E k \in 1 .. n : at[k] = i
  BY <1>2, PickedPositions
<1>4. Picked(s, I) = [k \in 1 .. n |-> s[at[k]]]
  BY DEF Picked
<1> HIDE DEF at, n
<1>5. Picked(s, I) \in [1 .. n -> S]
  BY <1>1, <1>3, <1>4
<1>6. Picked(s, I) \in Seq(S) /\ Len(Picked(s, I)) = n /\ DOMAIN Picked(s, I) = 1 .. n
  BY <1>3, <1>5, SeqDef, LenProperties
<1>7. \A k \in 1 .. n : Picked(s, I)[k] = s[at[k]] /\ at[k] \in I
  BY <1>3, <1>4
<1>8. ASSUME IsInjective(s)
      PROVE  IsInjective(Picked(s, I))
  <2>1. \A i, j \in I : s[i] = s[j] => i = j
    BY <1>1, <1>8 DEF IsInjective
  <2>2. ASSUME NEW k \in 1 .. n, NEW l \in 1 .. n, Picked(s, I)[k] = Picked(s, I)[l]
        PROVE  k = l
    <3>1. s[at[k]] = s[at[l]] /\ at[k] \in I /\ at[l] \in I
      BY <1>7, <2>2
    <3> QED
      BY <1>3, <2>1, <3>1
  <2> QED
    BY <1>6, <2>2 DEF IsInjective
<1>9. \A k \in 1 .. n : \E i \in I : Picked(s, I)[k] = s[i]
  BY <1>7
<1>10. \A i \in I : \E k \in 1 .. n : Picked(s, I)[k] = s[i]
  BY <1>3, <1>7
<1> QED
  BY <1>6, <1>8, <1>9, <1>10

LEMMA WithoutSeq ==
  ASSUME NEW S, NEW s \in Seq(S), NEW E
  PROVE  /\ Without(s, E) \in Seq(S)
         /\ \A x : x \in ToSet(Without(s, E)) <=> x \in ToSet(s) /\ x \notin E
         /\ IsInjective(s) => IsInjective(Without(s, E))
<1> DEFINE I == {i \in DOMAIN s : s[i] \notin E}
           w == Picked(s, I)
<1>1. Len(s) \in Nat /\ DOMAIN s = 1 .. Len(s)
  BY LenProperties
<1>2. Without(s, E) = w
  BY DEF Without
<1>3. /\ w \in Seq(S)
      /\ \A k \in 1 .. Len(w) : \E i \in I : w[k] = s[i]
      /\ \A i \in I : \E k \in 1 .. Len(w) : w[k] = s[i]
      /\ IsInjective(s) => IsInjective(w)
  BY <1>1, PickedSeq
<1>4. DOMAIN w = 1 .. Len(w)
  BY <1>3, LenProperties
<1> HIDE DEF w
<1>5. \A x : x \in ToSet(w) <=> x \in ToSet(s) /\ x \notin E
  <2> TAKE x
  <2>1. x \in ToSet(w) <=> \E k \in 1 .. Len(w) : w[k] = x
    BY <1>4 DEF ToSet
  <2>2. x \in ToSet(s) <=> \E i \in DOMAIN s : s[i] = x
    BY DEF ToSet
  <2> QED
    BY <1>3, <2>1, <2>2
<1> QED
  BY <1>2, <1>3, <1>5

(* A sequence is one of any set that its elements are in.                  *)
LEMMA SeqNarrow ==
  ASSUME NEW S, NEW T, NEW s \in Seq(S), \A i \in 1 .. Len(s) : s[i] \in T
  PROVE  s \in Seq(T)
<1>1. Len(s) \in Nat /\ s \in [1 .. Len(s) -> S]
  BY LenProperties
<1>2. s \in [1 .. Len(s) -> T]
  BY <1>1
<1> QED
  BY <1>1, <1>2, SeqDef

LEMMA InSet ==
  ASSUME NEW S, NEW s \in Seq(S)
  PROVE  /\ \A x : x \in ToSet(s) <=> \E i \in 1 .. Len(s) : s[i] = x
         /\ ToSet(s) \subseteq S
         /\ DOMAIN s = 1 .. Len(s) /\ Len(s) \in Nat
<1>1. Len(s) \in Nat /\ DOMAIN s = 1 .. Len(s) /\ \A i \in 1 .. Len(s) : s[i] \in S
  BY LenProperties
<1> QED
  BY <1>1 DEF ToSet

LEMMA TailAt ==
  ASSUME NEW S, NEW s \in Seq(S), s # <<>>
  PROVE  /\ Len(s) \in Nat \ {0}
         /\ Head(s) = s[1] /\ Head(s) \in S
         /\ Tail(s) \in Seq(S) /\ Len(Tail(s)) = Len(s) - 1
         /\ \A i \in 1 .. Len(Tail(s)) : i + 1 \in 1 .. Len(s) /\ Tail(s)[i] = s[i + 1]
<1>1. Len(s) \in Nat \ {0}
  BY EmptySeq
<1>2. /\ Head(s) \in S /\ Tail(s) \in Seq(S) /\ Len(Tail(s)) = Len(s) - 1
      /\ \A i \in 1 .. Len(Tail(s)) : Tail(s)[i] = s[i + 1]
  BY HeadTailProperties
<1> QED
  BY <1>1, <1>2

-----------------------------------------------------------------------------
(* The highest seq of a table.                                             *)
LEMMA Smallest ==
  ASSUME NEW S \in SUBSET Nat, S # {}
  PROVE  \E m \in S : \A x \in S : m <= x
<1> DEFINE less == {ss \in Nat \X Nat : ss[1] < ss[2]}
<1>1. IsWellFoundedOn(less, Nat)
  BY NatLessThanWellFounded DEF OpToRel
<1>2. PICK m \in S : \A x \in S : <<x, m>> \notin less
  <2> HIDE DEF less
  <2> QED
    BY <1>1, WFMin
<1>3. \A x \in S : ~ x < m
  BY <1>2
<1> HIDE DEF less
<1> QED
  BY <1>3

LEMMA Greatest ==
  ASSUME NEW b \in Nat, NEW S \in SUBSET (0 .. b), S # {}
  PROVE  \E m \in S : \A x \in S : x <= m
<1> DEFINE T == {b - x : x \in S}
<1>1. T \in SUBSET Nat /\ T # {}
  <2>1. \A x \in S : x \in 0 .. b /\ b - x \in Nat
    OBVIOUS
  <2> QED
    BY <2>1
<1>2. PICK t \in T : \A y \in T : t <= y
  BY <1>1, Smallest
<1>3. PICK m \in S : t = b - m
  BY <1>2
<1>4. \A x \in S : b - m <= b - x
  BY <1>2, <1>3
<1> QED
  BY <1>4

LEMMA HighestSeqOf ==
  ASSUME NEW t, NEW b \in Nat, \A r \in Record : t[r].seq \in 0 .. b
  PROVE  /\ HighestSeq(t) \in 0 .. b
         /\ \A r \in Record : t[r].seq <= HighestSeq(t)
         /\ HighestSeq(t) = 0 \/ \E r \in Record : HighestSeq(t) = t[r].seq
<1> DEFINE S == {0} \cup {t[r].seq : r \in Record}
<1>1. S \in SUBSET (0 .. b) /\ S # {}
  OBVIOUS
<1>2. PICK m \in S : \A x \in S : x <= m
  BY <1>1, Greatest
<1>3. \A r \in Record : t[r].seq \in S
  OBVIOUS
<1>4. HighestSeq(t) = CHOOSE n \in S : \A r \in Record : t[r].seq <= n
  BY DEF HighestSeq
<1>5. HighestSeq(t) \in S /\ \A r \in Record : t[r].seq <= HighestSeq(t)
  BY <1>2, <1>3, <1>4
<1> QED
  BY <1>1, <1>5

-----------------------------------------------------------------------------
(* Batches of a push, pages of a bootstrap.                                *)
LEMMA Times ==
  ASSUME NEW k \in Nat, NEW a \in Nat, NEW b \in Nat, a <= b
  PROVE  a * k \in Nat /\ b * k \in Nat /\ a * k <= b * k
<1>1. PICK d \in Nat : b = a + d
  <2>1. b - a \in Nat /\ b = a + (b - a)
    OBVIOUS
  <2> QED
    BY <2>1
<1>2. a * k \in Nat /\ d * k \in Nat /\ b * k = a * k + d * k
  BY <1>1
<1> QED
  BY <1>2

LEMMA Division ==
  ASSUME NEW k \in Nat \ {0}, NEW a \in Nat, NEW b \in Nat, a <= b
  PROVE  /\ a \div k \in Nat /\ b \div k \in Nat /\ a \div k <= b \div k
         /\ (a \div k) * k \in Nat /\ (a \div k) * k <= a /\ a < (a \div k) * k + k
<1>1. /\ a \div k \in Nat /\ (a \div k) * k <= a /\ a < (a \div k) * k + k
      /\ b \div k \in Nat /\ (b \div k) * k <= b /\ b < (b \div k) * k + k
  OBVIOUS
<1> DEFINE p == a \div k
           q == b \div k
<1> HIDE DEF p, q
<1>2. p \in Nat /\ p * k <= a /\ q \in Nat /\ b < q * k + k
  BY <1>1 DEF p, q
<1>3. ASSUME q + 1 <= p PROVE FALSE
  <2>1. (q + 1) * k <= p * k
    BY <1>2, <1>3, Times
  <2>2. (q + 1) * k = q * k + k /\ q * k \in Nat /\ p * k \in Nat
    BY <1>2
  <2> QED
    BY <1>2, <2>1, <2>2
<1> QED
  BY <1>1, <1>2, <1>3 DEF p, q

LEMMA SameBlock ==
  ASSUME NEW k \in Nat, NEW i \in Nat \ {0}, NEW j \in Nat \ {0}, NEW p \in Nat,
         (i - 1) * k < p, p <= i * k, (j - 1) * k < p, p <= j * k
  PROVE  i = j
<1>1. ASSUME NEW a \in Nat \ {0}, NEW b \in Nat \ {0}, a < b, p <= a * k, (b - 1) * k < p
      PROVE  FALSE
  <2>1. a \in Nat /\ b - 1 \in Nat /\ a <= b - 1
    BY <1>1
  <2>2. a * k \in Nat /\ (b - 1) * k \in Nat /\ a * k <= (b - 1) * k
    BY <2>1, Times
  <2> QED
    BY <1>1, <2>2
<1>2. ~ i < j /\ ~ j < i
  BY <1>1
<1> QED
  BY <1>2

LEMMA BatchesAt ==
  ASSUME NEW cs \in Seq(Change)
  PROVE  /\ Batches(cs) \in Seq(PushMessage)
         /\ \A i \in 1 .. Len(Batches(cs)) :
              /\ Batches(cs)[i].type = "push" /\ Batches(cs)[i].changes \in Seq(Change)
              /\ ToSet(Batches(cs)[i].changes) \subseteq ToSet(cs)
         /\ \A c \in ToSet(cs) : \E i \in 1 .. Len(Batches(cs)) : c \in ToSet(Batches(cs)[i].changes)
         /\ IsInjective(cs) =>
              /\ \A i \in 1 .. Len(Batches(cs)) : IsInjective(Batches(cs)[i].changes)
              /\ \A i, j \in 1 .. Len(Batches(cs)) :
                   \A c \in ToSet(Batches(cs)[i].changes) \cap ToSet(Batches(cs)[j].changes) : i = j
<1> DEFINE k == MaxChangesPerPush
           n == (Len(cs) + k - 1) \div k
           lo(i) == (i - 1) * k + 1
           hi(i) == IF i * k < Len(cs) THEN i * k ELSE Len(cs)
           part(i) == SubSeq(cs, lo(i), hi(i))
<1>1. k \in Nat \ {0} /\ Len(cs) \in Nat /\ DOMAIN cs = 1 .. Len(cs)
      /\ \A x \in 1 .. Len(cs) : cs[x] \in Change
  BY BoundsAssumption, LenProperties
<1>2. n \in Nat
  <2>1. Len(cs) + k - 1 \in Nat
    BY <1>1
  <2> QED
    BY <1>1, <2>1, Division
<1>3. Batches(cs) = [i \in 1 .. n |-> PushOf(part(i))]
  BY DEF Batches
<1> HIDE DEF n
<1>4. ASSUME NEW i \in 1 .. n
      PROVE  /\ lo(i) \in Nat \ {0} /\ hi(i) \in Nat /\ hi(i) <= Len(cs)
             /\ (i - 1) * k \in Nat /\ lo(i) = (i - 1) * k + 1 /\ i * k \in Nat /\ hi(i) <= i * k
             /\ part(i) \in Seq(Change)
             /\ DOMAIN part(i) = 1 .. Len(part(i)) /\ Len(part(i)) \in Nat
             /\ Len(part(i)) = IF lo(i) <= hi(i) THEN hi(i) - lo(i) + 1 ELSE 0
             /\ \A x \in 1 .. Len(part(i)) : /\ lo(i) + x - 1 \in lo(i) .. hi(i)
                                            /\ lo(i) + x - 1 \in 1 .. Len(cs)
                                            /\ part(i)[x] = cs[lo(i) + x - 1]
  <2>1. (i - 1) * k \in Nat /\ i * k \in Nat
    <3>1. i - 1 \in Nat /\ i \in Nat /\ i - 1 <= i /\ k \in Nat
      BY <1>1, <1>2
    <3> QED
      BY <3>1, Times
  <2>2. /\ lo(i) \in Nat \ {0} /\ hi(i) \in Nat /\ hi(i) <= Len(cs) /\ hi(i) <= i * k
        /\ lo(i) = (i - 1) * k + 1
    BY <1>1, <2>1
  <2> HIDE DEF lo, hi
  <2>3. \A x \in lo(i) .. hi(i) : cs[x] \in Change
    BY <1>1, <2>2
  <2>4. /\ part(i) \in Seq(Change)
        /\ Len(part(i)) = IF lo(i) <= hi(i) THEN hi(i) - lo(i) + 1 ELSE 0
        /\ \A x \in 1 .. hi(i) - lo(i) + 1 : part(i)[x] = cs[lo(i) + x - 1]
    BY <2>2, <2>3, SubSeqProperties
  <2>5. Len(part(i)) \in Nat /\ DOMAIN part(i) = 1 .. Len(part(i))
    BY <2>4, LenProperties
  <2> QED
    BY <1>1, <2>1, <2>2, <2>4, <2>5
<1>5. ASSUME NEW i \in 1 .. n
      PROVE  ToSet(part(i)) \subseteq ToSet(cs)
  <2> SUFFICES ASSUME NEW c \in ToSet(part(i)) PROVE c \in ToSet(cs)
    OBVIOUS
  <2>1. PICK x \in 1 .. Len(part(i)) : part(i)[x] = c
    BY <1>4 DEF ToSet
  <2> QED
    BY <1>1, <1>4, <2>1 DEF ToSet
<1>6. Batches(cs) \in [1 .. n -> PushMessage]
  <2>1. \A i \in 1 .. n : PushOf(part(i)) \in PushMessage
    BY <1>4 DEF PushOf, PushMessage
  <2> QED
    BY <1>3, <2>1
<1>7. Batches(cs) \in Seq(PushMessage) /\ Len(Batches(cs)) = n
  BY <1>2, <1>6, SeqDef, LenProperties
<1>8. \A i \in 1 .. n : Batches(cs)[i].type = "push" /\ Batches(cs)[i].changes = part(i)
  BY <1>3 DEF PushOf
<1>9. ASSUME IsInjective(cs), NEW i \in 1 .. n, NEW j \in 1 .. n,
             NEW x \in 1 .. Len(part(i)), NEW y \in 1 .. Len(part(j)),
             part(i)[x] = part(j)[y]
      PROVE  i = j /\ x = y
  <2> DEFINE p == lo(i) + x - 1
             q == lo(j) + y - 1
  <2>1. /\ p \in lo(i) .. hi(i) /\ p \in 1 .. Len(cs) /\ part(i)[x] = cs[p]
        /\ (i - 1) * k \in Nat /\ lo(i) = (i - 1) * k + 1 /\ i * k \in Nat /\ hi(i) <= i * k
        /\ hi(i) \in Nat
    BY <1>4
  <2>2. /\ q \in lo(j) .. hi(j) /\ q \in 1 .. Len(cs) /\ part(j)[y] = cs[q]
        /\ (j - 1) * k \in Nat /\ lo(j) = (j - 1) * k + 1 /\ j * k \in Nat /\ hi(j) <= j * k
        /\ hi(j) \in Nat
    BY <1>4
  <2> HIDE DEF part, hi, p, q
  <2>3. p = q
    BY <1>1, <1>9, <2>1, <2>2 DEF IsInjective
  <2>4. p \in Nat /\ (i - 1) * k < p /\ p <= i * k
    <3> HIDE DEF lo
    <3> QED
      BY <1>1, <2>1
  <2>5. (j - 1) * k < p /\ p <= j * k
    <3> HIDE DEF lo
    <3> QED
      BY <1>1, <2>2, <2>3
  <2>6. i = j
    BY <1>1, <1>2, <2>4, <2>5, SameBlock
  <2>7. x \in Nat /\ y \in Nat /\ lo(i) \in Nat
    BY <1>4
  <2> HIDE DEF lo
  <2> QED
    BY <2>3, <2>6, <2>7 DEF p, q
<1>10. ASSUME IsInjective(cs), NEW i \in 1 .. n
       PROVE  IsInjective(part(i))
  <2>1. DOMAIN part(i) = 1 .. Len(part(i))
    BY <1>4
  <2> HIDE DEF part
  <2> QED
    BY <1>9, <1>10, <2>1 DEF IsInjective
<1>11. ASSUME IsInjective(cs), NEW i \in 1 .. n, NEW j \in 1 .. n,
              NEW c \in ToSet(part(i)) \cap ToSet(part(j))
       PROVE  i = j
  <2>1. PICK x \in 1 .. Len(part(i)) : part(i)[x] = c
    BY <1>4 DEF ToSet
  <2>2. PICK y \in 1 .. Len(part(j)) : part(j)[y] = c
    BY <1>4 DEF ToSet
  <2> QED
    BY <1>9, <1>11, <2>1, <2>2
<1>12. ASSUME NEW c \in ToSet(cs)
       PROVE  \E j \in 1 .. n : c \in ToSet(part(j))
  <2>1. PICK x \in 1 .. Len(cs) : cs[x] = c
    BY <1>1, <1>12 DEF ToSet
  <2>2. PICK j : j = (x + k - 1) \div k
    OBVIOUS
  <2>3. /\ j \in Nat /\ j <= n /\ j * k \in Nat
        /\ j * k <= x + k - 1 /\ x + k - 1 < j * k + k
    <3>1. x + k - 1 \in Nat /\ Len(cs) + k - 1 \in Nat /\ x + k - 1 <= Len(cs) + k - 1
      BY <1>1
    <3> QED
      BY <1>1, <2>2, <3>1, Division DEF n
  <2>4. j # 0
    <3>1. 0 * k = 0
      BY <1>1
    <3> QED
      BY <1>1, <2>3, <3>1
  <2>5. j \in 1 .. n
    BY <1>2, <2>3, <2>4
  <2>6. j * k = (j - 1) * k + k
    BY <1>1, <2>5
  <2>7. /\ lo(j) = (j - 1) * k + 1 /\ (j - 1) * k \in Nat
        /\ hi(j) = IF j * k < Len(cs) THEN j * k ELSE Len(cs)
        /\ Len(part(j)) = IF lo(j) <= hi(j) THEN hi(j) - lo(j) + 1 ELSE 0
        /\ DOMAIN part(j) = 1 .. Len(part(j))
        /\ \A y \in 1 .. Len(part(j)) : part(j)[y] = cs[lo(j) + y - 1]
    BY <1>4, <2>5
  <2> HIDE DEF lo, hi, part
  <2>8. lo(j) <= x /\ x <= hi(j) /\ lo(j) \in Nat /\ hi(j) \in Nat
    BY <1>1, <2>3, <2>6, <2>7
  <2>9. PICK y : y = x - lo(j) + 1
    OBVIOUS
  <2>10. y \in 1 .. Len(part(j)) /\ lo(j) + y - 1 = x
    BY <2>7, <2>8, <2>9
  <2> QED
    BY <2>1, <2>5, <2>7, <2>10 DEF ToSet
<1> HIDE DEF part
<1>13. \A c \in ToSet(cs) : \E i \in 1 .. Len(Batches(cs)) : c \in ToSet(Batches(cs)[i].changes)
  BY <1>7, <1>8, <1>12
<1>14. \A i \in 1 .. n : part(i) \in Seq(Change)
  BY <1>4
<1> QED
  BY <1>5, <1>7, <1>8, <1>10, <1>11, <1>13, <1>14

LEMMA PagesAt ==
  ASSUME TypeOK, NEW n \in Nat
  PROVE  /\ Pages(n) \in Seq(DownMessage) /\ Len(Pages(n)) \in Nat \ {0}
         /\ \A i \in 1 .. Len(Pages(n)) :
              /\ Pages(n)[i].type = "sync" /\ Pages(n)[i].serverSeq = HighestSeq(rows)
              /\ Pages(n)[i].complete = (i = Len(Pages(n)))
              /\ DOMAIN Pages(n)[i].records \subseteq Record
              /\ \A r \in DOMAIN Pages(n)[i].records : Pages(n)[i].records[r] = rows[r]
         /\ \A r \in Record : rows[r].seq > n =>
              \E i \in 1 .. Len(Pages(n)) : r \in DOMAIN Pages(n)[i].records
<1> DEFINE P == PageSize
           full == Cardinality(After(n)) \div P
           recs(i) == {r \in After(n) : Rank(r, n) \in ((i - 1) * P + 1) .. (i * P)}
           page(i) == Sync([r \in recs(i) |-> rows[r]], HighestSeq(rows), i = full + 1)
<1>1. P \in Nat \ {0} /\ MaxSeq \in Nat
  BY BoundsAssumption
<1>2. \A r \in Record : rows[r] \in Row /\ rows[r].seq \in 0 .. MaxSeq
  BY DEF TypeOK, Row
<1>3. After(n) \subseteq Record /\ IsFiniteSet(After(n)) /\ Cardinality(After(n)) \in Nat
  <2>1. After(n) \subseteq Record
    BY DEF After
  <2> QED
    BY <2>1, RecordAssumption, FS_Subset, FS_CardinalityType
<1>4. full \in Nat
  BY <1>1, <1>3, Division
<1>5. HighestSeq(rows) \in 0 .. MaxSeq
  BY <1>1, <1>2, HighestSeqOf
<1>6. Pages(n) = [i \in 1 .. full + 1 |-> page(i)]
  BY DEF Pages
<1>7. ASSUME NEW i \in 1 .. full + 1
      PROVE  page(i) \in DownMessage
  <2>1. recs(i) \subseteq Record
    BY <1>3
  <2> HIDE DEF recs
  <2>2. [r \in recs(i) |-> rows[r]] \in [recs(i) -> Row]
    BY <1>2, <2>1
  <2>3. [r \in recs(i) |-> rows[r]] \in Page
    BY <2>1, <2>2 DEF Page
  <2> HIDE DEF full
  <2> QED
    BY <1>5, <2>3 DEF Sync, DownMessage
<1>8. Pages(n) \in Seq(DownMessage) /\ Len(Pages(n)) = full + 1
  <2>1. Pages(n) \in [1 .. full + 1 -> DownMessage] /\ full + 1 \in Nat
    BY <1>4, <1>6, <1>7
  <2> QED
    BY <2>1, SeqDef, LenProperties
<1>9. \A i \in 1 .. full + 1 : Pages(n)[i] = page(i)
  BY <1>6
<1>10. \A i \in 1 .. full + 1 :
         /\ page(i).type = "sync" /\ page(i).serverSeq = HighestSeq(rows)
         /\ page(i).complete = (i = full + 1)
         /\ page(i).records = [r \in recs(i) |-> rows[r]]
  BY DEF Sync
<1>11. ASSUME NEW r \in Record, rows[r].seq > n
       PROVE  \E i \in 1 .. full + 1 : r \in recs(i)
  <2> DEFINE upto == {s \in After(n) : rows[s].seq <= rows[r].seq}
             k == Rank(r, n)
  <2>1. r \in After(n) /\ r \in upto /\ upto \subseteq After(n) /\ k = Cardinality(upto)
    BY <1>2, <1>11 DEF After, Rank
  <2> HIDE DEF upto
  <2>2. IsFiniteSet(upto) /\ k \in Nat /\ k <= Cardinality(After(n)) /\ k # 0
    BY <1>3, <2>1, FS_Subset, FS_CardinalityType, FS_EmptySet
  <2> HIDE DEF k
  <2>3. k - 1 \in Nat /\ k - 1 <= Cardinality(After(n))
    BY <1>3, <2>2
  <2> DEFINE q == (k - 1) \div P
  <2>4. q \in Nat /\ q <= full /\ q * P \in Nat /\ q * P <= k - 1 /\ k - 1 < q * P + P
    BY <1>1, <1>3, <2>3, Division
  <2> HIDE DEF q, full
  <2>5. (q + 1) * P = q * P + P /\ (q + 1) - 1 = q
    BY <1>1, <2>4
  <2>6. k \in (((q + 1) - 1) * P + 1) .. ((q + 1) * P)
    BY <1>1, <2>2, <2>4, <2>5
  <2>7. q + 1 \in 1 .. full + 1
    BY <1>4, <2>4
  <2>8. r \in recs(q + 1)
    BY <2>1, <2>6 DEF k
  <2> QED
    BY <2>7, <2>8
<1>12. \A i \in 1 .. full + 1 : recs(i) \subseteq Record
  BY <1>3
<1> HIDE DEF recs, page, full
<1>13. ASSUME NEW i \in 1 .. full + 1
       PROVE  /\ Pages(n)[i].type = "sync" /\ Pages(n)[i].serverSeq = HighestSeq(rows)
              /\ Pages(n)[i].complete = (i = full + 1)
              /\ DOMAIN Pages(n)[i].records = recs(i)
              /\ \A r \in recs(i) : Pages(n)[i].records[r] = rows[r]
  <2>1. Pages(n)[i] = page(i) /\ page(i).records = [r \in recs(i) |-> rows[r]]
    BY <1>9, <1>10
  <2>2. Pages(n)[i].records = [r \in recs(i) |-> rows[r]]
    BY <2>1
  <2> QED
    BY <1>10, <2>1, <2>2
<1>14. full + 1 \in Nat \ {0}
  BY <1>4
<1>15. \A r \in Record : rows[r].seq > n =>
         \E i \in 1 .. full + 1 : r \in DOMAIN Pages(n)[i].records
  BY <1>11, <1>13
<1>16. \A i \in 1 .. full + 1 :
         /\ DOMAIN Pages(n)[i].records \subseteq Record
         /\ \A r \in DOMAIN Pages(n)[i].records : Pages(n)[i].records[r] = rows[r]
  BY <1>12, <1>13
<1> QED
  BY <1>8, <1>13, <1>14, <1>15, <1>16

-----------------------------------------------------------------------------
(* The changes of a push, applied one after the other.                     *)
NoNewer(a, b) == a.seq <= b.seq /\ (a.seq = b.seq => a = b)

LEMMA AppliedCount ==
  ASSUME NEW o, NEW i \in Nat
  PROVE  /\ IsFiniteSet(AppliedIn(o, i)) /\ Cardinality(AppliedIn(o, i)) \in 0 .. i
         /\ \A j \in 1 .. i : o[j] = "applied" => Cardinality(AppliedIn(o, i)) > 0
         /\ \A j \in AppliedIn(o, i) : j \in 1 .. i /\ o[j] = "applied" /\ j \in AppliedIn(o, j)
<1>1. AppliedIn(o, i) \subseteq 1 .. i
  BY DEF AppliedIn
<1>2. IsFiniteSet(1 .. i) /\ Cardinality(1 .. i) = i
  BY FS_Interval
<1>3. /\ IsFiniteSet(AppliedIn(o, i)) /\ Cardinality(AppliedIn(o, i)) \in Nat
      /\ Cardinality(AppliedIn(o, i)) <= i
  BY <1>1, <1>2, FS_Subset, FS_CardinalityType
<1>4. \A j \in 1 .. i : o[j] = "applied" => AppliedIn(o, i) # {}
  BY DEF AppliedIn
<1>5. \A j \in AppliedIn(o, i) : j \in 1 .. i /\ o[j] = "applied" /\ j \in AppliedIn(o, j)
  BY DEF AppliedIn
<1>6. Cardinality(AppliedIn(o, i)) = 0 <=> AppliedIn(o, i) = {}
  BY <1>3, FS_EmptySet
<1> QED
  BY <1>3, <1>4, <1>5, <1>6

LEMMA AppliedGrows ==
  ASSUME NEW o, NEW i \in Nat, NEW j \in Nat, i <= j
  PROVE  /\ Cardinality(AppliedIn(o, i)) <= Cardinality(AppliedIn(o, j))
         /\ i < j /\ o[j] = "applied" =>
              Cardinality(AppliedIn(o, i)) < Cardinality(AppliedIn(o, j))
<1>1. IsFiniteSet(AppliedIn(o, j)) /\ AppliedIn(o, i) \subseteq AppliedIn(o, j)
  <2>1. IsFiniteSet(AppliedIn(o, j))
    BY AppliedCount
  <2>2. \A k \in AppliedIn(o, i) : k \in AppliedIn(o, j)
    BY DEF AppliedIn
  <2> QED
    BY <2>1, <2>2
<1>2. /\ Cardinality(AppliedIn(o, i)) <= Cardinality(AppliedIn(o, j))
      /\ Cardinality(AppliedIn(o, j)) = Cardinality(AppliedIn(o, i))
           => AppliedIn(o, i) = AppliedIn(o, j)
  BY <1>1, FS_Subset
<1>3. ASSUME i < j, o[j] = "applied"
      PROVE  AppliedIn(o, i) # AppliedIn(o, j)
  BY <1>3 DEF AppliedIn
<1>4. Cardinality(AppliedIn(o, i)) \in Nat /\ Cardinality(AppliedIn(o, j)) \in Nat
  BY AppliedCount
<1> QED
  BY <1>2, <1>3, <1>4

Own(cs, o, r, i) == {j \in AppliedIn(o, i) : EditOf[cs[j]].rec = r}
Written(cs, o, j) ==
  [seq |-> HighestSeq(rows) + Cardinality(AppliedIn(o, j)), gone |-> EditOf[cs[j]].gone]

LEMMA RowAfterIs ==
  ASSUME NEW cs, NEW o, NEW r, NEW i \in Nat
  PROVE  \/ Own(cs, o, r, i) = {} /\ RowAfter(cs, o, r, i) = rows[r]
         \/ \E j \in Own(cs, o, r, i) : /\ \A k \in Own(cs, o, r, i) : k <= j
                                        /\ RowAfter(cs, o, r, i) = Written(cs, o, j)
<1> DEFINE own == {j \in AppliedIn(o, i) : EditOf[cs[j]].rec = r}
           last == CHOOSE j \in own : \A k \in own : k <= j
<1>1. own \in SUBSET (0 .. i)
  BY DEF AppliedIn
<1>2. CASE own = {}
  BY <1>2 DEF RowAfter, Own
<1>3. CASE own # {}
  <2>1. \E j \in own : \A k \in own : k <= j
    BY <1>1, <1>3, Greatest
  <2>2. last \in own /\ \A k \in own : k <= last
    BY <2>1
  <2>3. RowAfter(cs, o, r, i) = Written(cs, o, last)
    BY <1>3 DEF RowAfter, Written
  <2> QED
    BY <2>2, <2>3 DEF Own
<1> QED
  BY <1>2, <1>3

LEMMA PushRows ==
  ASSUME TypeOK, NEW cs \in Seq(Change), NEW o
  PROVE  /\ HighestSeq(rows) \in 0 .. MaxSeq
         /\ \A r \in Record : rows[r].seq <= HighestSeq(rows)
         /\ \A r \in Record : \A i \in 0 .. Len(cs) :
              /\ RowAfter(cs, o, r, i) \in [seq : 0 .. MaxSeq + Len(cs), gone : BOOLEAN]
              /\ NoNewer(RowAfter(cs, o, r, i), RowAfter(cs, o, r, Len(cs)))
         /\ \A r \in Record : NoNewer(rows[r], RowAfter(cs, o, r, Len(cs)))
         /\ \A r \in Record :
              \/ RowAfter(cs, o, r, Len(cs)) = rows[r]
              \/ /\ RowAfter(cs, o, r, Len(cs)).seq > HighestSeq(rows)
                 /\ \E i \in AppliedIn(o, Len(cs)) :
                      /\ EditOf[cs[i]].rec = r
                      /\ RowAfter(cs, o, r, i) = RowAfter(cs, o, r, Len(cs))
         /\ \A r, s \in Record :
              /\ RowAfter(cs, o, r, Len(cs)).seq > HighestSeq(rows)
              /\ RowAfter(cs, o, r, Len(cs)).seq = RowAfter(cs, o, s, Len(cs)).seq
              => r = s
<1> DEFINE n == Len(cs)
           H == HighestSeq(rows)
           size(i) == Cardinality(AppliedIn(o, i))
<1>1. n \in Nat /\ DOMAIN cs = 1 .. n /\ \A i \in 1 .. n : cs[i] \in Change
  BY LenProperties
<1>2. \A r \in Record : rows[r] \in Row /\ rows[r].seq \in 0 .. MaxSeq
  BY DEF TypeOK, Row
<1>3. /\ H \in 0 .. MaxSeq /\ MaxSeq \in Nat
      /\ \A r \in Record : rows[r].seq <= H
  BY <1>2, BoundsAssumption, HighestSeqOf
<1> HIDE DEF H
<1>4. \A i \in 1 .. n : EditOf[cs[i]].rec \in Record /\ EditOf[cs[i]].gone \in BOOLEAN
  BY <1>1, EditsAssumption
<1>5. ASSUME NEW r \in Record, NEW i \in 0 .. n
      PROVE  \/ Own(cs, o, r, i) = {} /\ RowAfter(cs, o, r, i) = rows[r]
             \/ \E j \in Own(cs, o, r, i) :
                  /\ \A k \in Own(cs, o, r, i) : k <= j
                  /\ RowAfter(cs, o, r, i) = Written(cs, o, j)
  BY <1>1, RowAfterIs
<1>6. ASSUME NEW r, NEW i \in 0 .. n, NEW j \in Own(cs, o, r, i)
      PROVE  /\ j \in 1 .. i /\ j \in 1 .. n /\ o[j] = "applied" /\ EditOf[cs[j]].rec = r
             /\ size(j) \in 1 .. n /\ j \in Own(cs, o, r, j) /\ j \in AppliedIn(o, n)
             /\ j \in Own(cs, o, r, n)
             /\ Written(cs, o, j).seq = H + size(j)
             /\ Written(cs, o, j) \in [seq : 0 .. MaxSeq + n, gone : BOOLEAN]
  <2>1. j \in 1 .. i /\ j \in 1 .. n /\ o[j] = "applied" /\ EditOf[cs[j]].rec = r
    BY <1>1 DEF Own, AppliedIn
  <2>2. size(j) \in 1 .. n
    <3>1. size(j) \in 0 .. j /\ size(j) > 0
      BY <2>1, AppliedCount
    <3> QED
      BY <1>1, <2>1, <3>1
  <2>3. j \in AppliedIn(o, j) /\ j \in AppliedIn(o, n)
    BY <1>1, <2>1 DEF AppliedIn
  <2> HIDE DEF size
  <2>4. H + size(j) \in 0 .. MaxSeq + n
    BY <1>1, <1>3, <2>2
  <2> QED
    BY <1>4, <2>1, <2>2, <2>3, <2>4 DEF Own, Written, H, size
<1>7. ASSUME NEW r \in Record, NEW i \in 0 .. n
      PROVE  /\ RowAfter(cs, o, r, i) \in [seq : 0 .. MaxSeq + n, gone : BOOLEAN]
             /\ RowAfter(cs, o, r, i) = rows[r] \/ RowAfter(cs, o, r, i).seq > H
  <2>1. rows[r] \in [seq : 0 .. MaxSeq + n, gone : BOOLEAN]
    BY <1>1, <1>2, <1>3 DEF Row
  <2>2. ASSUME NEW j \in Own(cs, o, r, i), RowAfter(cs, o, r, i) = Written(cs, o, j)
        PROVE  /\ RowAfter(cs, o, r, i) \in [seq : 0 .. MaxSeq + n, gone : BOOLEAN]
               /\ RowAfter(cs, o, r, i).seq > H
    <3>1. size(j) \in 1 .. n /\ Written(cs, o, j).seq = H + size(j)
          /\ Written(cs, o, j) \in [seq : 0 .. MaxSeq + n, gone : BOOLEAN]
      BY <1>6
    <3> HIDE DEF size
    <3> QED
      BY <1>3, <2>2, <3>1
  <2> QED
    BY <1>5, <2>1, <2>2
<1>8. ASSUME NEW r \in Record, NEW i \in 0 .. n
      PROVE  NoNewer(RowAfter(cs, o, r, i), RowAfter(cs, o, r, n))
  <2>1. n \in 0 .. n /\ Own(cs, o, r, i) \subseteq Own(cs, o, r, n)
    BY <1>1, <1>6
  <2>2. CASE Own(cs, o, r, n) = {}
    <3>1. RowAfter(cs, o, r, i) = rows[r] /\ RowAfter(cs, o, r, n) = rows[r]
      BY <1>5, <2>1, <2>2
    <3> QED
      BY <1>2, <3>1 DEF NoNewer
  <2>3. ASSUME NEW j \in Own(cs, o, r, n), \A k \in Own(cs, o, r, n) : k <= j,
               RowAfter(cs, o, r, n) = Written(cs, o, j)
        PROVE  NoNewer(RowAfter(cs, o, r, i), RowAfter(cs, o, r, n))
    <3>1. size(j) \in 1 .. n /\ Written(cs, o, j).seq = H + size(j) /\ j \in Nat
          /\ o[j] = "applied"
      BY <1>6, <2>1
    <3>2. CASE RowAfter(cs, o, r, i) = rows[r]
      <4>1. rows[r].seq <= H /\ rows[r].seq \in Nat
        BY <1>2, <1>3
      <4> HIDE DEF size
      <4> QED
        BY <1>3, <2>3, <3>1, <3>2, <4>1 DEF NoNewer
    <3>3. ASSUME NEW k \in Own(cs, o, r, i), RowAfter(cs, o, r, i) = Written(cs, o, k)
          PROVE  NoNewer(RowAfter(cs, o, r, i), RowAfter(cs, o, r, n))
      <4>1. k <= j /\ k \in Nat /\ size(k) \in 1 .. n /\ Written(cs, o, k).seq = H + size(k)
        BY <1>6, <2>1, <2>3
      <4>2. size(k) <= size(j) /\ (k # j => size(k) < size(j))
        BY <3>1, <4>1, AppliedGrows
      <4> HIDE DEF size
      <4> QED
        BY <1>3, <2>3, <3>1, <3>3, <4>1, <4>2 DEF NoNewer
    <3> QED
      BY <1>5, <3>2, <3>3
  <2> QED
    BY <1>5, <2>1, <2>2, <2>3
<1>9. ASSUME NEW r \in Record
      PROVE  NoNewer(rows[r], RowAfter(cs, o, r, n))
  <2>1. 0 \in 0 .. n /\ RowAfter(cs, o, r, 0) = rows[r]
    BY <1>1, <1>5, <1>6
  <2> QED
    BY <1>8, <2>1
<1>10. ASSUME NEW r \in Record, RowAfter(cs, o, r, n) # rows[r]
       PROVE  \E i \in AppliedIn(o, n) : /\ EditOf[cs[i]].rec = r
                                         /\ RowAfter(cs, o, r, i) = RowAfter(cs, o, r, n)
  <2>1. n \in 0 .. n
    BY <1>1
  <2>2. PICK j \in Own(cs, o, r, n) : /\ \A k \in Own(cs, o, r, n) : k <= j
                                      /\ RowAfter(cs, o, r, n) = Written(cs, o, j)
    BY <1>5, <1>10, <2>1
  <2>3. j \in 1 .. n /\ j \in Own(cs, o, r, j) /\ j \in AppliedIn(o, n) /\ EditOf[cs[j]].rec = r
    BY <1>6, <2>1
  <2>4. j \in 0 .. n
    BY <2>3
  <2>5. PICK k \in Own(cs, o, r, j) : /\ \A l \in Own(cs, o, r, j) : l <= k
                                      /\ RowAfter(cs, o, r, j) = Written(cs, o, k)
    BY <1>5, <2>3, <2>4
  <2>6. k \in 1 .. j /\ j <= k
    BY <1>6, <2>3, <2>4, <2>5
  <2>7. k = j
    BY <2>3, <2>6
  <2> QED
    BY <2>2, <2>3, <2>5, <2>7
<1>11. ASSUME NEW r \in Record, NEW s \in Record, RowAfter(cs, o, r, n).seq > H,
              RowAfter(cs, o, r, n).seq = RowAfter(cs, o, s, n).seq
       PROVE  r = s
  <2>1. n \in 0 .. n
    BY <1>1
  <2>2. ~ rows[r].seq > H /\ ~ rows[s].seq > H
    BY <1>2, <1>3
  <2>3. PICK j \in Own(cs, o, r, n) : RowAfter(cs, o, r, n) = Written(cs, o, j)
    BY <1>5, <1>11, <2>1, <2>2
  <2>4. PICK k \in Own(cs, o, s, n) : RowAfter(cs, o, s, n) = Written(cs, o, k)
    BY <1>5, <1>11, <2>1, <2>2
  <2>5. /\ size(j) \in 1 .. n /\ Written(cs, o, j).seq = H + size(j) /\ j \in Nat
        /\ o[j] = "applied" /\ EditOf[cs[j]].rec = r
    BY <1>6, <2>1
  <2>6. /\ size(k) \in 1 .. n /\ Written(cs, o, k).seq = H + size(k) /\ k \in Nat
        /\ o[k] = "applied" /\ EditOf[cs[k]].rec = s
    BY <1>6, <2>1
  <2>7. size(j) = size(k)
    <3> HIDE DEF size
    <3> QED
      BY <1>3, <1>11, <2>3, <2>4, <2>5, <2>6
  <2>8. ~ j < k /\ ~ k < j
    BY <2>5, <2>6, <2>7, AppliedGrows
  <2> QED
    BY <2>5, <2>6, <2>8
<1> HIDE DEF size
<1>12. n \in 0 .. n
  BY <1>1
<1> QED
  BY <1>3, <1>7, <1>8, <1>9, <1>10, <1>11, <1>12 DEF H

(* What a push brings about: no record goes back, what changed is in the   *)
(* acks and in the news, and no two records get one seq.                   *)
LEMMA PushResult ==
  ASSUME TypeOK, NEW cs \in Seq(Change), NEW s \in Results(cs)
  PROVE  /\ Bounded(s.rows) /\ s.rows \in [Record -> Row]
         /\ \A r \in Record : NoNewer(rows[r], s.rows[r])
         /\ \A r, t \in Record :
              s.rows[r].seq > HighestSeq(rows) /\ s.rows[r].seq = s.rows[t].seq => r = t
         /\ \A r \in Record : s.rows[r] = rows[r] \/ s.rows[r].seq > HighestSeq(rows)
         /\ s.acks \in Seq(DownMessage) /\ Len(s.acks) = Len(cs)
         /\ \A i \in 1 .. Len(s.acks) :
              /\ s.acks[i].type = "ack" /\ s.acks[i].change = cs[i]
              /\ s.acks[i].ok => NoNewer(s.acks[i].row, s.rows[EditOf[cs[i]].rec])
              /\ forgotten /\ s.acks[i].ok => Live(s.acks[i].row)
         /\ s.news \in Seq(DownMessage)
         /\ \A i \in 1 .. Len(s.news) :
              /\ s.news[i].type = "change"
              /\ NoNewer(s.news[i].row, s.rows[s.news[i].rec])
              /\ forgotten => Live(s.news[i].row)
         /\ \A r \in Record :
              \/ s.rows[r] = rows[r]
              \/ /\ \E i \in 1 .. Len(s.acks) : /\ s.acks[i].ok /\ EditOf[cs[i]].rec = r
                                                /\ s.acks[i].row = s.rows[r]
                 /\ \E i \in 1 .. Len(s.news) : s.news[i].rec = r /\ s.news[i].row = s.rows[r]
<1> DEFINE n == Len(cs)
           rec(i) == EditOf[cs[i]].rec
<1>1. n \in Nat /\ DOMAIN cs = 1 .. n /\ \A i \in 1 .. n : cs[i] \in Change
  BY LenProperties
<1>2. \A i \in 1 .. n : rec(i) \in Record /\ EditOf[cs[i]].gone \in BOOLEAN
  BY <1>1, EditsAssumption
<1>3. PICK o \in [1 .. n -> {"refused", "same", "applied"}] :
        s = Served(cs, o) /\ Legal(cs, o) /\ Bounded(s.rows)
  BY <1>1 DEF Results
<1> DEFINE left(i) == RowAfter(cs, o, rec(i), i)
           ack(i) == IF o[i] = "refused" THEN AckOf(cs[i], FALSE, Nothing)
                     ELSE AckOf(cs[i], TRUE, left(i))
           change(i) == ChangeOf(rec(i), left(i))
           changes == [i \in 1 .. n |-> change(i)]
<1>4. /\ s.rows = [r \in Record |-> RowAfter(cs, o, r, n)]
      /\ s.acks = [i \in 1 .. n |-> ack(i)]
      /\ s.news = Picked(changes, AppliedIn(o, n))
  BY <1>3 DEF Served
<1>5. \A r \in Record : s.rows[r] = RowAfter(cs, o, r, n)
  BY <1>4
<1>6. /\ HighestSeq(rows) \in 0 .. MaxSeq /\ MaxSeq \in Nat
      /\ \A r \in Record : rows[r].seq <= HighestSeq(rows)
      /\ \A r \in Record : \A i \in 0 .. n :
           /\ RowAfter(cs, o, r, i) \in [seq : 0 .. MaxSeq + n, gone : BOOLEAN]
           /\ NoNewer(RowAfter(cs, o, r, i), RowAfter(cs, o, r, n))
      /\ \A r \in Record : NoNewer(rows[r], RowAfter(cs, o, r, n))
      /\ \A r \in Record :
           \/ RowAfter(cs, o, r, n) = rows[r]
           \/ /\ RowAfter(cs, o, r, n).seq > HighestSeq(rows)
              /\ \E i \in AppliedIn(o, n) : /\ rec(i) = r
                                            /\ RowAfter(cs, o, r, i) = RowAfter(cs, o, r, n)
      /\ \A r, t \in Record :
           /\ RowAfter(cs, o, r, n).seq > HighestSeq(rows)
           /\ RowAfter(cs, o, r, n).seq = RowAfter(cs, o, t, n).seq
           => r = t
  BY PushRows, BoundsAssumption
<1>7. \A r \in Record : s.rows[r].seq \in 0 .. MaxSeq
  <2>1. \A r \in Record : s.rows[r].seq \in 0 .. MaxSeq + n
    BY <1>1, <1>5, <1>6
  <2>2. MaxSeq + n \in Nat
    BY <1>1, <1>6
  <2>3. \A r \in Record : s.rows[r].seq <= HighestSeq(s.rows)
    BY <2>1, <2>2, HighestSeqOf
  <2>4. HighestSeq(s.rows) \in Nat /\ HighestSeq(s.rows) <= MaxSeq
    BY <1>3, <2>1, <2>2, HighestSeqOf DEF Bounded
  <2> QED
    BY <1>6, <2>1, <2>2, <2>3, <2>4
<1>8. s.rows \in [Record -> Row]
  <2>1. \A r \in Record : s.rows[r] \in Row
    <3> SUFFICES ASSUME NEW r \in Record PROVE s.rows[r] \in Row
      OBVIOUS
    <3>1. n \in 0 .. n /\ s.rows[r] \in [seq : 0 .. MaxSeq + n, gone : BOOLEAN]
      BY <1>1, <1>5, <1>6
    <3> QED
      BY <1>7, <3>1 DEF Row
  <2> QED
    BY <1>4, <2>1
<1>9. ASSUME NEW i \in 1 .. n
      PROVE  left(i) \in Row /\ NoNewer(left(i), s.rows[rec(i)])
  <2>1. i \in 0 .. n /\ rec(i) \in Record
    BY <1>2
  <2>2. left(i) \in [seq : 0 .. MaxSeq + n, gone : BOOLEAN]
    BY <1>6, <2>1
  <2>3. NoNewer(left(i), s.rows[rec(i)])
    BY <1>5, <1>6, <2>1
  <2>4. left(i).seq <= s.rows[rec(i)].seq /\ s.rows[rec(i)].seq \in 0 .. MaxSeq
    BY <1>7, <2>1, <2>3 DEF NoNewer
  <2>5. left(i).seq \in 0 .. MaxSeq
    BY <1>1, <1>6, <2>2, <2>4
  <2> HIDE DEF left
  <2> QED
    BY <2>2, <2>3, <2>5 DEF Row
<1>10. ASSUME NEW i \in 1 .. n, o[i] # "refused", forgotten
       PROVE  Live(left(i))
  <2>1. o[i] \in Outcomes(RowAfter(cs, o, rec(i), i - 1), EditOf[cs[i]])
    BY <1>1, <1>3 DEF Legal
  <2>2. \A j \in AppliedIn(o, i) : EditOf[cs[j]].gone = FALSE
    <3> SUFFICES ASSUME NEW j \in AppliedIn(o, i) PROVE EditOf[cs[j]].gone = FALSE
      OBVIOUS
    <3>1. j \in 1 .. n /\ o[j] = "applied"
      BY <1>1 DEF AppliedIn
    <3>2. "applied" \in Outcomes(RowAfter(cs, o, rec(j), j - 1), EditOf[cs[j]])
      BY <1>1, <1>3, <3>1 DEF Legal
    <3>3. ~ EditOf[cs[j]].gone
      BY <1>10, <3>2 DEF Outcomes, Removable
    <3> QED
      BY <1>2, <3>1, <3>3
  <2>3. CASE o[i] = "applied"
    <3>1. i \in Nat /\ i \in Own(cs, o, rec(i), i)
      BY <2>3 DEF Own, AppliedIn
    <3>2. PICK j \in Own(cs, o, rec(i), i) : left(i) = Written(cs, o, j)
      BY <3>1, RowAfterIs
    <3> QED
      BY <2>2, <3>2 DEF Own, Written, Live
  <2>4. CASE o[i] = "same"
    <3>1. Live(RowAfter(cs, o, rec(i), i - 1))
      BY <2>1, <2>4 DEF Outcomes, Removable
    <3>2. AppliedIn(o, i - 1) = AppliedIn(o, i)
      BY <2>4 DEF AppliedIn
    <3>3. RowAfter(cs, o, rec(i), i - 1) = left(i)
      BY <3>2 DEF RowAfter
    <3> QED
      BY <3>1, <3>3
  <2> QED
    BY <1>3, <1>10, <2>3, <2>4
<1> HIDE DEF rec
<1>11. ASSUME NEW i \in 1 .. n
       PROVE  /\ ack(i) \in DownMessage /\ ack(i).type = "ack" /\ ack(i).change = cs[i]
              /\ ack(i).ok <=> o[i] # "refused"
              /\ ack(i).ok => ack(i).row = left(i)
              /\ change(i) \in DownMessage /\ change(i).type = "change"
              /\ change(i).rec = rec(i) /\ change(i).row = left(i)
  <2>1. Nothing \in Row
    BY <1>6 DEF Nothing, Row
  <2>2. left(i) \in Row /\ cs[i] \in Change /\ rec(i) \in Record
    BY <1>1, <1>2, <1>9
  <2> HIDE DEF left
  <2> QED
    BY <2>1, <2>2 DEF AckOf, ChangeOf, DownMessage
<1> HIDE DEF left, ack, change
<1>12. s.acks \in Seq(DownMessage) /\ Len(s.acks) = n
  <2>1. s.acks \in [1 .. n -> DownMessage]
    BY <1>4, <1>11
  <2> QED
    BY <1>1, <2>1, SeqDef, LenProperties
<1>13. changes \in Seq(DownMessage) /\ Len(changes) = n
  <2>1. changes \in [1 .. n -> DownMessage]
    BY <1>11
  <2> QED
    BY <1>1, <2>1, SeqDef, LenProperties
<1>14. AppliedIn(o, n) \subseteq 1 .. n
  BY DEF AppliedIn
<1>15. /\ s.news \in Seq(DownMessage)
       /\ \A k \in 1 .. Len(s.news) : \E i \in AppliedIn(o, n) : s.news[k] = change(i)
       /\ \A i \in AppliedIn(o, n) : \E k \in 1 .. Len(s.news) : s.news[k] = change(i)
  <2>1. \A i \in AppliedIn(o, n) : changes[i] = change(i)
    BY <1>14
  <2> HIDE DEF changes
  <2> QED
    BY <1>4, <1>13, <1>14, <2>1, PickedSeq
<1>16. \A i \in AppliedIn(o, n) : i \in 1 .. n /\ o[i] = "applied"
  BY DEF AppliedIn
<1>17. ASSUME NEW i \in 1 .. Len(s.acks)
       PROVE  /\ s.acks[i].type = "ack" /\ s.acks[i].change = cs[i]
              /\ s.acks[i].ok => NoNewer(s.acks[i].row, s.rows[rec(i)])
              /\ forgotten /\ s.acks[i].ok => Live(s.acks[i].row)
  <2>1. i \in 1 .. n /\ s.acks[i] = ack(i)
    BY <1>4, <1>12
  <2>2. ASSUME ack(i).ok
        PROVE  NoNewer(ack(i).row, s.rows[rec(i)]) /\ (forgotten => Live(ack(i).row))
    <3>1. o[i] # "refused" /\ ack(i).row = left(i)
      BY <1>11, <2>1, <2>2
    <3> QED
      BY <1>9, <1>10, <2>1, <3>1
  <2> QED
    BY <1>11, <2>1, <2>2
<1>18. ASSUME NEW k \in 1 .. Len(s.news)
       PROVE  /\ s.news[k].type = "change"
              /\ NoNewer(s.news[k].row, s.rows[s.news[k].rec])
              /\ forgotten => Live(s.news[k].row)
  <2>1. PICK i \in AppliedIn(o, n) : s.news[k] = change(i)
    BY <1>15
  <2>2. i \in 1 .. n /\ o[i] # "refused"
    BY <1>16
  <2> QED
    BY <1>9, <1>10, <1>11, <2>1, <2>2
<1>19. ASSUME NEW r \in Record, s.rows[r] # rows[r]
       PROVE  /\ \E i \in 1 .. Len(s.acks) : /\ s.acks[i].ok /\ rec(i) = r
                                             /\ s.acks[i].row = s.rows[r]
              /\ \E i \in 1 .. Len(s.news) : s.news[i].rec = r /\ s.news[i].row = s.rows[r]
  <2>1. PICK i \in AppliedIn(o, n) : rec(i) = r /\ left(i) = s.rows[r]
    BY <1>5, <1>6, <1>19 DEF left
  <2>2. i \in 1 .. n /\ o[i] # "refused"
    BY <1>16
  <2>3. s.acks[i] = ack(i) /\ ack(i).ok /\ ack(i).row = s.rows[r]
    BY <1>4, <1>11, <2>1, <2>2
  <2>4. PICK k \in 1 .. Len(s.news) : s.news[k] = change(i)
    BY <1>15
  <2>5. s.news[k].rec = r /\ s.news[k].row = s.rows[r]
    BY <1>11, <2>1, <2>2, <2>4
  <2> QED
    BY <1>12, <2>1, <2>2, <2>3, <2>5
<1>20. /\ \A r \in Record : NoNewer(rows[r], s.rows[r])
       /\ \A r, t \in Record :
            s.rows[r].seq > HighestSeq(rows) /\ s.rows[r].seq = s.rows[t].seq => r = t
       /\ \A r \in Record : s.rows[r] = rows[r] \/ s.rows[r].seq > HighestSeq(rows)
  BY <1>5, <1>6
<1>21. \A r \in Record :
         \/ s.rows[r] = rows[r]
         \/ /\ \E i \in 1 .. Len(s.acks) : /\ s.acks[i].ok /\ EditOf[cs[i]].rec = r
                                           /\ s.acks[i].row = s.rows[r]
            /\ \E i \in 1 .. Len(s.news) : s.news[i].rec = r /\ s.news[i].row = s.rows[r]
  BY <1>19 DEF rec
<1>22. \A i \in 1 .. Len(s.acks) :
         /\ s.acks[i].type = "ack" /\ s.acks[i].change = cs[i]
         /\ s.acks[i].ok => NoNewer(s.acks[i].row, s.rows[EditOf[cs[i]].rec])
         /\ forgotten /\ s.acks[i].ok => Live(s.acks[i].row)
  BY <1>17 DEF rec
<1> HIDE DEF n
<1>23. Len(s.acks) = Len(cs) /\ s.acks \in Seq(DownMessage)
  BY <1>12 DEF n
<1> QED
  BY <1>3, <1>8, <1>15, <1>18, <1>20, <1>21, <1>22, <1>23

-----------------------------------------------------------------------------
(* What messages and steps do to the client.                               *)
LEMMA DownMessages ==
  ASSUME NEW m \in DownMessage
  PROVE  /\ m.type \in {"welcome", "sync", "change", "ack"}
         /\ m.type = "welcome" => m.serverSeq \in 0 .. MaxSeq
         /\ m.type = "sync" => /\ m.serverSeq \in 0 .. MaxSeq /\ m.complete \in BOOLEAN
                               /\ DOMAIN m.records \subseteq Record
                               /\ \A r \in DOMAIN m.records : m.records[r] \in Row
         /\ m.type = "change" => m.rec \in Record /\ m.row \in Row
         /\ m.type = "ack" => m.change \in Change /\ m.ok \in BOOLEAN /\ m.row \in Row
<1>1. CASE m \in [type : {"sync"}, records : Page, serverSeq : 0 .. MaxSeq, complete : BOOLEAN]
  <2>1. m.type = "sync" /\ m.serverSeq \in 0 .. MaxSeq /\ m.complete \in BOOLEAN /\ m.records \in Page
    BY <1>1
  <2>2. PICK known \in SUBSET Record : m.records \in [known -> Row]
    BY <2>1 DEF Page
  <2> QED
    BY <2>1, <2>2
<1> QED
  BY <1>1 DEF DownMessage

LEMMA UpMessages ==
  ASSUME NEW m \in UpMessage
  PROVE  /\ m.type \in {"hello", "push"}
         /\ m.type = "hello" => m.checkpoint \in 0 .. MaxSeq
         /\ m.type = "push" => m \in PushMessage /\ m.changes \in Seq(Change)
BY DEF UpMessage, PushMessage

LEMMA MessageTypes ==
  /\ \A n \in 0 .. MaxSeq : Hello(n) \in UpMessage /\ Welcome(n) \in DownMessage
  /\ \A r \in Record, row \in Row : ChangeOf(r, row) \in DownMessage
  /\ PushMessage \subseteq UpMessage
BY DEF UpMessage, DownMessage, Hello, Welcome, ChangeOf

LEMMA AppliedAt ==
  ASSUME NEW table \in [Record -> Row], NEW r \in Record, NEW row \in Row
  PROVE  /\ Applied(table, r, row) \in [Record -> Row]
         /\ \A s \in Record : Applied(table, r, row)[s] =
              IF s = r /\ row.seq > table[r].seq THEN row ELSE table[s]
BY DEF Applied

LEMMA FlushAt ==
  ASSUME TypeOK, NEW box \in Seq(Change), Flush(box, inFlight)
  PROVE  /\ up' \in Seq(UpMessage) /\ inFlight' \subseteq Change
         /\ ~open => up' = up /\ inFlight' = inFlight
         /\ open => /\ up' = up \o Batches(Unsent(box, inFlight))
                    /\ inFlight' = inFlight \cup ToSet(box)
                    /\ Batches(Unsent(box, inFlight)) \in Seq(PushMessage)
<1>1. Unsent(box, inFlight) \in Seq(Change)
  BY WithoutSeq DEF Unsent
<1>2. Batches(Unsent(box, inFlight)) \in Seq(PushMessage)
  BY <1>1, BatchesAt
<1>3. Batches(Unsent(box, inFlight)) \in Seq(UpMessage)
  BY <1>2, MessageTypes, SeqMonotonic
<1>4. up \in Seq(UpMessage) /\ inFlight \subseteq Change
  BY DEF TypeOK
<1>5. up \o Batches(Unsent(box, inFlight)) \in Seq(UpMessage)
  BY <1>3, <1>4, ConcatProperties
<1>6. ToSet(box) \subseteq Change
  BY InSet
<1> QED
  BY <1>2, <1>4, <1>5, <1>6 DEF Flush

LEMMA PickedFrom ==
  ASSUME NEW S, NEW T, NEW s \in Seq(S), NEW I, I \subseteq 1 .. Len(s),
         \A i \in I : s[i] \in T
  PROVE  Picked(s, I) \in Seq(T)
<1>1. /\ Picked(s, I) \in Seq(S)
      /\ \A k \in 1 .. Len(Picked(s, I)) : \E i \in I : Picked(s, I)[k] = s[i]
      /\ \A i \in I : \E k \in 1 .. Len(Picked(s, I)) : Picked(s, I)[k] = s[i]
      /\ IsInjective(s) => IsInjective(Picked(s, I))
  BY PickedSeq
<1>2. \A k \in 1 .. Len(Picked(s, I)) : Picked(s, I)[k] \in T
  BY <1>1
<1> QED
  BY <1>1, <1>2, SeqNarrow

LEMMA PushesOf ==
  ASSUME NEW s \in Seq(UpMessage)
  PROVE  Picked(s, {i \in DOMAIN s : s[i].type = "push"}) \in Seq(PushMessage)
<1>1. DOMAIN s = 1 .. Len(s) /\ \A i \in 1 .. Len(s) : s[i] \in UpMessage
  BY LenProperties
<1>2. PICK I : I = {i \in DOMAIN s : s[i].type = "push"}
  OBVIOUS
<1>3. I \subseteq 1 .. Len(s) /\ \A i \in I : s[i] \in PushMessage
  BY <1>1, <1>2, UpMessages
<1>4. Picked(s, I) \in Seq(PushMessage)
  BY <1>3, PickedFrom
<1> QED
  BY <1>2, <1>4

LEMMA DisconnectAt ==
  ASSUME TypeOK, Disconnect
  PROVE  /\ open' = FALSE /\ up' = <<>> /\ down' = <<>>
         /\ up' \in Seq(UpMessage) /\ down' \in Seq(DownMessage)
         /\ stray' \subseteq Seq(PushMessage)
<1>1. Picked(up, {i \in DOMAIN up : up[i].type = "push"}) \in Seq(PushMessage)
  BY PushesOf DEF TypeOK
<1> QED
  BY <1>1, EmptySeq DEF Disconnect, TypeOK

(* The continuations: one per generation, none of a later one.             *)
TasksOK ==
  /\ tasks \subseteq [kind : {"load", "connect", "refresh"}, gen : 1 .. MaxGeneration]
  /\ \A s, t \in tasks : s.gen = t.gen => s = t
  /\ \A t \in tasks : t.gen <= generation
  /\ open => generation > 0 /\ \A t \in tasks : t.gen # generation /\ t.kind # "load"

LEMMA TasksStep ==
  ASSUME TypeOK, TasksOK, [Next]_vars
  PROVE  TasksOK'
<1> USE DEF TasksOK, Task
<1>1. generation \in 0 .. MaxGeneration /\ MaxGeneration \in Nat
  BY BoundsAssumption DEF TypeOK
<1>2. CASE Start
  <2>1. /\ tasks' = tasks \cup {[kind |-> "load", gen |-> generation + 1]}
        /\ generation' = generation + 1 /\ open' = FALSE /\ generation < MaxGeneration
    BY <1>2 DEF Start, Disconnect
  <2>2. [kind |-> "load", gen |-> generation + 1]
          \in [kind : {"load", "connect", "refresh"}, gen : 1 .. MaxGeneration]
    BY <1>1, <2>1
  <2> QED
    BY <1>1, <2>1, <2>2
<1>3. CASE Stop
  <2>1. tasks' = tasks /\ generation' = generation + 1 /\ open' = FALSE
    BY <1>3 DEF Stop, Disconnect
  <2> QED
    BY <1>1, <2>1
<1>4. CASE SocketCloses
  <2>1. /\ open' = FALSE /\ generation' = generation /\ open
        /\ \/ tasks' = tasks
           \/ \E kind \in {"connect", "refresh"} :
                tasks' = tasks \cup {[kind |-> kind, gen |-> generation]}
    BY <1>4 DEF SocketCloses, Disconnect
  <2>2. generation \in 1 .. MaxGeneration
    BY <1>1, <2>1
  <2> QED
    BY <1>1, <2>1, <2>2
<1>5. CASE Reload
  BY <1>5 DEF Reload, Disconnect
<1>6. ASSUME NEW t \in tasks, Connect(t), generation' = generation, open' = open
      PROVE  TasksOK'
  <2>1. CASE tasks' = tasks \ {t}
    BY <1>6, <2>1
  <2>2. CASE tasks' = (tasks \ {t}) \cup {[kind |-> "connect", gen |-> t.gen]}
    BY <1>6, <2>2
  <2> QED
    BY <1>6, <2>1, <2>2 DEF Connect
<1>7. ASSUME NEW t \in tasks, Loaded(t) \/ RefreshOk(t)
      PROVE  TasksOK'
  BY <1>6, <1>7 DEF Loaded, RefreshOk, wire
<1>8. ASSUME NEW t \in tasks, ConnectFails(t) \/ RefreshFails(t)
      PROVE  TasksOK'
  BY <1>8 DEF ConnectFails, RefreshFails, wire
<1>9. ASSUME NEW t \in tasks, ConnectOk(t)
      PROVE  TasksOK'
  <2>1. tasks' = tasks \ {t} /\ generation' = generation /\ \A u \in tasks : u.kind # "load"
    BY <1>9 DEF ConnectOk, NextEvent
  <2>2. open' = open \/ t.gen = generation
    BY <1>9 DEF ConnectOk, Current, wire
  <2> QED
    BY <2>1, <2>2
<1>10. ASSUME \/ \E c \in Change : Push(c)
              \/ Receive \/ ServeHello \/ ServePush \/ ServeStray \/ LoseStray
              \/ \E r \in Record : ServerWrite(r)
              \/ ServerReset
              \/ UNCHANGED vars
       PROVE  TasksOK'
  <2>1. UNCHANGED <<tasks, generation, open>>
    BY <1>10 DEF Push, Receive, ServeHello, ServePush, ServeStray, LoseStray, ServerWrite,
                 ServerReset, vars, server, wire, engine, local, history
  <2> QED
    BY <2>1
<1> QED
  BY <1>2, <1>3, <1>4, <1>5, <1>7, <1>8, <1>9, <1>10 DEF Next

(* The outbox is saved as it is, and holds just the edits without answer.  *)
OutboxOK ==
  /\ outbox \in Seq(Change) /\ IsInjective(outbox) /\ savedOutbox = outbox
  /\ edit \in [Change -> {"new", "pending", "accepted", "refused", "lost"}]
  /\ \A c \in Change : edit[c] = "pending" <=> c \in ToSet(outbox)

LEMMA NoElements ==
  ASSUME NEW S, NEW s \in Seq(S), \A x : x \notin ToSet(s)
  PROVE  s = <<>>
<1>1. Len(s) \in Nat /\ ToSet(s) = {s[i] : i \in 1 .. Len(s)}
  BY InSet
<1>2. ~ 1 \in 1 .. Len(s)
  BY <1>1
<1>3. Len(s) = 0
  BY <1>1, <1>2
<1> QED
  BY <1>3, EmptySeq

LEMMA NoEdits == ToSet(<<>>) = {} /\ IsInjective(<<>>) /\ <<>> \in Seq(Change)
<1>1. <<>> \in Seq(Change) /\ Len(<<>>) = 0 /\ DOMAIN <<>> = 1 .. 0
  BY EmptySeq, LenProperties
<1> QED
  BY <1>1 DEF ToSet, IsInjective

LEMMA HydratedIs ==
  ASSUME OutboxOK
  PROVE  Hydrated = outbox
<1> DEFINE w == Without(savedOutbox, ToSet(outbox))
<1>1. outbox \in Seq(Change) /\ savedOutbox = outbox
  BY DEF OutboxOK
<1>2. w \in Seq(Change) /\ \A x : x \in ToSet(w) <=> x \in ToSet(savedOutbox) /\ x \notin ToSet(outbox)
  BY <1>1, WithoutSeq
<1>3. w = <<>>
  BY <1>1, <1>2, NoElements
<1>4. outbox \o <<>> = outbox
  BY <1>1, ConcatEmptySeq
<1> QED
  BY <1>3, <1>4 DEF Hydrated

LEMMA AppendAt ==
  ASSUME NEW S, NEW s \in Seq(S), NEW x \in S
  PROVE  /\ Append(s, x) \in Seq(S) /\ Len(Append(s, x)) = Len(s) + 1 /\ Len(s) \in Nat
         /\ \A i \in 1 .. Len(s) : Append(s, x)[i] = s[i]
         /\ Append(s, x)[Len(s) + 1] = x
         /\ ToSet(Append(s, x)) = ToSet(s) \cup {x}
<1>1. /\ Append(s, x) \in Seq(S) /\ Len(Append(s, x)) = Len(s) + 1 /\ Len(s) \in Nat
      /\ \A i \in 1 .. Len(s) : Append(s, x)[i] = s[i]
      /\ Append(s, x)[Len(s) + 1] = x
  BY AppendProperties, LenProperties
<1>2. \A i \in 1 .. Len(s) + 1 : i \in 1 .. Len(s) \/ i = Len(s) + 1
  BY <1>1
<1>3. \A y : y \in ToSet(Append(s, x)) <=> y \in ToSet(s) \/ y = x
  <2> TAKE y
  <2>1. y \in ToSet(Append(s, x)) <=> \E i \in 1 .. Len(s) + 1 : Append(s, x)[i] = y
    <3>1. DOMAIN Append(s, x) = 1 .. Len(s) + 1
      BY <1>1, LenProperties
    <3> QED
      BY <3>1 DEF ToSet
  <2>2. y \in ToSet(s) <=> \E i \in 1 .. Len(s) : s[i] = y
    BY InSet
  <2>3. Len(s) + 1 \in 1 .. Len(s) + 1 /\ \A i \in 1 .. Len(s) : i \in 1 .. Len(s) + 1
    BY <1>1
  <2> QED
    BY <1>1, <1>2, <2>1, <2>2, <2>3
<1> QED
  BY <1>1, <1>3

LEMMA OutboxStep ==
  ASSUME OutboxOK, [Next]_vars
  PROVE  OutboxOK'
<1> DEFINE Same == UNCHANGED <<outbox, savedOutbox, edit>>
<1>1. ASSUME Same PROVE OutboxOK'
  BY <1>1 DEF OutboxOK
<1>2. ASSUME SocketCloses \/ Reload, ~Same PROVE OutboxOK'
  <2>1. /\ outbox' = <<>> /\ savedOutbox' = <<>>
        /\ \E w \in {"refused", "lost"} :
             edit' = [c \in Change |-> IF c \in ToSet(outbox) THEN w ELSE edit[c]]
    BY <1>2 DEF SocketCloses, Reload
  <2> QED
    BY <2>1, NoEdits DEF OutboxOK
<1>3. ASSUME NEW t \in tasks, Loaded(t) PROVE Same
  BY <1>3, HydratedIs DEF Loaded, history, OutboxOK
<1>4. ASSUME NEW c \in Change, Push(c) PROVE OutboxOK'
  <2>1. /\ outbox' = Append(outbox, c) /\ savedOutbox' = Append(outbox, c)
        /\ edit[c] = "new" /\ edit' = [edit EXCEPT ![c] = "pending"]
    BY <1>4 DEF Push
  <2>2. outbox \in Seq(Change) /\ c \notin ToSet(outbox)
    BY <2>1 DEF OutboxOK
  <2>3. Append(outbox, c) \in Seq(Change) /\ ToSet(Append(outbox, c)) = ToSet(outbox) \cup {c}
    BY <2>2, AppendAt
  <2>4. IsInjective(Append(outbox, c))
    <3>1. /\ Len(outbox) \in Nat /\ DOMAIN outbox = 1 .. Len(outbox)
          /\ DOMAIN Append(outbox, c) = 1 .. Len(outbox) + 1
          /\ \A i \in 1 .. Len(outbox) : Append(outbox, c)[i] = outbox[i] /\ outbox[i] # c
          /\ Append(outbox, c)[Len(outbox) + 1] = c
      BY <2>2, <2>3, AppendAt, InSet
    <3>2. \A i \in 1 .. Len(outbox) + 1 : i \in 1 .. Len(outbox) \/ i = Len(outbox) + 1
      BY <3>1
    <3>3. \A i, j \in 1 .. Len(outbox) : outbox[i] = outbox[j] => i = j
      BY <3>1 DEF OutboxOK, IsInjective
    <3> QED
      BY <3>1, <3>2, <3>3 DEF IsInjective
  <2> QED
    BY <2>1, <2>2, <2>3, <2>4 DEF OutboxOK
<1>5. ASSUME Receive, ~Same PROVE OutboxOK'
  <2> DEFINE m == Head(down)
  <2>1. OnAck(m) /\ m.change \in ToSet(outbox)
    BY <1>5 DEF Receive, OnWelcome, OnSync, OnChange, OnAck
  <2>2. /\ outbox' = Without(outbox, {m.change}) /\ savedOutbox' = outbox'
        /\ \E w \in {"accepted", "refused"} : edit' = [edit EXCEPT ![m.change] = w]
    BY <2>1 DEF OnAck
  <2> HIDE DEF m
  <2>3. outbox \in Seq(Change) /\ IsInjective(outbox)
    BY DEF OutboxOK
  <2>4. /\ outbox' \in Seq(Change) /\ IsInjective(outbox')
        /\ \A x : x \in ToSet(outbox') <=> x \in ToSet(outbox) /\ x # m.change
    <3>1. /\ Without(outbox, {m.change}) \in Seq(Change)
          /\ \A x : x \in ToSet(Without(outbox, {m.change}))
                      <=> x \in ToSet(outbox) /\ x \notin {m.change}
          /\ IsInjective(outbox) => IsInjective(Without(outbox, {m.change}))
      BY <2>3, WithoutSeq
    <3> QED
      BY <2>2, <2>3, <3>1
  <2>5. \A c \in ToSet(outbox) : c \in Change
    BY <2>3, InSet
  <2> QED
    BY <2>2, <2>4, <2>5 DEF OutboxOK
<1>6. ASSUME \/ Start \/ Stop
             \/ \E t \in tasks : ConnectOk(t) \/ ConnectFails(t) \/ RefreshOk(t) \/ RefreshFails(t)
             \/ ServeHello \/ ServePush \/ ServeStray \/ LoseStray
             \/ \E r \in Record : ServerWrite(r)
             \/ ServerReset \/ UNCHANGED vars
      PROVE  Same
  BY <1>6 DEF Start, Stop, ConnectOk, ConnectFails, RefreshOk, RefreshFails, ServeHello, ServePush,
              ServeStray, LoseStray, ServerWrite, ServerReset, vars, local, history
<1> HIDE DEF Same
<1> QED
  BY <1>1, <1>2, <1>3, <1>4, <1>5, <1>6 DEF Next

(* A message brings a row of a record.  Receiving it, the store takes the  *)
(* row if its seq is higher.                                               *)
Brings(m, r, row) ==
  \/ m.type = "change" /\ m.rec = r /\ m.row = row
  \/ m.type = "ack" /\ m.ok /\ EditOf[m.change].rec = r /\ m.row = row
  \/ m.type = "sync" /\ r \in DOMAIN m.records /\ m.records[r] = row

LEMMA BringsRow ==
  ASSUME NEW m \in DownMessage, NEW r, NEW row, Brings(m, r, row)
  PROVE  r \in Record /\ row \in Row
<1>1. CASE m.type = "ack" /\ m.ok /\ EditOf[m.change].rec = r /\ m.row = row
  BY <1>1, DownMessages, EditsAssumption
<1> QED
  BY <1>1, DownMessages DEF Brings

Takes(old, row) == IF row.seq > old.seq THEN row ELSE old

LEMMA StoreTakes ==
  ASSUME TypeOK, Receive, NEW m, m = Head(down)
  PROVE  /\ m \in DownMessage /\ store' \in [Record -> Row]
         /\ m.type = "welcome" =>
              \/ store' = store
              \/ m.serverSeq < checkpoint /\ store' = [r \in Record |-> Nothing]
         /\ m.type = "sync" /\ awaitingResetWelcome => store' = store
         /\ m.type # "welcome" /\ ~ (m.type = "sync" /\ awaitingResetWelcome) =>
              \A r \in Record :
                /\ store'[r] = store[r] \/ \E row \in Row : Brings(m, r, row)
                /\ \A row \in Row : Brings(m, r, row) => store'[r] = Takes(store[r], row)
<1>1. m \in DownMessage /\ store \in [Record -> Row]
  BY TailAt DEF TypeOK, Receive
<1>2. /\ m.type \in {"welcome", "sync", "change", "ack"}
      /\ OnWelcome(m) \/ OnSync(m) \/ OnChange(m) \/ OnAck(m)
  BY <1>1, DownMessages DEF Receive
<1>3. [r \in Record |-> Nothing] \in [Record -> Row]
  BY BoundsAssumption DEF Nothing, Row
<1>4. CASE m.type = "welcome"
  <2>1. \/ store' = store
        \/ m.serverSeq < checkpoint /\ store' = [r \in Record |-> Nothing]
    BY <1>2, <1>4 DEF OnWelcome, OnSync, OnChange, OnAck
  <2> QED
    BY <1>1, <1>3, <1>4, <2>1
<1>5. CASE m.type = "sync" /\ awaitingResetWelcome
  BY <1>1, <1>2, <1>5 DEF OnWelcome, OnSync, OnChange, OnAck
<1>6. CASE m.type = "sync" /\ ~ awaitingResetWelcome
  <2>1. store' = [r \in Record |-> IF r \in DOMAIN m.records
                                     THEN Applied(store, r, m.records[r])[r] ELSE store[r]]
    BY <1>2, <1>6 DEF OnWelcome, OnSync, OnChange, OnAck
  <2>2. \A r \in DOMAIN m.records : r \in Record /\ m.records[r] \in Row
    BY <1>1, <1>6, DownMessages
  <2>3. ASSUME NEW r \in Record
        PROVE  /\ store'[r] \in Row
               /\ r \in DOMAIN m.records => store'[r] = Takes(store[r], m.records[r])
               /\ r \notin DOMAIN m.records => store'[r] = store[r]
    <3>1. CASE r \in DOMAIN m.records
      <4>1. store'[r] = Applied(store, r, m.records[r])[r]
        BY <2>1, <3>1
      <4>2. store'[r] = Takes(store[r], m.records[r])
        BY <1>1, <2>2, <3>1, <4>1, AppliedAt DEF Takes
      <4> QED
        BY <1>1, <2>2, <3>1, <4>2 DEF Takes
    <3>2. CASE r \notin DOMAIN m.records
      BY <1>1, <2>1, <3>2
    <3> QED
      BY <3>1, <3>2
  <2>4. \A r, row : Brings(m, r, row) <=> r \in DOMAIN m.records /\ m.records[r] = row
    BY <1>6 DEF Brings
  <2>5. store' \in [Record -> Row]
    BY <2>1, <2>3
  <2> QED
    BY <1>1, <1>6, <2>2, <2>3, <2>4, <2>5
<1>7. ASSUME NEW q \in Record, NEW new \in Row, store' = Applied(store, q, new),
             \A r, row : Brings(m, r, row) <=> r = q /\ row = new
      PROVE  /\ store' \in [Record -> Row]
             /\ \A r \in Record :
                  /\ store'[r] = store[r] \/ \E row \in Row : Brings(m, r, row)
                  /\ \A row \in Row : Brings(m, r, row) => store'[r] = Takes(store[r], row)
  <2>1. /\ store' \in [Record -> Row]
        /\ \A r \in Record : store'[r] = IF r = q THEN Takes(store[r], new) ELSE store[r]
    BY <1>1, <1>7, AppliedAt DEF Takes
  <2> QED
    BY <1>7, <2>1
<1>8. CASE m.type = "change"
  <2>1. m.rec \in Record /\ m.row \in Row /\ store' = Applied(store, m.rec, m.row)
    BY <1>1, <1>2, <1>8, DownMessages DEF OnWelcome, OnSync, OnChange, OnAck
  <2>2. \A r, row : Brings(m, r, row) <=> r = m.rec /\ row = m.row
    BY <1>8 DEF Brings
  <2> QED
    BY <1>1, <1>7, <1>8, <2>1, <2>2
<1>9. CASE m.type = "ack" /\ m.ok
  <2>1. /\ EditOf[m.change].rec \in Record /\ m.row \in Row
        /\ store' = Applied(store, EditOf[m.change].rec, m.row)
    BY <1>1, <1>2, <1>9, DownMessages, EditsAssumption DEF OnWelcome, OnSync, OnChange, OnAck
  <2>2. \A r, row : Brings(m, r, row) <=> r = EditOf[m.change].rec /\ row = m.row
    BY <1>9 DEF Brings
  <2> QED
    BY <1>1, <1>7, <1>9, <2>1, <2>2
<1>10. CASE m.type = "ack" /\ ~ m.ok
  <2>1. store' = store
    BY <1>2, <1>10 DEF OnWelcome, OnSync, OnChange, OnAck
  <2>2. \A r, row : ~ Brings(m, r, row)
    BY <1>10 DEF Brings
  <2> QED
    BY <1>1, <1>10, <2>1, <2>2
<1> QED
  BY <1>2, <1>4, <1>5, <1>6, <1>8, <1>9, <1>10

(* A write by anyone else.                                                 *)
LEMMA WriteResult ==
  ASSUME TypeOK, NEW q \in Record, NEW table, Bounded(table),
         table[q].seq = HighestSeq(rows) + 1, table[q].gone \in BOOLEAN,
         \A r \in Record : r # q => table[r] = rows[r]
  PROVE  /\ HighestSeq(rows) \in 0 .. MaxSeq /\ table[q].seq <= MaxSeq
         /\ \A r \in Record : table[r].seq \in 0 .. MaxSeq
         /\ \A r \in Record : NoNewer(rows[r], table[r])
         /\ \A r \in Record : rows[r].seq <= HighestSeq(rows)
<1>1. \A r \in Record : rows[r] \in Row /\ rows[r].seq \in 0 .. MaxSeq
  BY DEF TypeOK, Row
<1>2. /\ HighestSeq(rows) \in 0 .. MaxSeq /\ MaxSeq \in Nat
      /\ \A r \in Record : rows[r].seq <= HighestSeq(rows)
  BY <1>1, BoundsAssumption, HighestSeqOf
<1>3. \A r \in Record : table[r].seq \in 0 .. MaxSeq + 1
  BY <1>1, <1>2
<1>4. table[q].seq <= MaxSeq
  <2>1. MaxSeq + 1 \in Nat
    BY <1>2
  <2>2. table[q].seq <= HighestSeq(table) /\ HighestSeq(table) \in 0 .. MaxSeq + 1
    BY <1>3, <2>1, HighestSeqOf
  <2>3. HighestSeq(table) <= MaxSeq
    BY DEF Bounded
  <2> QED
    BY <1>2, <1>3, <2>2, <2>3
<1>5. \A r \in Record : NoNewer(rows[r], table[r])
  BY <1>1, <1>2 DEF NoNewer
<1>6. \A r \in Record : table[r].seq \in 0 .. MaxSeq
  BY <1>1, <1>2, <1>4
<1> QED
  BY <1>2, <1>4, <1>5, <1>6

LEMMA ServerWriteAt ==
  ASSUME TypeOK, NEW q \in Record, ServerWrite(q)
  PROVE  \E new \in Row :
           /\ rows' \in [Record -> Row] /\ Bounded(rows')
           /\ \A r \in Record : NoNewer(rows[r], rows'[r])
           /\ rows'[q] = new /\ \A r \in Record : r # q => rows'[r] = rows[r]
           /\ new.seq = HighestSeq(rows) + 1 /\ HighestSeq(rows) \in 0 .. MaxSeq
           /\ \A r \in Record : rows[r].seq <= HighestSeq(rows)
           /\ forgotten => Live(new)
           /\ ChangeOf(q, new) \in DownMessage
           /\ down' = IF open THEN Append(down, ChangeOf(q, new)) ELSE down
           /\ UNCHANGED <<stray, up, open, engine, local, tasks, history>>
<1>1. PICK gone, new :
        /\ gone \in BOOLEAN /\ new = [seq |-> HighestSeq(rows) + 1, gone |-> gone]
        /\ gone => Removable(rows[q])
        /\ rows' = [rows EXCEPT ![q] = new] /\ Bounded(rows')
        /\ down' = IF open THEN Append(down, ChangeOf(q, new)) ELSE down
        /\ UNCHANGED <<stray, up, open, engine, local, tasks, history>>
  BY DEF ServerWrite
<1>2. PICK table : table = rows'
  OBVIOUS
<1>3. Bounded(table) /\ DOMAIN table = Record /\ rows \in [Record -> Row]
      /\ table = [rows EXCEPT ![q] = new]
  BY <1>1, <1>2 DEF TypeOK
<1>4. new.seq = HighestSeq(rows) + 1 /\ new.gone \in BOOLEAN
  BY <1>1
<1>5. table[q] = new /\ \A r \in Record : r # q => table[r] = rows[r]
  BY <1>3
<1>6. /\ HighestSeq(rows) \in 0 .. MaxSeq /\ new.seq <= MaxSeq
      /\ \A r \in Record : NoNewer(rows[r], table[r])
      /\ \A r \in Record : rows[r].seq <= HighestSeq(rows)
  BY <1>3, <1>4, <1>5, WriteResult
<1>7. new \in Row
  BY <1>1, <1>4, <1>6, BoundsAssumption DEF Row
<1>8. rows' \in [Record -> Row]
  BY <1>2, <1>3, <1>7
<1>9. ChangeOf(q, new) \in DownMessage
  BY <1>7, MessageTypes
<1>10. forgotten => Live(new)
  BY <1>1 DEF Removable, Live
<1> QED
  BY <1>1, <1>2, <1>4, <1>5, <1>6, <1>7, <1>8, <1>9, <1>10

-----------------------------------------------------------------------------
(* Types.  With them: a closed connection carries nothing; an open one has *)
(* no continuation of its own generation, nor one that waits for a load;   *)
(* what a closed socket left behind is never nothing.                      *)
ClientInv ==
  /\ TasksOK /\ OutboxOK
  /\ ~open => up = <<>> /\ down = <<>>
  /\ <<>> \notin stray

WireOK ==
  /\ up \in Seq(UpMessage) /\ down \in Seq(DownMessage)
  /\ stray \subseteq Seq(PushMessage) /\ <<>> \notin stray
  /\ open \in BOOLEAN /\ inFlight \subseteq Change
  /\ ~open => up = <<>> /\ down = <<>>

LEMMA ConcatAt ==
  ASSUME NEW S, NEW s \in Seq(S), NEW t \in Seq(S)
  PROVE  /\ s \o t \in Seq(S) /\ Len(s \o t) = Len(s) + Len(t)
         /\ Len(s) \in Nat /\ Len(t) \in Nat
         /\ \A i \in 1 .. Len(s) : (s \o t)[i] = s[i]
         /\ \A i \in 1 .. Len(t) : (s \o t)[Len(s) + i] = t[i]
<1>1. Len(s) \in Nat /\ Len(t) \in Nat
  BY LenProperties
<1>2. /\ s \o t \in Seq(S) /\ Len(s \o t) = Len(s) + Len(t)
      /\ \A i \in 1 .. Len(s) + Len(t) :
           (s \o t)[i] = IF i <= Len(s) THEN s[i] ELSE t[i - Len(s)]
  BY ConcatProperties
<1>3. ASSUME NEW i \in 1 .. Len(t)
      PROVE  (s \o t)[Len(s) + i] = t[i]
  <2>1. /\ Len(s) + i \in 1 .. Len(s) + Len(t) /\ ~ Len(s) + i <= Len(s)
        /\ (Len(s) + i) - Len(s) = i
    BY <1>1
  <2> QED
    BY <1>2, <2>1
<1>4. \A i \in 1 .. Len(s) : i \in 1 .. Len(s) + Len(t) /\ i <= Len(s)
  BY <1>1
<1> QED
  BY <1>1, <1>2, <1>3, <1>4

LEMMA StrayAt ==
  ASSUME NEW q \in Seq(PushMessage), q # <<>>
  PROVE  /\ Head(q).changes \in Seq(Change)
         /\ (IF Tail(q) = <<>> THEN {} ELSE {Tail(q)}) \subseteq Seq(PushMessage) \ {<<>>}
<1>1. Head(q) \in PushMessage /\ Tail(q) \in Seq(PushMessage)
  BY TailAt
<1> QED
  BY <1>1 DEF PushMessage

LEMMA WireStep ==
  ASSUME TypeOK, ClientInv, [Next]_vars
  PROVE  WireOK'
<1>1. WireOK /\ checkpoint \in 0 .. MaxSeq
  BY DEF TypeOK, ClientInv, WireOK
<1>2. ASSUME Disconnect, inFlight' \subseteq Change
      PROVE  WireOK'
  <2>1. <<>> \notin stray'
    BY <1>1, <1>2 DEF Disconnect, WireOK
  <2> QED
    BY <1>2, <2>1, DisconnectAt DEF WireOK
<1>3. ASSUME Start \/ Stop \/ SocketCloses \/ Reload
      PROVE  WireOK'
  BY <1>1, <1>2, <1>3 DEF Start, Stop, SocketCloses, Reload, WireOK
<1>4. ASSUME NEW t \in tasks, ConnectOk(t)
      PROVE  WireOK'
  <2>1. <<Hello(checkpoint)>> \in Seq(UpMessage) /\ <<>> \in Seq(DownMessage)
    BY <1>1, MessageTypes, EmptySeq
  <2> QED
    BY <1>1, <1>4, <2>1 DEF ConnectOk, WireOK, wire, server
<1>5. ASSUME NEW c \in Change, Push(c)
      PROVE  WireOK'
  <2>1. /\ Append(outbox, c) \in Seq(Change) /\ Flush(Append(outbox, c), inFlight)
        /\ stray' = stray /\ down' = down /\ open' = open
    BY <1>5, AppendProperties DEF Push, ClientInv, OutboxOK, server
  <2>2. /\ up' \in Seq(UpMessage) /\ inFlight' \subseteq Change
        /\ ~open => up' = up
    BY <2>1, FlushAt
  <2> QED
    BY <1>1, <2>1, <2>2 DEF WireOK
<1>6. ASSUME Receive
      PROVE  WireOK'
  <2>1. PICK m : m = Head(down)
    OBVIOUS
  <2>2. /\ down # <<>> /\ open /\ open' = open /\ down' = Tail(down) /\ stray' = stray
        /\ OnWelcome(m) \/ OnSync(m) \/ OnChange(m) \/ OnAck(m)
    BY <1>6, <2>1 DEF Receive, server
  <2>3. down' \in Seq(DownMessage)
    BY <1>1, <2>2, TailAt DEF WireOK
  <2>4. up' \in Seq(UpMessage) /\ inFlight' \subseteq Change
    <3>1. CASE UNCHANGED <<up, inFlight>>
      BY <1>1, <3>1 DEF WireOK
    <3>2. CASE OnWelcome(m)
      <4>1. Hello(0) \in UpMessage
        BY MessageTypes, BoundsAssumption
      <4>2. Append(up, Hello(0)) \in Seq(UpMessage)
        BY <1>1, <4>1, AppendProperties DEF WireOK
      <4> QED
        BY <1>1, <3>2, <4>2 DEF OnWelcome, WireOK
    <3>3. CASE OnSync(m) /\ Flush(outbox, inFlight)
      BY <3>3, FlushAt DEF ClientInv, OutboxOK
    <3>4. CASE OnAck(m)
      BY <1>1, <3>4 DEF OnAck, WireOK
    <3> QED
      BY <2>2, <3>1, <3>2, <3>3, <3>4 DEF OnSync, OnChange
  <2> QED
    BY <1>1, <2>2, <2>3, <2>4 DEF WireOK
<1>7. ASSUME ServeHello
      PROVE  WireOK'
  <2>1. /\ open /\ up # <<>> /\ Head(up).type = "hello" /\ up' = Tail(up)
        /\ down' = down \o <<Welcome(HighestSeq(rows))>> \o Pages(Head(up).checkpoint)
        /\ UNCHANGED <<stray, open, inFlight>>
    BY <1>7 DEF ServeHello, server, engine
  <2>2. /\ Head(up) \in UpMessage /\ Tail(up) \in Seq(UpMessage)
    BY <1>1, <2>1, TailAt DEF WireOK
  <2>3. Head(up).checkpoint \in Nat
    BY <2>1, <2>2, UpMessages
  <2>4. Pages(Head(up).checkpoint) \in Seq(DownMessage)
    BY <2>3, PagesAt
  <2>5. <<Welcome(HighestSeq(rows))>> \in Seq(DownMessage)
    <3>1. HighestSeq(rows) \in 0 .. MaxSeq
      <4>1. \A r \in Record : rows[r].seq \in 0 .. MaxSeq
        BY DEF TypeOK, Row
      <4> QED
        BY <4>1, BoundsAssumption, HighestSeqOf
    <3> QED
      BY <3>1, MessageTypes
  <2>6. down' \in Seq(DownMessage)
    <3>1. down \o <<Welcome(HighestSeq(rows))>> \in Seq(DownMessage)
      BY <1>1, <2>5, ConcatAt DEF WireOK
    <3> QED
      BY <2>1, <2>4, <3>1, ConcatAt
  <2> QED
    BY <1>1, <2>1, <2>2, <2>6 DEF WireOK
<1>8. ASSUME ServePush
      PROVE  WireOK'
  <2>1. /\ open /\ up # <<>> /\ Head(up).type = "push" /\ up' = Tail(up)
        /\ UNCHANGED <<stray, open, inFlight>>
    BY <1>8 DEF ServePush, engine
  <2>2. PICK s \in Results(Head(up).changes) : down' = down \o s.acks
    BY <1>8 DEF ServePush
  <2>3. Head(up) \in UpMessage /\ Tail(up) \in Seq(UpMessage)
    BY <1>1, <2>1, TailAt DEF WireOK
  <2>4. Head(up).changes \in Seq(Change)
    BY <2>1, <2>3, UpMessages
  <2>5. s.acks \in Seq(DownMessage)
    BY <2>4, PushResult
  <2>6. down' \in Seq(DownMessage)
    BY <1>1, <2>2, <2>5, ConcatAt DEF WireOK
  <2> QED
    BY <1>1, <2>1, <2>3, <2>6 DEF WireOK
<1>9. ASSUME ServeStray
      PROVE  WireOK'
  <2>1. PICK q \in stray :
          /\ stray' = (stray \ {q}) \cup (IF Tail(q) = <<>> THEN {} ELSE {Tail(q)})
          /\ \E s \in Results(Head(q).changes) : down' = IF open THEN down \o s.news ELSE down
          /\ UNCHANGED <<up, open, inFlight>>
    BY <1>9 DEF ServeStray, engine
  <2>2. q \in Seq(PushMessage) /\ q # <<>>
    BY <1>1 DEF WireOK
  <2>3. /\ Head(q).changes \in Seq(Change)
        /\ (IF Tail(q) = <<>> THEN {} ELSE {Tail(q)}) \subseteq Seq(PushMessage) \ {<<>>}
    BY <2>2, StrayAt
  <2>4. PICK s \in Results(Head(q).changes) : down' = IF open THEN down \o s.news ELSE down
    BY <2>1
  <2>5. s.news \in Seq(DownMessage)
    BY <2>3, PushResult
  <2>6. down \o s.news \in Seq(DownMessage)
    BY <1>1, <2>5, ConcatAt DEF WireOK
  <2> QED
    BY <1>1, <2>1, <2>3, <2>4, <2>6 DEF WireOK
<1>10. ASSUME NEW r \in Record, ServerWrite(r)
       PROVE  WireOK'
  <2>1. PICK new \in Row :
          /\ ChangeOf(r, new) \in DownMessage
          /\ down' = IF open THEN Append(down, ChangeOf(r, new)) ELSE down
          /\ UNCHANGED <<stray, up, open, engine>>
    BY <1>10, ServerWriteAt
  <2>3. Append(down, ChangeOf(r, new)) \in Seq(DownMessage)
    BY <1>1, <2>1, AppendProperties DEF WireOK
  <2> QED
    BY <1>1, <2>1, <2>3 DEF WireOK, engine
<1>11. ASSUME LoseStray \/ ServerReset
       PROVE  WireOK'
  BY <1>1, <1>11 DEF LoseStray, ServerReset, WireOK, wire, engine
<1>12. ASSUME \/ \E t \in tasks : Loaded(t) \/ ConnectFails(t) \/ RefreshOk(t) \/ RefreshFails(t)
              \/ UNCHANGED vars
       PROVE  WireOK'
  BY <1>1, <1>12 DEF Loaded, ConnectFails, RefreshOk, RefreshFails, vars, server, wire, engine, WireOK
<1> QED
  BY <1>3, <1>4, <1>5, <1>6, <1>7, <1>8, <1>9, <1>10, <1>11, <1>12 DEF Next

LEMMA RowsStep ==
  ASSUME TypeOK, ClientInv, Next
  PROVE  /\ rows' \in [Record -> Row]
         /\ ServerReset \/ \A r \in Record : NoNewer(rows[r], rows'[r])
<1>1. rows \in [Record -> Row] /\ \A r \in Record : rows[r].seq \in Nat
  BY DEF TypeOK, Row
<1>2. \A r \in Record : NoNewer(rows[r], rows[r])
  BY <1>1 DEF NoNewer
<1>3. CASE rows' = rows
  BY <1>1, <1>2, <1>3
<1>4. ASSUME NEW cs \in Seq(Change), NEW s \in Results(cs), rows' = s.rows
      PROVE  rows' \in [Record -> Row] /\ \A r \in Record : NoNewer(rows[r], rows'[r])
  BY <1>4, PushResult
<1>5. CASE ServePush
  <2>1. /\ up \in Seq(UpMessage) /\ up # <<>> /\ Head(up).type = "push"
        /\ \E s \in Results(Head(up).changes) : rows' = s.rows
    BY <1>5 DEF ServePush, TypeOK
  <2>2. Head(up).changes \in Seq(Change)
    BY <2>1, TailAt, UpMessages
  <2> QED
    BY <1>4, <2>1, <2>2
<1>6. CASE ServeStray
  <2>1. PICK q \in stray : \E s \in Results(Head(q).changes) : rows' = s.rows
    BY <1>6 DEF ServeStray
  <2>2. q \in Seq(PushMessage) /\ q # <<>>
    BY DEF TypeOK, ClientInv
  <2>3. Head(q).changes \in Seq(Change)
    BY <2>2, StrayAt
  <2> QED
    BY <1>4, <2>1, <2>3
<1>7. ASSUME NEW r \in Record, ServerWrite(r)
      PROVE  rows' \in [Record -> Row] /\ \A x \in Record : NoNewer(rows[x], rows'[x])
  BY <1>7, ServerWriteAt
<1>8. CASE ServerReset
  <2>1. Nothing \in Row
    BY BoundsAssumption DEF Nothing, Row
  <2> QED
    BY <1>8, <2>1 DEF ServerReset
<1>9. ASSUME \/ Start \/ Stop \/ SocketCloses \/ Reload
             \/ \E t \in tasks : \/ Loaded(t) \/ ConnectOk(t) \/ ConnectFails(t)
                                 \/ RefreshOk(t) \/ RefreshFails(t)
             \/ \E c \in Change : Push(c)
             \/ Receive \/ ServeHello \/ LoseStray
      PROVE  rows' = rows
  BY <1>9 DEF Start, Stop, SocketCloses, Reload, Loaded, ConnectOk, ConnectFails, RefreshOk,
              RefreshFails, Push, Receive, ServeHello, LoseStray, server
<1> QED
  BY <1>3, <1>5, <1>6, <1>7, <1>8, <1>9 DEF Next

LEMMA StoreStep ==
  ASSUME TypeOK, [Next]_vars
  PROVE  store' \in [Record -> Row]
<1>1. store \in [Record -> Row]
  BY DEF TypeOK
<1>2. CASE Receive
  BY <1>2, StoreTakes
<1>3. CASE Reload
  BY <1>3, BoundsAssumption DEF Reload, Nothing, Row
<1>4. ASSUME \/ Start \/ Stop \/ SocketCloses
             \/ \E t \in tasks : \/ Loaded(t) \/ ConnectOk(t) \/ ConnectFails(t)
                                 \/ RefreshOk(t) \/ RefreshFails(t)
             \/ \E c \in Change : Push(c)
             \/ ServeHello \/ ServePush \/ ServeStray \/ LoseStray
             \/ \E r \in Record : ServerWrite(r)
             \/ ServerReset \/ UNCHANGED vars
      PROVE  store' = store
  BY <1>4 DEF Start, Stop, SocketCloses, Loaded, ConnectOk, ConnectFails, RefreshOk, RefreshFails,
              Push, ServeHello, ServePush, ServeStray, LoseStray, ServerWrite, ServerReset, vars,
              local
<1> QED
  BY <1>1, <1>2, <1>3, <1>4 DEF Next

Flags ==
  /\ open \in BOOLEAN /\ stopped \in BOOLEAN /\ (open => ~stopped)
  /\ awaitingResetWelcome \in BOOLEAN /\ forgotten \in BOOLEAN
Numbers ==
  /\ generation \in 0 .. MaxGeneration /\ closes \in 0 .. MaxCloses
  /\ status \in {"idle", "connecting", "syncing", "ready", "closed"}
  /\ checkpoint \in 0 .. MaxSeq /\ savedCheckpoint \in 0 .. MaxSeq

LEMMA FlagsStep ==
  ASSUME TypeOK, [Next]_vars
  PROVE  Flags'
<1>1. Flags
  BY DEF TypeOK, Flags
<1>2. CASE Start \/ Stop \/ SocketCloses \/ Reload
  <2>1. open' = FALSE
    BY <1>2, DisconnectAt DEF Start, Stop, SocketCloses, Reload
  <2>2. /\ stopped' = stopped \/ stopped' = TRUE \/ stopped' = FALSE
        /\ awaitingResetWelcome' = awaitingResetWelcome \/ awaitingResetWelcome' = FALSE
        /\ forgotten' = forgotten \/ forgotten' = FALSE
    BY <1>2 DEF Start, Stop, SocketCloses, Reload, history
  <2> QED
    BY <1>1, <2>1, <2>2 DEF Flags
<1>3. ASSUME NEW t \in tasks,
             Loaded(t) \/ ConnectOk(t) \/ ConnectFails(t) \/ RefreshOk(t) \/ RefreshFails(t)
      PROVE  Flags'
  <2>1. /\ stopped' = stopped /\ forgotten' = forgotten
        /\ awaitingResetWelcome' = awaitingResetWelcome \/ awaitingResetWelcome' = FALSE
        /\ open' = open \/ (open' = TRUE /\ ~stopped)
    BY <1>3 DEF Loaded, ConnectOk, ConnectFails, RefreshOk, RefreshFails, Current, wire, history
  <2>2. open' \in BOOLEAN /\ stopped' \in BOOLEAN
    BY <1>1, <2>1 DEF Flags
  <2>3. open' => ~stopped
    BY <1>1, <2>1 DEF Flags
  <2>4. open' => ~stopped'
    BY <2>1, <2>3
  <2>5. awaitingResetWelcome' \in BOOLEAN /\ forgotten' \in BOOLEAN
    BY <1>1, <2>1 DEF Flags
  <2> QED
    BY <2>2, <2>4, <2>5 DEF Flags
<1>4. CASE Receive
  <2>1. /\ open' = open /\ stopped' = stopped
        /\ \/ awaitingResetWelcome' = awaitingResetWelcome
           \/ awaitingResetWelcome' = FALSE \/ awaitingResetWelcome' = TRUE
        /\ forgotten' = forgotten \/ forgotten' = FALSE
    BY <1>4 DEF Receive, OnWelcome, OnSync, OnChange, OnAck
  <2>2. open' \in BOOLEAN /\ stopped' \in BOOLEAN /\ (open' => ~stopped')
    BY <1>1, <2>1 DEF Flags
  <2>3. awaitingResetWelcome' \in BOOLEAN /\ forgotten' \in BOOLEAN
    BY <1>1, <2>1 DEF Flags
  <2> QED
    BY <2>2, <2>3 DEF Flags
<1>5. ASSUME \/ \E c \in Change : Push(c)
             \/ ServeHello \/ ServePush \/ ServeStray \/ LoseStray
             \/ \E r \in Record : ServerWrite(r)
             \/ ServerReset \/ UNCHANGED vars
      PROVE  Flags'
  <2>1. /\ UNCHANGED <<open, stopped, awaitingResetWelcome>>
        /\ forgotten' = forgotten \/ forgotten' = TRUE
    BY <1>5 DEF Push, ServeHello, ServePush, ServeStray, LoseStray, ServerWrite, ServerReset, vars,
                wire, engine, local, history
  <2> QED
    BY <1>1, <2>1 DEF Flags
<1> QED
  BY <1>2, <1>3, <1>4, <1>5 DEF Next

LEMMA NumbersStep ==
  ASSUME TypeOK, [Next]_vars
  PROVE  Numbers'
<1>1. Numbers
  BY DEF TypeOK, Numbers
<1>2. {MaxSeq, MaxGeneration, MaxCloses} \subseteq Nat /\ 0 \in 0 .. MaxSeq
  BY BoundsAssumption
<1>3. CASE Start \/ Stop
  <2>1. /\ generation' = generation + 1 /\ generation < MaxGeneration
        /\ status' \in {status, "closed"}
        /\ UNCHANGED <<checkpoint, savedCheckpoint, closes>>
    BY <1>3 DEF Start, Stop, local, history
  <2> QED
    BY <1>1, <1>2, <2>1 DEF Numbers
<1>4. CASE SocketCloses \/ Reload
  <2>1. /\ closes' = closes \/ (closes' = closes + 1 /\ closes < MaxCloses)
        /\ status' \in {status, "connecting", "closed", "idle"} /\ generation' = generation
        /\ checkpoint' \in {checkpoint, 0} /\ savedCheckpoint' \in {savedCheckpoint, 0}
    BY <1>4 DEF SocketCloses, Reload
  <2> QED
    BY <1>1, <1>2, <2>1 DEF Numbers
<1>5. ASSUME NEW t \in tasks,
             Loaded(t) \/ ConnectOk(t) \/ ConnectFails(t) \/ RefreshOk(t) \/ RefreshFails(t)
      PROVE  Numbers'
  <2>1. /\ UNCHANGED <<generation, savedCheckpoint, closes>>
        /\ checkpoint' \in {checkpoint, TrustedCheckpoint}
        /\ status' \in {status, "connecting", "syncing", "closed"}
    BY <1>5 DEF Loaded, ConnectOk, ConnectFails, RefreshOk, RefreshFails, Connect, local, history
  <2>2. TrustedCheckpoint \in {savedCheckpoint, 0}
    BY DEF TrustedCheckpoint
  <2> QED
    BY <1>1, <1>2, <2>1, <2>2 DEF Numbers
<1>6. CASE Receive
  <2>1. PICK m : m = Head(down)
    OBVIOUS
  <2>2. /\ m \in DownMessage
        /\ OnWelcome(m) \/ OnSync(m) \/ OnChange(m) \/ OnAck(m)
        /\ generation' = generation /\ closes' = closes
    BY <1>6, <2>1, TailAt DEF Receive, TypeOK
  <2>3. CASE OnSync(m)
    <3>1. m.serverSeq \in 0 .. MaxSeq
      BY <2>2, <2>3, DownMessages DEF OnSync
    <3>2. /\ checkpoint' \in {checkpoint, m.serverSeq}
          /\ savedCheckpoint' \in {savedCheckpoint, m.serverSeq}
          /\ status' \in {status, "ready"}
      BY <2>3 DEF OnSync
    <3> QED
      BY <1>1, <2>2, <3>1, <3>2 DEF Numbers
  <2>4. CASE OnWelcome(m) \/ OnChange(m) \/ OnAck(m)
    <3>1. /\ checkpoint' \in {checkpoint, 0} /\ savedCheckpoint' \in {savedCheckpoint, 0}
          /\ status' = status
      BY <2>4 DEF OnWelcome, OnChange, OnAck
    <3> QED
      BY <1>1, <1>2, <2>2, <3>1 DEF Numbers
  <2> QED
    BY <2>2, <2>3, <2>4
<1>7. ASSUME \/ \E c \in Change : Push(c)
             \/ ServeHello \/ ServePush \/ ServeStray \/ LoseStray
             \/ \E r \in Record : ServerWrite(r)
             \/ ServerReset \/ UNCHANGED vars
      PROVE  Numbers'
  <2>1. UNCHANGED <<generation, status, checkpoint, savedCheckpoint, closes>>
    BY <1>7 DEF Push, ServeHello, ServePush, ServeStray, LoseStray, ServerWrite, ServerReset, vars,
                engine, local, history
  <2> QED
    BY <1>1, <2>1 DEF Numbers
<1> QED
  BY <1>3, <1>4, <1>5, <1>6, <1>7 DEF Next

LEMMA InitTypes ==
  ASSUME Init
  PROVE  TypeOK /\ ClientInv
<1>1. /\ 0 \in 0 .. MaxSeq /\ 0 \in 0 .. MaxGeneration /\ 0 \in 0 .. MaxCloses /\ MaxSeq \in Nat
      /\ Nothing \in Row
  BY BoundsAssumption DEF Nothing, Row
<1>2. /\ <<>> \in Seq(UpMessage) /\ <<>> \in Seq(DownMessage) /\ <<>> \in Seq(Change)
      /\ ToSet(<<>>) = {} /\ IsInjective(<<>>)
  BY EmptySeq, NoEdits
<1>3. rows \in [Record -> Row]
  <2>1. rows \in [Record -> [seq : 0 .. Cardinality(Record), gone : BOOLEAN]]
    BY DEF Init
  <2>2. 0 .. Cardinality(Record) \subseteq 0 .. MaxSeq
    BY <1>1, RecordAssumption, FS_CardinalityType
  <2> QED
    BY <2>1, <2>2 DEF Row
<1>4. TypeOK
  BY <1>1, <1>2, <1>3 DEF Init, TypeOK
<1>5. ClientInv
  BY <1>2 DEF Init, ClientInv, TasksOK, OutboxOK
<1> QED
  BY <1>4, <1>5

LEMMA TypesStep ==
  ASSUME TypeOK, ClientInv, [Next]_vars
  PROVE  TypeOK' /\ ClientInv'
<1>1. TasksOK' /\ OutboxOK' /\ WireOK' /\ Flags' /\ Numbers' /\ store' \in [Record -> Row]
  BY TasksStep, OutboxStep, WireStep, FlagsStep, NumbersStep, StoreStep DEF ClientInv
<1>2. rows' \in [Record -> Row]
  <2>1. CASE Next
    BY <2>1, RowsStep
  <2>2. CASE UNCHANGED vars
    BY <2>2 DEF vars, server, TypeOK
  <2> QED
    BY <2>1, <2>2
<1>3. TypeOK'
  BY <1>1, <1>2 DEF TypeOK, TasksOK, OutboxOK, WireOK, Flags, Numbers
<1>4. ClientInv'
  BY <1>1 DEF ClientInv, WireOK
<1> QED
  BY <1>3, <1>4

(* The wire carries each side's messages, one outbox entry per edit, at    *)
(* most one continuation per generation, whatever the user, the network    *)
(* and the other writers do (engine.ts, outbox.ts, sync/handlers.ts).      *)
THEOREM TypeCorrect == Spec => []TypeOK
<1>1. Init => TypeOK /\ ClientInv
  BY InitTypes
<1>2. TypeOK /\ ClientInv /\ [Next]_vars => TypeOK' /\ ClientInv'
  BY TypesStep
<1> QED
  BY <1>1, <1>2, PTL DEF Spec

-----------------------------------------------------------------------------
(* An edit is on the wire once: in the push that carries it, or in the     *)
(* answer to it.  Those that are belong to inFlight, so that a flush sends *)
(* none of them.                                                           *)
Carries(q, i, c) == i \in 1 .. Len(q) /\ q[i].type = "push" /\ c \in ToSet(q[i].changes)
Answers(q, i, c) == i \in 1 .. Len(q) /\ q[i].type = "ack" /\ q[i].change = c
Flying(u, d, flying) ==
  /\ \A i \in 1 .. Len(u) : u[i].type = "push" => IsInjective(u[i].changes)
  /\ \A c, i : Carries(u, i, c) => c \in flying
  /\ \A c, i : Answers(d, i, c) => c \in flying
  /\ \A c, i, j : Carries(u, i, c) /\ Carries(u, j, c) => i = j
  /\ \A c, i, j : Answers(d, i, c) /\ Answers(d, j, c) => i = j
  /\ \A c, i, j : ~ (Carries(u, i, c) /\ Answers(d, j, c))
FlightInv == Flying(up, down, inFlight)

LEMMA FlyingOnce ==
  ASSUME TypeOK, FlightInv
  PROVE  NotSentTwice
<1> SUFFICES ASSUME NEW c \in Change, NEW p \in OnTheWay(c), NEW q \in OnTheWay(c)
             PROVE  p = q
  BY DEF NotSentTwice
<1>1. DOMAIN up = 1 .. Len(up) /\ DOMAIN down = 1 .. Len(down)
  BY LenProperties DEF TypeOK
<1>2. \A x \in OnTheWay(c) :
        \/ \E i : x = <<"up", i>> /\ Carries(up, i, c)
        \/ \E i : x = <<"down", i>> /\ Answers(down, i, c)
  BY <1>1 DEF OnTheWay, Carries, Answers
<1> QED
  BY <1>2 DEF FlightInv, Flying

LEMMA CarriesConcat ==
  ASSUME NEW S, NEW s \in Seq(S), NEW t \in Seq(S), NEW i, NEW c
  PROVE  /\ Carries(s \o t, i, c) =>
              Carries(s, i, c) \/ \E k : i = Len(s) + k /\ Carries(t, k, c)
         /\ Answers(s \o t, i, c) =>
              Answers(s, i, c) \/ \E k : i = Len(s) + k /\ Answers(t, k, c)
<1>1. /\ Len(s \o t) = Len(s) + Len(t) /\ Len(s) \in Nat /\ Len(t) \in Nat
      /\ \A k \in 1 .. Len(s) : (s \o t)[k] = s[k]
      /\ \A k \in 1 .. Len(t) : (s \o t)[Len(s) + k] = t[k]
  BY ConcatAt
<1>2. ASSUME i \in 1 .. Len(s) + Len(t)
      PROVE  i \in 1 .. Len(s) \/ (i - Len(s) \in 1 .. Len(t) /\ i = Len(s) + (i - Len(s)))
  BY <1>1, <1>2
<1>3. ASSUME i \in 1 .. Len(s)
      PROVE  /\ Carries(s \o t, i, c) => Carries(s, i, c)
             /\ Answers(s \o t, i, c) => Answers(s, i, c)
  BY <1>1, <1>3 DEF Carries, Answers
<1>4. ASSUME NEW k \in 1 .. Len(t), i = Len(s) + k
      PROVE  /\ Carries(s \o t, i, c) => Carries(t, k, c)
             /\ Answers(s \o t, i, c) => Answers(t, k, c)
  BY <1>1, <1>4 DEF Carries, Answers
<1>5. Carries(s \o t, i, c) \/ Answers(s \o t, i, c) => i \in 1 .. Len(s) + Len(t)
  BY <1>1 DEF Carries, Answers
<1> QED
  BY <1>2, <1>3, <1>4, <1>5

LEMMA CarriesTail ==
  ASSUME NEW S, NEW s \in Seq(S), s # <<>>, NEW i, NEW c
  PROVE  /\ Carries(Tail(s), i, c) => Carries(s, i + 1, c) /\ i \in Nat \ {0}
         /\ Answers(Tail(s), i, c) => Answers(s, i + 1, c) /\ i \in Nat \ {0}
<1>1. /\ Len(Tail(s)) = Len(s) - 1 /\ Len(s) \in Nat \ {0}
      /\ \A k \in 1 .. Len(Tail(s)) : k + 1 \in 1 .. Len(s) /\ Tail(s)[k] = s[k + 1]
  BY TailAt
<1>2. \A k \in 1 .. Len(Tail(s)) : k \in Nat \ {0}
  BY <1>1
<1> QED
  BY <1>1, <1>2 DEF Carries, Answers

LEMMA FlyingTails ==
  ASSUME NEW u \in Seq(UpMessage), NEW d \in Seq(DownMessage), NEW flying, Flying(u, d, flying)
  PROVE  /\ u # <<>> => Flying(Tail(u), d, flying)
         /\ d # <<>> => Flying(u, Tail(d), flying)
         /\ d # <<>> /\ Head(d).type = "ack" => Flying(u, Tail(d), flying \ {Head(d).change})
<1>1. ASSUME u # <<>>
      PROVE  Flying(Tail(u), d, flying)
  <2>1. /\ Len(Tail(u)) = Len(u) - 1 /\ Len(u) \in Nat \ {0}
        /\ \A k \in 1 .. Len(Tail(u)) : k + 1 \in 1 .. Len(u) /\ Tail(u)[k] = u[k + 1]
    BY <1>1, TailAt
  <2>2. \A i \in 1 .. Len(Tail(u)) : Tail(u)[i].type = "push" => IsInjective(Tail(u)[i].changes)
    BY <2>1 DEF Flying
  <2>3. \A c, i : Carries(Tail(u), i, c) => Carries(u, i + 1, c) /\ i \in Nat \ {0}
    BY <1>1, CarriesTail
  <2>4. ASSUME NEW c, NEW i, NEW j, Carries(Tail(u), i, c), Carries(Tail(u), j, c)
        PROVE  i = j
    <3>1. i + 1 = j + 1 /\ i \in Nat /\ j \in Nat
      BY <2>3, <2>4 DEF Flying
    <3> QED
      BY <3>1
  <2> QED
    BY <2>2, <2>3, <2>4 DEF Flying
<1>2. ASSUME d # <<>>
      PROVE  /\ Flying(u, Tail(d), flying)
             /\ \A i : ~ Answers(Tail(d), i, Head(d).change) \/ Head(d).type # "ack"
  <2>1. Len(d) \in Nat \ {0} /\ Head(d) = d[1]
    BY <1>2, TailAt
  <2>2. \A c, i : Answers(Tail(d), i, c) => Answers(d, i + 1, c) /\ i \in Nat \ {0}
    BY <1>2, CarriesTail
  <2>3. ASSUME NEW c, NEW i, NEW j, Answers(Tail(d), i, c), Answers(Tail(d), j, c)
        PROVE  i = j
    <3>1. i + 1 = j + 1 /\ i \in Nat /\ j \in Nat
      BY <2>2, <2>3 DEF Flying
    <3> QED
      BY <3>1
  <2>4. ASSUME NEW i, Answers(Tail(d), i, Head(d).change), Head(d).type = "ack"
        PROVE  FALSE
    <3>1. Answers(d, 1, Head(d).change)
      BY <2>1, <2>4 DEF Answers
    <3>2. i + 1 = 1 /\ i \in Nat \ {0}
      BY <2>2, <2>4, <3>1 DEF Flying
    <3> QED
      BY <3>2
  <2> QED
    BY <2>2, <2>3, <2>4 DEF Flying
<1>3. ASSUME d # <<>>, Head(d).type = "ack"
      PROVE  Flying(u, Tail(d), flying \ {Head(d).change})
  <2>1. Answers(d, 1, Head(d).change)
    BY <1>3, TailAt DEF Answers
  <2>2. \A i : ~ Carries(u, i, Head(d).change)
    BY <2>1 DEF Flying
  <2> QED
    BY <1>2, <1>3, <2>2 DEF Flying
<1> QED
  BY <1>1, <1>2, <1>3

LEMMA FlyingMore ==
  ASSUME NEW u \in Seq(UpMessage), NEW d \in Seq(DownMessage), NEW flying, Flying(u, d, flying)
  PROVE  /\ \A t \in Seq(DownMessage) :
              (\A i \in 1 .. Len(t) : t[i].type # "ack") => Flying(u, d \o t, flying)
         /\ \A n \in 0 .. MaxSeq : Flying(Append(u, Hello(n)), d, flying)
<1>1. ASSUME NEW t \in Seq(DownMessage), \A i \in 1 .. Len(t) : t[i].type # "ack"
      PROVE  Flying(u, d \o t, flying)
  <2>1. \A c, i : ~ Answers(t, i, c)
    BY <1>1 DEF Answers
  <2>2. \A c, i : Answers(d \o t, i, c) => Answers(d, i, c)
    BY <2>1, CarriesConcat
  <2> QED
    BY <2>2 DEF Flying
<1>2. ASSUME NEW n \in 0 .. MaxSeq
      PROVE  Flying(Append(u, Hello(n)), d, flying)
  <2>1. /\ Len(Append(u, Hello(n))) = Len(u) + 1 /\ Len(u) \in Nat
        /\ \A i \in 1 .. Len(u) : Append(u, Hello(n))[i] = u[i]
        /\ Append(u, Hello(n))[Len(u) + 1] = Hello(n)
    <3>1. Hello(n) \in UpMessage
      BY MessageTypes
    <3> QED
      BY <3>1, AppendAt
  <2>2. \A i \in 1 .. Len(u) + 1 : i \in 1 .. Len(u) \/ i = Len(u) + 1
    BY <2>1
  <2>3. Hello(n).type # "push"
    BY DEF Hello
  <2>4. \A c, i : Carries(Append(u, Hello(n)), i, c) => Carries(u, i, c)
    BY <2>1, <2>2, <2>3 DEF Carries
  <2>5. \A i \in 1 .. Len(Append(u, Hello(n))) :
          Append(u, Hello(n))[i].type = "push" => IsInjective(Append(u, Hello(n))[i].changes)
    BY <2>1, <2>2, <2>3 DEF Flying
  <2> QED
    BY <2>4, <2>5 DEF Flying
<1> QED
  BY <1>1, <1>2

LEMMA FlyingSend ==
  ASSUME NEW u \in Seq(UpMessage), NEW d \in Seq(DownMessage), NEW flying, Flying(u, d, flying),
         NEW box \in Seq(Change), IsInjective(box)
  PROVE  Flying(u \o Batches(Unsent(box, flying)), d, flying \cup ToSet(box))
<1> DEFINE w == Unsent(box, flying)
           t == Batches(w)
<1>1. /\ w \in Seq(Change) /\ IsInjective(w)
      /\ \A c : c \in ToSet(w) <=> c \in ToSet(box) /\ c \notin flying
  <2>1. /\ Without(box, flying) \in Seq(Change)
        /\ \A x : x \in ToSet(Without(box, flying)) <=> x \in ToSet(box) /\ x \notin flying
        /\ IsInjective(box) => IsInjective(Without(box, flying))
    BY WithoutSeq
  <2> QED
    BY <2>1 DEF Unsent
<1> HIDE DEF w
<1>2. /\ t \in Seq(PushMessage)
      /\ \A i \in 1 .. Len(t) :
           /\ t[i].type = "push" /\ t[i].changes \in Seq(Change)
           /\ ToSet(t[i].changes) \subseteq ToSet(w)
      /\ \A i \in 1 .. Len(t) : IsInjective(t[i].changes)
      /\ \A i, j \in 1 .. Len(t) : \A c \in ToSet(t[i].changes) \cap ToSet(t[j].changes) : i = j
  BY <1>1, BatchesAt
<1> HIDE DEF t
<1>3. t \in Seq(UpMessage)
  BY <1>2, MessageTypes, SeqMonotonic
<1>4. /\ \A c, i : Carries(t, i, c) => c \in ToSet(box) /\ c \notin flying
      /\ \A c, i, j : Carries(t, i, c) /\ Carries(t, j, c) => i = j
  BY <1>1, <1>2 DEF Carries
<1>5. \A c, i : Carries(u \o t, i, c) =>
                  Carries(u, i, c) \/ \E k : i = Len(u) + k /\ Carries(t, k, c)
  BY <1>3, CarriesConcat
<1>6. \A c, i : Carries(u, i, c) => c \in flying
  BY DEF Flying
<1>7. ASSUME NEW c, NEW i, NEW j, Carries(u \o t, i, c), Carries(u \o t, j, c)
      PROVE  i = j
  <2>1. CASE c \in flying
    <3>1. Carries(u, i, c) /\ Carries(u, j, c)
      BY <1>4, <1>5, <1>7, <2>1
    <3> QED
      BY <3>1 DEF Flying
  <2>2. CASE c \notin flying
    <3>1. PICK k : i = Len(u) + k /\ Carries(t, k, c)
      BY <1>5, <1>6, <1>7, <2>2
    <3>2. PICK l : j = Len(u) + l /\ Carries(t, l, c)
      BY <1>5, <1>6, <1>7, <2>2
    <3> QED
      BY <1>4, <3>1, <3>2
  <2> QED
    BY <2>1, <2>2
<1>8. ASSUME NEW c, NEW i, NEW j, Carries(u \o t, i, c), Answers(d, j, c)
      PROVE  FALSE
  <2>1. c \in flying
    BY <1>8 DEF Flying
  <2>2. Carries(u, i, c)
    BY <1>4, <1>5, <1>8, <2>1
  <2> QED
    BY <1>8, <2>2 DEF Flying
<1>9. \A i \in 1 .. Len(u \o t) : (u \o t)[i].type = "push" => IsInjective((u \o t)[i].changes)
  <2> SUFFICES ASSUME NEW i \in 1 .. Len(u \o t), (u \o t)[i].type = "push"
               PROVE  IsInjective((u \o t)[i].changes)
    OBVIOUS
  <2>1. /\ Len(u \o t) = Len(u) + Len(t) /\ Len(u) \in Nat /\ Len(t) \in Nat
        /\ \A k \in 1 .. Len(u) : (u \o t)[k] = u[k]
        /\ \A k \in 1 .. Len(t) : (u \o t)[Len(u) + k] = t[k]
    BY <1>3, ConcatAt
  <2>2. CASE i \in 1 .. Len(u)
    BY <2>1, <2>2 DEF Flying
  <2>3. CASE i \notin 1 .. Len(u)
    <3>1. i - Len(u) \in 1 .. Len(t) /\ i = Len(u) + (i - Len(u))
      BY <2>1, <2>3
    <3>2. (u \o t)[i] = t[i - Len(u)]
      BY <2>1, <3>1
    <3> QED
      BY <1>2, <3>1, <3>2
  <2> QED
    BY <2>2, <2>3
<1>10. \A c, i : Carries(u \o t, i, c) => c \in flying \cup ToSet(box)
  BY <1>4, <1>5, <1>6
<1>11. \A c, i : Answers(d, i, c) => c \in flying \cup ToSet(box)
  BY DEF Flying
<1>12. Flying(u \o t, d, flying \cup ToSet(box))
  <2>1. \A c, i, j : Answers(d, i, c) /\ Answers(d, j, c) => i = j
    BY DEF Flying
  <2> QED
    BY <1>7, <1>8, <1>9, <1>10, <1>11, <2>1 DEF Flying
<1> QED
  BY <1>12 DEF t, w

LEMMA FlyingAnswer ==
  ASSUME NEW u \in Seq(UpMessage), NEW d \in Seq(DownMessage), NEW flying, Flying(u, d, flying),
         u # <<>>, Head(u).type = "push", NEW acks \in Seq(DownMessage),
         Len(acks) = Len(Head(u).changes),
         \A i \in 1 .. Len(acks) : acks[i].change = Head(u).changes[i]
  PROVE  Flying(Tail(u), d \o acks, flying)
<1> DEFINE cs == Head(u).changes
<1>1. Head(u) = u[1] /\ 1 \in 1 .. Len(u) /\ Head(u) \in UpMessage
  BY TailAt
<1>2. cs \in Seq(Change) /\ IsInjective(cs)
  BY <1>1, UpMessages DEF Flying
<1>3. DOMAIN cs = 1 .. Len(cs) /\ \A i \in 1 .. Len(cs) : cs[i] \in ToSet(cs)
  BY <1>2, LenProperties DEF ToSet
<1>4. \A c, i : Answers(acks, i, c) => c \in ToSet(cs) /\ i \in 1 .. Len(cs) /\ c = cs[i]
  BY <1>3 DEF Answers
<1> HIDE DEF cs
<1>5. \A c, i, j : Answers(acks, i, c) /\ Answers(acks, j, c) => i = j
  BY <1>2, <1>3, <1>4 DEF IsInjective
<1>6. \A c \in ToSet(cs) : Carries(u, 1, c)
  BY <1>1 DEF Carries, cs
<1>7. \A c, i : Answers(acks, i, c) => Carries(u, 1, c)
  BY <1>4, <1>6
<1>8. \A c, i : Answers(d \o acks, i, c) =>
                  Answers(d, i, c) \/ \E k : i = Len(d) + k /\ Answers(acks, k, c)
  BY CarriesConcat
<1>9. \A c, i : Carries(Tail(u), i, c) => Carries(u, i + 1, c) /\ i \in Nat \ {0}
  BY CarriesTail
<1>10. Flying(Tail(u), d, flying)
  BY FlyingTails
<1>11. ASSUME NEW c, NEW i, NEW j, Answers(d \o acks, i, c), Answers(d \o acks, j, c)
       PROVE  i = j
  <2>1. CASE Carries(u, 1, c)
    <3>1. \A k : ~ Answers(d, k, c)
      BY <2>1 DEF Flying
    <3>2. PICK k : i = Len(d) + k /\ Answers(acks, k, c)
      BY <1>8, <1>11, <3>1
    <3>3. PICK l : j = Len(d) + l /\ Answers(acks, l, c)
      BY <1>8, <1>11, <3>1
    <3> QED
      BY <1>5, <3>2, <3>3
  <2>2. CASE ~ Carries(u, 1, c)
    <3>1. Answers(d, i, c) /\ Answers(d, j, c)
      BY <1>7, <1>8, <1>11, <2>2
    <3> QED
      BY <3>1 DEF Flying
  <2> QED
    BY <2>1, <2>2
<1>12. ASSUME NEW c, NEW i, NEW j, Carries(Tail(u), i, c), Answers(d \o acks, j, c)
       PROVE  FALSE
  <2>1. Carries(u, i + 1, c) /\ i \in Nat \ {0}
    BY <1>9, <1>12
  <2>2. ~ Answers(d, j, c)
    BY <2>1 DEF Flying
  <2>3. Carries(u, 1, c)
    BY <1>7, <1>8, <1>12, <2>2
  <2>4. i + 1 = 1
    BY <2>1, <2>3 DEF Flying
  <2> QED
    BY <2>1, <2>4
<1>13. \A c, i : Answers(d \o acks, i, c) => c \in flying
  BY <1>7, <1>8 DEF Flying
<1> QED
  BY <1>10, <1>11, <1>12, <1>13 DEF Flying

LEMMA FlyingNone ==
  ASSUME NEW n, NEW flying
  PROVE  Flying(<<>>, <<>>, flying) /\ Flying(<<Hello(n)>>, <<>>, flying)
<1>1. Len(<<>>) = 0 /\ Len(<<Hello(n)>>) = 1 /\ <<Hello(n)>>[1].type = "hello"
  BY DEF Hello
<1>2. \A i : i \notin 1 .. 0 /\ (i \in 1 .. 1 => i = 1)
  OBVIOUS
<1> QED
  BY <1>1, <1>2 DEF Flying, Carries, Answers

LEMMA FlightStep ==
  ASSUME TypeOK, ClientInv, FlightInv, [Next]_vars
  PROVE  FlightInv'
<1>1. /\ up \in Seq(UpMessage) /\ down \in Seq(DownMessage) /\ Flying(up, down, inFlight)
      /\ ~open => up = <<>> /\ down = <<>>
      /\ outbox \in Seq(Change) /\ IsInjective(outbox) /\ checkpoint \in 0 .. MaxSeq
  BY DEF TypeOK, ClientInv, FlightInv, OutboxOK
<1>2. ASSUME UNCHANGED <<up, down, inFlight>>
      PROVE  FlightInv'
  BY <1>2 DEF FlightInv
<1>3. CASE Start \/ Stop \/ SocketCloses \/ Reload
  <2>1. up' = <<>> /\ down' = <<>>
    BY <1>3, DisconnectAt DEF Start, Stop, SocketCloses, Reload
  <2> QED
    BY <2>1, FlyingNone DEF FlightInv
<1>4. ASSUME NEW t \in tasks, ConnectOk(t)
      PROVE  FlightInv'
  <2>1. CASE up' = <<Hello(checkpoint)>> /\ down' = <<>>
    BY <2>1, FlyingNone DEF FlightInv
  <2> QED
    BY <1>2, <1>4, <2>1 DEF ConnectOk, wire
<1>5. ASSUME NEW box \in Seq(Change), IsInjective(box), NEW d \in Seq(DownMessage),
             Flying(up, d, inFlight), down' = d, Flush(box, inFlight)
      PROVE  FlightInv'
  <2>1. CASE open
    <3>1. up' = up \o Batches(Unsent(box, inFlight)) /\ inFlight' = inFlight \cup ToSet(box)
      BY <1>5, <2>1 DEF Flush
    <3>2. Flying(up \o Batches(Unsent(box, inFlight)), d, inFlight \cup ToSet(box))
      BY <1>1, <1>5, FlyingSend
    <3> QED
      BY <1>5, <3>1, <3>2 DEF FlightInv
  <2>2. CASE ~open
    BY <1>5, <2>2 DEF Flush, FlightInv
  <2> QED
    BY <2>1, <2>2
<1>6. ASSUME NEW c \in Change, Push(c)
      PROVE  FlightInv'
  <2>1. /\ outbox' = Append(outbox, c) /\ Flush(Append(outbox, c), inFlight) /\ down' = down
    BY <1>6 DEF Push
  <2>2. OutboxOK'
    BY OutboxStep DEF ClientInv
  <2>3. Append(outbox, c) \in Seq(Change) /\ IsInjective(Append(outbox, c))
    BY <2>1, <2>2 DEF OutboxOK
  <2> QED
    BY <1>1, <1>5, <2>1, <2>3
<1>7. CASE Receive
  <2>1. PICK m : m = Head(down)
    OBVIOUS
  <2>2. /\ down # <<>> /\ down' = Tail(down)
        /\ OnWelcome(m) \/ OnSync(m) \/ OnChange(m) \/ OnAck(m)
    BY <1>7, <2>1 DEF Receive
  <2>3. Tail(down) \in Seq(DownMessage) /\ Flying(up, Tail(down), inFlight)
    BY <1>1, <2>2, TailAt, FlyingTails
  <2>4. CASE UNCHANGED <<up, inFlight>>
    BY <2>2, <2>3, <2>4 DEF FlightInv
  <2>5. CASE up' = Append(up, Hello(0)) /\ inFlight' = inFlight
    <3>1. 0 \in 0 .. MaxSeq
      BY BoundsAssumption
    <3>2. Flying(Append(up, Hello(0)), Tail(down), inFlight)
      BY <1>1, <2>3, <3>1, FlyingMore
    <3> QED
      BY <2>2, <2>5, <3>2 DEF FlightInv
  <2>6. CASE Flush(outbox, inFlight)
    BY <1>1, <1>5, <2>2, <2>3, <2>6
  <2>7. CASE OnAck(m)
    <3>1. m.type = "ack" /\ up' = up /\ inFlight' = inFlight \ {m.change}
      BY <2>7 DEF OnAck
    <3>2. Flying(up, Tail(down), inFlight \ {m.change})
      BY <1>1, <2>1, <2>2, <3>1, FlyingTails
    <3> QED
      BY <2>2, <3>1, <3>2 DEF FlightInv
  <2>8. OnWelcome(m) => inFlight' = inFlight /\ (up' = up \/ up' = Append(up, Hello(0)))
    BY DEF OnWelcome
  <2>9. OnSync(m) => UNCHANGED <<up, inFlight>> \/ Flush(outbox, inFlight)
    BY DEF OnSync
  <2>10. OnChange(m) => UNCHANGED <<up, inFlight>>
    BY DEF OnChange
  <2> QED
    BY <2>2, <2>4, <2>5, <2>6, <2>7, <2>8, <2>9, <2>10
<1>8. CASE ServeHello
  <2>1. /\ up # <<>> /\ Head(up).type = "hello" /\ up' = Tail(up) /\ inFlight' = inFlight
        /\ down' = down \o <<Welcome(HighestSeq(rows))>> \o Pages(Head(up).checkpoint)
    BY <1>8 DEF ServeHello, engine
  <2>2. Head(up) \in UpMessage /\ Tail(up) \in Seq(UpMessage) /\ Flying(Tail(up), down, inFlight)
    BY <1>1, <2>1, TailAt, FlyingTails
  <2>3. PICK w : w = <<Welcome(HighestSeq(rows))>>
    OBVIOUS
  <2>4. PICK p : p = Pages(Head(up).checkpoint)
    OBVIOUS
  <2>5. p \in Seq(DownMessage) /\ \A i \in 1 .. Len(p) : p[i].type # "ack"
    <3>1. Head(up).checkpoint \in Nat
      BY <2>1, <2>2, UpMessages
    <3>2. /\ Pages(Head(up).checkpoint) \in Seq(DownMessage)
          /\ \A i \in 1 .. Len(Pages(Head(up).checkpoint)) :
               Pages(Head(up).checkpoint)[i].type = "sync"
      BY <3>1, PagesAt
    <3> QED
      BY <2>4, <3>2
  <2>6. w \in Seq(DownMessage) /\ \A i \in 1 .. Len(w) : w[i].type # "ack"
    <3>1. \A r \in Record : rows[r].seq \in 0 .. MaxSeq
      BY DEF TypeOK, Row
    <3>2. HighestSeq(rows) \in 0 .. MaxSeq
      BY <3>1, BoundsAssumption, HighestSeqOf
    <3>3. Welcome(HighestSeq(rows)) \in DownMessage /\ Welcome(HighestSeq(rows)).type = "welcome"
      BY <3>2, MessageTypes DEF Welcome
    <3> QED
      BY <2>3, <3>3
  <2>7. down \o w \in Seq(DownMessage) /\ Flying(Tail(up), down \o w, inFlight)
    BY <1>1, <2>2, <2>6, ConcatAt, FlyingMore
  <2>8. Flying(Tail(up), (down \o w) \o p, inFlight)
    BY <2>2, <2>5, <2>7, FlyingMore
  <2> QED
    BY <2>1, <2>3, <2>4, <2>8 DEF FlightInv
<1>9. CASE ServePush
  <2>1. /\ up # <<>> /\ Head(up).type = "push" /\ up' = Tail(up) /\ inFlight' = inFlight
    BY <1>9 DEF ServePush, engine
  <2>2. PICK s \in Results(Head(up).changes) : down' = down \o s.acks
    BY <1>9 DEF ServePush
  <2>3. Head(up).changes \in Seq(Change)
    BY <1>1, <2>1, TailAt, UpMessages
  <2>4. /\ s.acks \in Seq(DownMessage) /\ Len(s.acks) = Len(Head(up).changes)
        /\ \A i \in 1 .. Len(s.acks) : s.acks[i].change = Head(up).changes[i]
    BY <2>3, PushResult
  <2>5. Flying(Tail(up), down \o s.acks, inFlight)
    BY <1>1, <2>1, <2>4, FlyingAnswer
  <2> QED
    BY <2>1, <2>2, <2>5 DEF FlightInv
<1>10. ASSUME NEW t \in Seq(DownMessage), \A i \in 1 .. Len(t) : t[i].type # "ack",
              down' = down \o t, up' = up, inFlight' = inFlight
       PROVE  FlightInv'
  <2>1. Flying(up, down \o t, inFlight)
    BY <1>1, <1>10, FlyingMore
  <2> QED
    BY <1>10, <2>1 DEF FlightInv
<1>11. CASE ServeStray
  <2>1. PICK q \in stray :
          /\ \E s \in Results(Head(q).changes) : down' = IF open THEN down \o s.news ELSE down
          /\ up' = up /\ inFlight' = inFlight
    BY <1>11 DEF ServeStray, engine
  <2>2. q \in Seq(PushMessage) /\ q # <<>>
    BY DEF TypeOK, ClientInv
  <2>3. PICK s \in Results(Head(q).changes) : down' = IF open THEN down \o s.news ELSE down
    BY <2>1
  <2>4. Head(q).changes \in Seq(Change)
    BY <2>2, StrayAt
  <2>5. s.news \in Seq(DownMessage) /\ \A i \in 1 .. Len(s.news) : s.news[i].type # "ack"
    <3>1. \A i \in 1 .. Len(s.news) : s.news[i].type = "change"
      BY <2>4, PushResult
    <3>2. s.news \in Seq(DownMessage)
      BY <2>4, PushResult
    <3> QED
      BY <3>1, <3>2
  <2> QED
    BY <1>2, <1>10, <2>1, <2>3, <2>5
<1>12. ASSUME NEW r \in Record, ServerWrite(r)
       PROVE  FlightInv'
  <2>1. PICK new \in Row :
          /\ ChangeOf(r, new) \in DownMessage
          /\ down' = IF open THEN Append(down, ChangeOf(r, new)) ELSE down
          /\ UNCHANGED <<up, engine>>
    BY <1>12, ServerWriteAt
  <2>2. PICK t : t = <<ChangeOf(r, new)>>
    OBVIOUS
  <2>3. t \in Seq(DownMessage) /\ \A i \in 1 .. Len(t) : t[i].type # "ack"
    <3>1. ChangeOf(r, new).type = "change"
      BY DEF ChangeOf
    <3> QED
      BY <2>1, <2>2, <3>1
  <2>4. Append(down, ChangeOf(r, new)) = down \o t
    BY <1>1, <2>1, <2>2, AppendIsConcat
  <2> QED
    BY <1>2, <1>10, <2>1, <2>3, <2>4 DEF engine
<1>13. ASSUME \/ \E t \in tasks : \/ Loaded(t) \/ ConnectFails(t) \/ RefreshOk(t) \/ RefreshFails(t)
              \/ LoseStray \/ ServerReset \/ UNCHANGED vars
       PROVE  UNCHANGED <<up, down, inFlight>>
  BY <1>13 DEF Loaded, ConnectFails, RefreshOk, RefreshFails, LoseStray, ServerReset, vars, wire, engine
<1> QED
  BY <1>2, <1>3, <1>4, <1>6, <1>7, <1>8, <1>9, <1>11, <1>12, <1>13 DEF Next

(* On one socket an edit is on its way at most once: a flush sends no edit *)
(* whose push or ack is still on the way (engine.ts: flush, inFlight; its  *)
(* batches are disjoint).                                                  *)
THEOREM SentOnce == Spec => []NotSentTwice
<1>1. Init => TypeOK /\ ClientInv /\ FlightInv
  BY InitTypes, FlyingNone DEF Init, FlightInv
<1>2. TypeOK /\ ClientInv /\ FlightInv /\ [Next]_vars => TypeOK' /\ ClientInv' /\ FlightInv'
  BY TypesStep, FlightStep
<1>3. TypeOK /\ FlightInv => NotSentTwice
  BY FlyingOnce
<1> QED
  BY <1>1, <1>2, <1>3, PTL DEF Spec

-----------------------------------------------------------------------------
(* One round at a time: at most one hello or its welcome is on the wire;   *)
(* unless the answer to a reset is awaited, pages come after the welcome   *)
(* of their round.                                                         *)
At(q, i, type) == i \in 1 .. Len(q) /\ q[i].type = type
OneRound(u, d, n) ==
  /\ \A i, j : At(u, i, "hello") /\ At(u, j, "hello") => i = j
  /\ \A i : At(u, i, "hello") => u[i].checkpoint = n
  /\ \A i, j : At(d, i, "welcome") /\ At(d, j, "welcome") => i = j
  /\ \A i, j : ~ (At(u, i, "hello") /\ At(d, j, "welcome"))
InOrder(u, d) ==
  /\ \A i, j : ~ (At(u, i, "hello") /\ At(d, j, "sync"))
  /\ \A i, j : At(d, i, "welcome") /\ At(d, j, "sync") => i < j
RoundInv ==
  /\ checkpoint \in {0, savedCheckpoint}
  /\ OneRound(up, down, checkpoint)
  /\ ~awaitingResetWelcome => InOrder(up, down)

LEMMA AtTail ==
  ASSUME NEW S, NEW s \in Seq(S), s # <<>>, NEW i, NEW type
  PROVE  At(Tail(s), i, type) <=> i \in Nat \ {0} /\ At(s, i + 1, type)
<1>1. /\ Len(Tail(s)) = Len(s) - 1 /\ Len(s) \in Nat \ {0}
      /\ \A k \in 1 .. Len(Tail(s)) : Tail(s)[k] = s[k + 1]
  BY TailAt
<1>2. i \in 1 .. Len(Tail(s)) <=> i \in Nat \ {0} /\ i + 1 \in 1 .. Len(s)
  BY <1>1
<1> QED
  BY <1>1, <1>2 DEF At

LEMMA AtConcat ==
  ASSUME NEW S, NEW s \in Seq(S), NEW t \in Seq(S), NEW i, NEW type
  PROVE  At(s \o t, i, type) <=> \/ At(s, i, type)
                                 \/ \E k : i = Len(s) + k /\ At(t, k, type)
<1>1. /\ Len(s \o t) = Len(s) + Len(t) /\ Len(s) \in Nat /\ Len(t) \in Nat
      /\ \A k \in 1 .. Len(s) : (s \o t)[k] = s[k]
      /\ \A k \in 1 .. Len(t) : (s \o t)[Len(s) + k] = t[k]
  BY ConcatAt
<1>2. i \in 1 .. Len(s) => i \in 1 .. Len(s \o t)
  BY <1>1
<1>3. At(s, i, type) => At(s \o t, i, type)
  BY <1>1, <1>2 DEF At
<1>4. ASSUME NEW k, i = Len(s) + k, At(t, k, type)
      PROVE  At(s \o t, i, type)
  <2>1. k \in 1 .. Len(t) /\ i \in 1 .. Len(s \o t)
    BY <1>1, <1>4 DEF At
  <2> QED
    BY <1>1, <1>4, <2>1 DEF At
<1>5. ASSUME At(s \o t, i, type), i \notin 1 .. Len(s)
      PROVE  \E k : i = Len(s) + k /\ At(t, k, type)
  <2>1. i \in 1 .. Len(s) + Len(t)
    BY <1>1, <1>5 DEF At
  <2>2. i - Len(s) \in 1 .. Len(t) /\ i = Len(s) + (i - Len(s))
    BY <1>1, <1>5, <2>1
  <2>3. (s \o t)[i] = t[i - Len(s)]
    BY <1>1, <2>2
  <2> QED
    BY <1>5, <2>2, <2>3 DEF At
<1>6. ASSUME At(s \o t, i, type), i \in 1 .. Len(s)
      PROVE  At(s, i, type)
  BY <1>1, <1>6 DEF At
<1> QED
  BY <1>3, <1>4, <1>5, <1>6

LEMMA RoundLess ==
  ASSUME NEW u \in Seq(UpMessage), NEW d \in Seq(DownMessage), NEW n, OneRound(u, d, n)
  PROVE  /\ u # <<>> => OneRound(Tail(u), d, n) /\ (InOrder(u, d) => InOrder(Tail(u), d))
         /\ d # <<>> => OneRound(u, Tail(d), n) /\ (InOrder(u, d) => InOrder(u, Tail(d)))
<1>1. ASSUME u # <<>>
      PROVE  OneRound(Tail(u), d, n) /\ (InOrder(u, d) => InOrder(Tail(u), d))
  <2>1. \A i : At(Tail(u), i, "hello") => i \in Nat \ {0} /\ At(u, i + 1, "hello")
    BY <1>1, AtTail
  <2>2. ASSUME NEW i, NEW j, At(Tail(u), i, "hello"), At(Tail(u), j, "hello")
        PROVE  i = j
    <3>1. i + 1 = j + 1 /\ i \in Nat /\ j \in Nat
      BY <2>1, <2>2 DEF OneRound
    <3> QED
      BY <3>1
  <2>3. ASSUME NEW i, At(Tail(u), i, "hello")
        PROVE  Tail(u)[i].checkpoint = n
    <3>1. Tail(u)[i] = u[i + 1]
      BY <1>1, <2>3, TailAt DEF At
    <3> QED
      BY <2>1, <2>3, <3>1 DEF OneRound
  <2> QED
    BY <2>1, <2>2, <2>3 DEF OneRound, InOrder
<1>2. ASSUME d # <<>>
      PROVE  OneRound(u, Tail(d), n) /\ (InOrder(u, d) => InOrder(u, Tail(d)))
  <2>1. \A i, type : At(Tail(d), i, type) => i \in Nat \ {0} /\ At(d, i + 1, type)
    BY <1>2, AtTail
  <2>2. ASSUME NEW i, NEW j, At(Tail(d), i, "welcome"), At(Tail(d), j, "welcome")
        PROVE  i = j
    <3>1. i + 1 = j + 1 /\ i \in Nat /\ j \in Nat
      BY <2>1, <2>2 DEF OneRound
    <3> QED
      BY <3>1
  <2>3. ASSUME InOrder(u, d), NEW i, NEW j, At(Tail(d), i, "welcome"), At(Tail(d), j, "sync")
        PROVE  i < j
    <3>1. i + 1 < j + 1 /\ i \in Nat /\ j \in Nat
      BY <2>1, <2>3 DEF InOrder
    <3> QED
      BY <3>1
  <2>4. OneRound(u, Tail(d), n)
    BY <2>1, <2>2 DEF OneRound
  <2>5. InOrder(u, d) => InOrder(u, Tail(d))
    BY <2>1, <2>3 DEF InOrder
  <2> QED
    BY <2>4, <2>5
<1> QED
  BY <1>1, <1>2

LEMMA RoundMore ==
  ASSUME NEW u \in Seq(UpMessage), NEW d \in Seq(DownMessage), NEW n, OneRound(u, d, n)
  PROVE  /\ \A t \in Seq(PushMessage) :
              OneRound(u \o t, d, n) /\ (InOrder(u, d) => InOrder(u \o t, d))
         /\ \A t \in Seq(DownMessage) :
              (\A i : ~ At(t, i, "welcome") /\ ~ At(t, i, "sync")) =>
                 OneRound(u, d \o t, n) /\ (InOrder(u, d) => InOrder(u, d \o t))
<1>1. ASSUME NEW t \in Seq(PushMessage)
      PROVE  OneRound(u \o t, d, n) /\ (InOrder(u, d) => InOrder(u \o t, d))
  <2>1. t \in Seq(UpMessage)
    BY MessageTypes, SeqMonotonic
  <2>2. \A i : ~ At(t, i, "hello")
    <3>1. \A i \in 1 .. Len(t) : t[i] \in PushMessage
      BY LenProperties
    <3> QED
      BY <3>1 DEF At, PushMessage
  <2>3. \A i : At(u \o t, i, "hello") <=> At(u, i, "hello")
    BY <2>1, <2>2, AtConcat
  <2>4. \A i : At(u, i, "hello") => (u \o t)[i] = u[i]
    BY <2>1, ConcatAt DEF At
  <2> QED
    BY <2>3, <2>4 DEF OneRound, InOrder
<1>2. ASSUME NEW t \in Seq(DownMessage), \A i : ~ At(t, i, "welcome") /\ ~ At(t, i, "sync")
      PROVE  OneRound(u, d \o t, n) /\ (InOrder(u, d) => InOrder(u, d \o t))
  <2>1. \A i : /\ At(d \o t, i, "welcome") <=> At(d, i, "welcome")
               /\ At(d \o t, i, "sync") <=> At(d, i, "sync")
    BY <1>2, AtConcat
  <2> QED
    BY <2>1 DEF OneRound, InOrder
<1> QED
  BY <1>1, <1>2

(* The object takes a push, or someone else writes: no record goes back,   *)
(* an open socket is told of all that changed.                             *)
Told(t) ==
  /\ rows' \in [Record -> Row] /\ Bounded(rows')
  /\ \A r \in Record : NoNewer(rows[r], rows'[r])
  /\ \A r \in Record : rows'[r] = rows[r] \/ rows'[r].seq > HighestSeq(rows)
  /\ \A i \in 1 .. Len(t) : t[i].type \in {"change", "ack"}
  /\ \A i \in 1 .. Len(t) : \A r \in Record, row \in Row :
       Brings(t[i], r, row) => NoNewer(row, rows'[r]) /\ (forgotten => Live(row))
  /\ \A r \in Record : \/ rows'[r] = rows[r]
                       \/ \E i \in 1 .. Len(t) : Brings(t[i], r, rows'[r])
  /\ UNCHANGED <<open, engine, local, tasks, history>>

LEMMA TableMoves ==
  ASSUME TypeOK, ClientInv, ServePush \/ ServeStray \/ \E r \in Record : ServerWrite(r)
  PROVE  \E t \in Seq(DownMessage) :
           /\ Told(t)
           /\ open => down' = down \o t
           /\ ~open => down' = down
           /\ up' = up \/ (up # <<>> /\ up' = Tail(up) /\ Head(up).type = "push")
<1>1. ASSUME ServePush
      PROVE  \E t \in Seq(DownMessage) :
               /\ Told(t)
               /\ open /\ down' = down \o t
               /\ up # <<>> /\ up' = Tail(up) /\ Head(up).type = "push"
  <2>1. /\ open /\ up # <<>> /\ Head(up).type = "push" /\ up' = Tail(up)
        /\ UNCHANGED <<open, engine, local, tasks, history>>
    BY <1>1 DEF ServePush
  <2>2. PICK cs : cs = Head(up).changes
    OBVIOUS
  <2>3. cs \in Seq(Change)
    BY <2>1, <2>2, TailAt, UpMessages DEF TypeOK
  <2>4. PICK s \in Results(cs) : rows' = s.rows /\ down' = down \o s.acks
    BY <1>1, <2>2 DEF ServePush
  <2>5. /\ Bounded(s.rows) /\ s.rows \in [Record -> Row]
        /\ \A r \in Record : NoNewer(rows[r], s.rows[r])
        /\ \A r \in Record : s.rows[r] = rows[r] \/ s.rows[r].seq > HighestSeq(rows)
        /\ s.acks \in Seq(DownMessage)
    BY <2>3, PushResult
  <2>6. \A i \in 1 .. Len(s.acks) :
          /\ s.acks[i].type = "ack" /\ s.acks[i].change = cs[i]
          /\ s.acks[i].ok => NoNewer(s.acks[i].row, s.rows[EditOf[cs[i]].rec])
          /\ forgotten /\ s.acks[i].ok => Live(s.acks[i].row)
    BY <2>3, PushResult
  <2>7. \A r \in Record :
          \/ s.rows[r] = rows[r]
          \/ \E i \in 1 .. Len(s.acks) : /\ s.acks[i].ok /\ EditOf[cs[i]].rec = r
                                         /\ s.acks[i].row = s.rows[r]
    BY <2>3, PushResult
  <2>8. ASSUME NEW i \in 1 .. Len(s.acks), NEW r \in Record, NEW row \in Row,
               Brings(s.acks[i], r, row)
        PROVE  NoNewer(row, s.rows[r]) /\ (forgotten => Live(row))
    <3>1. s.acks[i].ok /\ EditOf[cs[i]].rec = r /\ s.acks[i].row = row
      BY <2>6, <2>8 DEF Brings
    <3> QED
      BY <2>6, <3>1
  <2>9. \A r \in Record : \/ s.rows[r] = rows[r]
                          \/ \E i \in 1 .. Len(s.acks) : Brings(s.acks[i], r, s.rows[r])
    BY <2>6, <2>7 DEF Brings
  <2>10. \A i \in 1 .. Len(s.acks) : s.acks[i].type \in {"change", "ack"}
    BY <2>6
  <2> QED
    BY <2>1, <2>4, <2>5, <2>8, <2>9, <2>10 DEF Told
<1>2. ASSUME ServeStray
      PROVE  \E t \in Seq(DownMessage) :
               /\ Told(t)
               /\ down' = IF open THEN down \o t ELSE down
               /\ up' = up
  <2>1. PICK q \in stray :
          /\ \E s \in Results(Head(q).changes) :
               rows' = s.rows /\ down' = IF open THEN down \o s.news ELSE down
          /\ UNCHANGED <<up, open, engine, local, tasks, history>>
    BY <1>2 DEF ServeStray
  <2>2. PICK cs : cs = Head(q).changes
    OBVIOUS
  <2>3. cs \in Seq(Change)
    <3>1. q \in Seq(PushMessage) /\ q # <<>>
      BY DEF TypeOK, ClientInv
    <3> QED
      BY <2>2, <3>1, StrayAt
  <2>4. PICK s \in Results(cs) : rows' = s.rows /\ down' = IF open THEN down \o s.news ELSE down
    BY <2>1, <2>2
  <2>5. /\ Bounded(s.rows) /\ s.rows \in [Record -> Row]
        /\ \A r \in Record : NoNewer(rows[r], s.rows[r])
        /\ \A r \in Record : s.rows[r] = rows[r] \/ s.rows[r].seq > HighestSeq(rows)
        /\ s.news \in Seq(DownMessage)
    BY <2>3, PushResult
  <2>6. \A i \in 1 .. Len(s.news) :
          /\ s.news[i].type = "change"
          /\ NoNewer(s.news[i].row, s.rows[s.news[i].rec])
          /\ forgotten => Live(s.news[i].row)
    BY <2>3, PushResult
  <2>7. \A r \in Record :
          \/ s.rows[r] = rows[r]
          \/ \E i \in 1 .. Len(s.news) : s.news[i].rec = r /\ s.news[i].row = s.rows[r]
    BY <2>3, PushResult
  <2>8. ASSUME NEW i \in 1 .. Len(s.news), NEW r \in Record, NEW row \in Row,
               Brings(s.news[i], r, row)
        PROVE  NoNewer(row, s.rows[r]) /\ (forgotten => Live(row))
    <3>1. s.news[i].rec = r /\ s.news[i].row = row
      BY <2>6, <2>8 DEF Brings
    <3> QED
      BY <2>6, <3>1
  <2>9. \A r \in Record : \/ s.rows[r] = rows[r]
                          \/ \E i \in 1 .. Len(s.news) : Brings(s.news[i], r, s.rows[r])
    BY <2>6, <2>7 DEF Brings
  <2>10. \A i \in 1 .. Len(s.news) : s.news[i].type \in {"change", "ack"}
    BY <2>6
  <2> QED
    BY <2>1, <2>4, <2>5, <2>8, <2>9, <2>10 DEF Told
<1>3. ASSUME NEW q \in Record, ServerWrite(q)
      PROVE  \E t \in Seq(DownMessage) :
               /\ Told(t)
               /\ down' = IF open THEN down \o t ELSE down
               /\ up' = up
  <2>1. PICK new \in Row :
           /\ rows' \in [Record -> Row] /\ Bounded(rows')
           /\ \A r \in Record : NoNewer(rows[r], rows'[r])
           /\ rows'[q] = new /\ \A r \in Record : r # q => rows'[r] = rows[r]
           /\ new.seq = HighestSeq(rows) + 1 /\ HighestSeq(rows) \in 0 .. MaxSeq
           /\ forgotten => Live(new)
           /\ ChangeOf(q, new) \in DownMessage
           /\ down' = IF open THEN Append(down, ChangeOf(q, new)) ELSE down
           /\ UNCHANGED <<up, open, engine, local, tasks, history>>
    BY <1>3, ServerWriteAt
  <2>2. PICK t : t = <<ChangeOf(q, new)>>
    OBVIOUS
  <2>3. t \in Seq(DownMessage) /\ Len(t) = 1 /\ t[1] = ChangeOf(q, new)
    BY <2>1, <2>2
  <2>4. Append(down, ChangeOf(q, new)) = down \o t
    BY <2>1, <2>2, AppendIsConcat DEF TypeOK
  <2>5. \A i \in 1 .. Len(t) : t[i] = ChangeOf(q, new)
    BY <2>3
  <2>6. /\ ChangeOf(q, new).type = "change"
        /\ \A r, row : Brings(ChangeOf(q, new), r, row) <=> r = q /\ row = new
    BY DEF ChangeOf, Brings
  <2>7. \A r \in Record : NoNewer(rows'[r], rows'[r])
    BY <2>1 DEF NoNewer
  <2>8. \A i \in 1 .. Len(t) : \A r \in Record, row \in Row :
          Brings(t[i], r, row) => NoNewer(row, rows'[r]) /\ (forgotten => Live(row))
    BY <2>1, <2>5, <2>6, <2>7
  <2>9. \A r \in Record : \/ rows'[r] = rows[r]
                          \/ \E i \in 1 .. Len(t) : Brings(t[i], r, rows'[r])
    BY <2>1, <2>3, <2>6
  <2>10. \A r \in Record : rows'[r] = rows[r] \/ rows'[r].seq > HighestSeq(rows)
    BY <2>1
  <2>11. \A i \in 1 .. Len(t) : t[i].type \in {"change", "ack"}
    BY <2>5, <2>6
  <2> QED
    BY <2>1, <2>3, <2>4, <2>8, <2>9, <2>10, <2>11 DEF Told
<1>4. CASE ServePush
  BY <1>1, <1>4
<1>5. CASE ServeStray
  BY <1>2, <1>5
<1>6. CASE \E r \in Record : ServerWrite(r)
  BY <1>3, <1>6
<1> QED
  BY <1>4, <1>5, <1>6

(* A hello is answered by a welcome and the pages of what came after its   *)
(* checkpoint, the last one complete.                                      *)
Bootstrap(p, n) ==
  /\ Len(p) \in Nat \ {0}
  /\ \A i \in 1 .. Len(p) :
       /\ p[i].type = "sync" /\ p[i].serverSeq = HighestSeq(rows)
       /\ p[i].complete = (i = Len(p))
       /\ DOMAIN p[i].records \subseteq Record
       /\ \A r \in DOMAIN p[i].records : p[i].records[r] = rows[r]
  /\ \A r \in Record : rows[r].seq > n => \E i \in 1 .. Len(p) : r \in DOMAIN p[i].records

Follows(d, x, p, f) ==
  /\ Len(f) = Len(d) + 1 + Len(p) /\ Len(d) \in Nat /\ Len(p) \in Nat
  /\ \A i \in 1 .. Len(d) : f[i] = d[i]
  /\ f[Len(d) + 1] = x
  /\ \A k \in 1 .. Len(p) : f[Len(d) + 1 + k] = p[k]

LEMMA Joined ==
  ASSUME NEW S, NEW d \in Seq(S), NEW x \in S, NEW p \in Seq(S)
  PROVE  \E f \in Seq(S) : f = (d \o <<x>>) \o p /\ Follows(d, x, p, f)
<1>1. PICK e : e = Append(d, x)
  OBVIOUS
<1>2. e \in Seq(S)
  BY <1>1, AppendAt
<1>3. /\ Len(e) = Len(d) + 1 /\ Len(d) \in Nat
      /\ \A i \in 1 .. Len(d) : e[i] = d[i]
      /\ e[Len(d) + 1] = x
  BY <1>1, AppendAt
<1>4. e = d \o <<x>>
  BY <1>1, AppendIsConcat
<1>5. /\ Len(e \o p) = Len(e) + Len(p) /\ Len(e) \in Nat /\ Len(p) \in Nat
      /\ \A i \in 1 .. Len(e) : (e \o p)[i] = e[i]
      /\ \A i \in 1 .. Len(p) : (e \o p)[Len(e) + i] = p[i]
  BY <1>2, ConcatAt
<1>6. e \o p \in Seq(S)
  BY <1>2, ConcatAt
<1>7. PICK f : f = e \o p
  OBVIOUS
<1>8. Len(d) + 1 \in 1 .. Len(e) /\ \A i \in 1 .. Len(d) : i \in 1 .. Len(e)
  BY <1>3
<1>9. Follows(d, x, p, f)
  BY <1>3, <1>5, <1>7, <1>8 DEF Follows
<1> QED
  BY <1>4, <1>6, <1>7, <1>9

LEMMA HelloServed ==
  ASSUME TypeOK, ServeHello
  PROVE  \E p, f \in Seq(DownMessage) :
           /\ up # <<>> /\ Head(up).type = "hello" /\ up' = Tail(up) /\ open
           /\ Bootstrap(p, Head(up).checkpoint)
           /\ down' = f /\ Follows(down, Welcome(HighestSeq(rows)), p, f)
           /\ UNCHANGED <<rows, open, engine, local, tasks, history>>
<1>1. /\ up # <<>> /\ Head(up).type = "hello" /\ up' = Tail(up) /\ open
      /\ down' = (down \o <<Welcome(HighestSeq(rows))>>) \o Pages(Head(up).checkpoint)
      /\ UNCHANGED <<rows, open, engine, local, tasks, history>>
  BY DEF ServeHello, server
<1>2. PICK n : n = Head(up).checkpoint
  OBVIOUS
<1>3. n \in Nat
  BY <1>1, <1>2, TailAt, UpMessages DEF TypeOK
<1>4. PICK x : x = Welcome(HighestSeq(rows))
  OBVIOUS
<1>5. x \in DownMessage
  <2>1. \A r \in Record : rows[r].seq \in 0 .. MaxSeq
    BY DEF TypeOK, Row
  <2>2. HighestSeq(rows) \in 0 .. MaxSeq
    BY <2>1, BoundsAssumption, HighestSeqOf
  <2> QED
    BY <1>4, <2>2, MessageTypes
<1>6. PICK p : p = Pages(n)
  OBVIOUS
<1>7. p \in Seq(DownMessage) /\ Bootstrap(p, n)
  BY <1>3, <1>6, PagesAt DEF Bootstrap
<1>8. down \in Seq(DownMessage)
  BY DEF TypeOK
<1>9. PICK f \in Seq(DownMessage) : f = (down \o <<x>>) \o p /\ Follows(down, x, p, f)
  BY <1>5, <1>7, <1>8, Joined
<1> QED
  BY <1>1, <1>2, <1>4, <1>6, <1>7, <1>9

LEMMA Greeted ==
  ASSUME NEW d, NEW f, NEW p, NEW x, Follows(d, x, p, f), x.type = "welcome",
         \A i \in 1 .. Len(p) : p[i].type = "sync"
  PROVE  /\ \A i : At(f, i, "welcome") <=> At(d, i, "welcome") \/ i = Len(d) + 1
         /\ \A i : At(f, i, "sync") <=>
              At(d, i, "sync") \/ \E k \in 1 .. Len(p) : i = Len(d) + 1 + k
<1>0. Len(f) = Len(d) + 1 + Len(p) /\ Len(d) \in Nat /\ Len(p) \in Nat
  BY DEF Follows
<1>1. /\ \A i \in 1 .. Len(d) : f[i] = d[i]
      /\ f[Len(d) + 1].type = "welcome"
      /\ \A k \in 1 .. Len(p) : f[Len(d) + 1 + k].type = "sync"
  BY DEF Follows
<1>2. /\ \A i \in 1 .. Len(d) : i \in 1 .. Len(f) /\ i # Len(d) + 1
      /\ \A i \in 1 .. Len(d), k \in 1 .. Len(p) : i # Len(d) + 1 + k
      /\ Len(d) + 1 \in 1 .. Len(f)
      /\ \A k \in 1 .. Len(p) : Len(d) + 1 + k \in 1 .. Len(f) /\ Len(d) + 1 + k # Len(d) + 1
  BY <1>0
<1>3. ASSUME NEW i \in 1 .. Len(f), i \notin 1 .. Len(d), i # Len(d) + 1
      PROVE  \E k \in 1 .. Len(p) : i = Len(d) + 1 + k
  <2>1. i - (Len(d) + 1) \in 1 .. Len(p) /\ i = Len(d) + 1 + (i - (Len(d) + 1))
    BY <1>0, <1>3
  <2> QED
    BY <2>1
<1>4. ASSUME NEW i
      PROVE  /\ At(f, i, "welcome") <=> At(d, i, "welcome") \/ i = Len(d) + 1
             /\ At(f, i, "sync") <=> At(d, i, "sync") \/ \E k \in 1 .. Len(p) : i = Len(d) + 1 + k
  <2>1. CASE i \in 1 .. Len(d)
    BY <1>1, <1>2, <2>1 DEF At
  <2>2. CASE i = Len(d) + 1
    BY <1>1, <1>2, <2>2 DEF At
  <2>3. CASE i \notin 1 .. Len(d) /\ i # Len(d) + 1
    BY <1>1, <1>2, <1>3, <2>3 DEF At
  <2> QED
    BY <2>1, <2>2, <2>3
<1> QED
  BY <1>4

LEMMA RoundStep ==
  ASSUME TypeOK, ClientInv, RoundInv, [Next]_vars
  PROVE  RoundInv'
<1>1. /\ up \in Seq(UpMessage) /\ down \in Seq(DownMessage)
      /\ ~open => up = <<>> /\ down = <<>>
      /\ checkpoint \in {0, savedCheckpoint}
      /\ OneRound(up, down, checkpoint)
      /\ ~awaitingResetWelcome => InOrder(up, down)
  BY DEF TypeOK, ClientInv, RoundInv
<1>2. ASSUME UNCHANGED <<up, down, checkpoint, savedCheckpoint, awaitingResetWelcome>>
      PROVE  RoundInv'
  BY <1>2 DEF RoundInv
<1>3. \A n : OneRound(<<>>, <<>>, n) /\ InOrder(<<>>, <<>>)
  <2>1. \A i : i \notin 1 .. 0
    OBVIOUS
  <2> QED
    BY <2>1 DEF OneRound, InOrder, At
<1>4. CASE Start \/ Stop \/ SocketCloses \/ Reload
  <2>1. up' = <<>> /\ down' = <<>>
    BY <1>4, DisconnectAt DEF Start, Stop, SocketCloses, Reload
  <2>2. checkpoint' \in {0, savedCheckpoint'}
    BY <1>1, <1>4 DEF Start, Stop, SocketCloses, Reload, local
  <2> QED
    BY <1>3, <2>1, <2>2 DEF RoundInv
<1>5. ASSUME NEW t \in tasks, Loaded(t)
      PROVE  RoundInv'
  <2>1. ~open
    BY <1>5 DEF ClientInv, TasksOK, Loaded
  <2>2. /\ up' = <<>> /\ down' = <<>> /\ savedCheckpoint' = savedCheckpoint
        /\ checkpoint' = TrustedCheckpoint
    BY <1>1, <1>5, <2>1 DEF Loaded, wire
  <2>3. checkpoint' \in {0, savedCheckpoint'}
    BY <2>2 DEF TrustedCheckpoint
  <2> QED
    BY <1>3, <2>2, <2>3 DEF RoundInv
<1>6. ASSUME NEW t \in tasks, ConnectOk(t)
      PROVE  RoundInv'
  <2>1. checkpoint' = checkpoint /\ savedCheckpoint' = savedCheckpoint
    BY <1>6 DEF ConnectOk, local
  <2>2. CASE up' = <<Hello(checkpoint)>> /\ down' = <<>>
    <3>1. PICK u : u = <<Hello(checkpoint)>>
      OBVIOUS
    <3>2. Len(u) = 1 /\ u[1].checkpoint = checkpoint /\ Len(<<>>) = 0
      BY <3>1 DEF Hello
    <3>3. \A i : i \notin 1 .. 0 /\ (i \in 1 .. 1 => i = 1)
      OBVIOUS
    <3>4. OneRound(u, <<>>, checkpoint) /\ InOrder(u, <<>>)
      BY <3>2, <3>3 DEF OneRound, InOrder, At
    <3> QED
      BY <1>1, <2>1, <2>2, <3>1, <3>4 DEF RoundInv
  <2> QED
    BY <1>2, <1>6, <2>1, <2>2 DEF ConnectOk, wire
<1>7. ASSUME NEW d \in Seq(DownMessage), NEW box \in Seq(Change), Flush(box, inFlight), down' = d,
             OneRound(up, d, checkpoint'), ~awaitingResetWelcome => InOrder(up, d),
             awaitingResetWelcome' = awaitingResetWelcome, checkpoint' \in {0, savedCheckpoint'}
      PROVE  RoundInv'
  <2>1. CASE open
    <3>1. PICK t : t = Batches(Unsent(box, inFlight))
      OBVIOUS
    <3>2. t \in Seq(PushMessage) /\ up' = up \o t
      BY <1>7, <2>1, <3>1, FlushAt
    <3>3. OneRound(up \o t, d, checkpoint') /\ (InOrder(up, d) => InOrder(up \o t, d))
      BY <1>1, <1>7, <3>2, RoundMore
    <3> QED
      BY <1>7, <3>2, <3>3 DEF RoundInv
  <2>2. CASE ~open
    <3>1. up' = up
      BY <1>7, <2>2, FlushAt
    <3> QED
      BY <1>7, <3>1 DEF RoundInv
  <2> QED
    BY <2>1, <2>2
<1>8. ASSUME NEW c \in Change, Push(c)
      PROVE  RoundInv'
  <2>1. /\ Flush(Append(outbox, c), inFlight)
        /\ UNCHANGED <<down, checkpoint, savedCheckpoint, awaitingResetWelcome>>
    BY <1>8 DEF Push
  <2>2. Append(outbox, c) \in Seq(Change)
    BY AppendAt DEF TypeOK
  <2> QED
    BY <1>1, <1>7, <2>1, <2>2
<1>9. CASE Receive
  <2>1. PICK m, d : m = Head(down) /\ d = Tail(down)
    OBVIOUS
  <2>2. /\ open /\ down # <<>> /\ down' = d
        /\ OnWelcome(m) \/ OnSync(m) \/ OnChange(m) \/ OnAck(m)
    BY <1>9, <2>1 DEF Receive
  <2>3. /\ d \in Seq(DownMessage)
        /\ OneRound(up, d, checkpoint)
        /\ InOrder(up, down) => InOrder(up, d)
    BY <1>1, <2>1, <2>2, TailAt, RoundLess
  <2>4. \A type : m.type = type => At(down, 1, type)
    BY <1>1, <2>1, <2>2, TailAt DEF At
  <2>5. CASE OnChange(m) \/ OnAck(m)
    <3>1. UNCHANGED <<up, checkpoint, savedCheckpoint, awaitingResetWelcome>>
      BY <2>5 DEF OnChange, OnAck
    <3> QED
      BY <1>1, <2>2, <2>3, <3>1 DEF RoundInv
  <2>6. CASE OnWelcome(m)
    <3>1. /\ \A i : ~ At(up, i, "hello")
          /\ \A i : ~ At(d, i, "welcome")
      <4>1. At(down, 1, "welcome")
        BY <2>4, <2>6 DEF OnWelcome
      <4>2. \A i : ~ At(up, i, "hello")
        BY <1>1, <4>1 DEF OneRound
      <4>3. ASSUME NEW i, At(d, i, "welcome")
            PROVE  FALSE
        <5>1. i \in Nat \ {0} /\ At(down, i + 1, "welcome")
          BY <1>1, <2>1, <2>2, <4>3, AtTail
        <5>2. i + 1 = 1
          BY <1>1, <4>1, <5>1 DEF OneRound
        <5> QED
          BY <5>1, <5>2
      <4> QED
        BY <4>2, <4>3
    <3>2. CASE m.serverSeq < checkpoint
      <4>1. /\ checkpoint' = 0 /\ savedCheckpoint' = 0 /\ up' = Append(up, Hello(0))
            /\ awaitingResetWelcome' = TRUE
        BY <2>6, <3>2 DEF OnWelcome
      <4>2. PICK u : u = Append(up, Hello(0))
        OBVIOUS
      <4>3. /\ Len(u) = Len(up) + 1 /\ Len(up) \in Nat
            /\ \A i \in 1 .. Len(up) : u[i] = up[i]
            /\ u[Len(up) + 1] = Hello(0)
        <5>1. Hello(0) \in UpMessage
          BY MessageTypes, BoundsAssumption
        <5> QED
          BY <1>1, <4>2, <5>1, AppendAt
      <4>4. \A i \in 1 .. Len(up) + 1 : i \in 1 .. Len(up) \/ i = Len(up) + 1
        BY <4>3
      <4>5. \A i : At(u, i, "hello") => i = Len(up) + 1
        BY <3>1, <4>3, <4>4 DEF At
      <4>6. u[Len(up) + 1].checkpoint = 0
        BY <4>3 DEF Hello
      <4>7. OneRound(u, d, 0)
        BY <3>1, <4>5, <4>6 DEF OneRound
      <4> QED
        BY <2>2, <4>1, <4>2, <4>7 DEF RoundInv
    <3>3. CASE ~ m.serverSeq < checkpoint
      <4>1. UNCHANGED <<up, checkpoint, savedCheckpoint>>
        BY <2>6, <3>3 DEF OnWelcome
      <4>2. InOrder(up, d)
        BY <3>1 DEF InOrder
      <4> QED
        BY <1>1, <2>2, <2>3, <4>1, <4>2 DEF RoundInv
    <3> QED
      BY <3>2, <3>3
  <2>7. CASE OnSync(m)
    <3>1. awaitingResetWelcome' = awaitingResetWelcome
      BY <2>7 DEF OnSync
    <3>2. CASE ~awaitingResetWelcome /\ m.complete
      <4>1. checkpoint' = m.serverSeq /\ savedCheckpoint' = m.serverSeq /\ Flush(outbox, inFlight)
        BY <2>7, <3>2 DEF OnSync
      <4>2. At(down, 1, "sync")
        BY <2>4, <2>7 DEF OnSync
      <4>3. \A i : ~ At(up, i, "hello")
        BY <1>1, <3>2, <4>2 DEF InOrder
      <4>4. OneRound(up, d, checkpoint')
        BY <2>3, <4>3 DEF OneRound
      <4>5. outbox \in Seq(Change)
        BY DEF TypeOK
      <4> QED
        BY <1>1, <1>7, <2>2, <2>3, <3>1, <4>1, <4>4, <4>5
    <3>3. CASE awaitingResetWelcome \/ ~m.complete
      <4>1. UNCHANGED <<up, checkpoint, savedCheckpoint>>
        BY <2>7, <3>3 DEF OnSync
      <4> QED
        BY <1>1, <2>2, <2>3, <3>1, <4>1 DEF RoundInv
    <3> QED
      BY <3>2, <3>3
  <2> QED
    BY <2>2, <2>5, <2>6, <2>7
<1>10. CASE ServeHello
  <2>1. PICK p, f \in Seq(DownMessage) :
           /\ up # <<>> /\ Head(up).type = "hello" /\ up' = Tail(up)
           /\ Bootstrap(p, Head(up).checkpoint)
           /\ down' = f /\ Follows(down, Welcome(HighestSeq(rows)), p, f)
           /\ UNCHANGED <<engine, local>>
    BY <1>10, HelloServed
  <2>2. PICK u : u = Tail(up)
    OBVIOUS
  <2>3. \A i \in 1 .. Len(p) : p[i].type = "sync"
    BY <2>1 DEF Bootstrap
  <2>4. /\ \A i : At(f, i, "welcome") <=> At(down, i, "welcome") \/ i = Len(down) + 1
        /\ \A i : At(f, i, "sync") <=>
              At(down, i, "sync") \/ \E k \in 1 .. Len(p) : i = Len(down) + 1 + k
    <3>1. Welcome(HighestSeq(rows)).type = "welcome"
      BY DEF Welcome
    <3> QED
      BY <2>1, <2>3, <3>1, Greeted
  <2>10. Len(down) \in Nat
    BY <2>1 DEF Follows
  <2>5. At(up, 1, "hello")
    BY <1>1, <2>1, TailAt DEF At
  <2>6. \A i : ~ At(down, i, "welcome")
    BY <1>1, <2>5 DEF OneRound
  <2>7. \A i : ~ At(u, i, "hello")
    <3> SUFFICES ASSUME NEW i, At(u, i, "hello") PROVE FALSE
      OBVIOUS
    <3>1. i \in Nat \ {0} /\ At(up, i + 1, "hello")
      BY <1>1, <2>1, <2>2, AtTail
    <3>2. i + 1 = 1
      BY <1>1, <2>5, <3>1 DEF OneRound
    <3> QED
      BY <3>1, <3>2
  <2>8. OneRound(u, f, checkpoint)
    BY <2>4, <2>6, <2>7 DEF OneRound
  <2>9. ASSUME ~awaitingResetWelcome
        PROVE  InOrder(u, f)
    <3>1. \A j : ~ At(down, j, "sync")
      BY <1>1, <2>5, <2>9 DEF InOrder
    <3>2. \A i, j : At(f, i, "welcome") /\ At(f, j, "sync") => i < j
      BY <2>4, <2>6, <2>10, <3>1
    <3> QED
      BY <2>7, <3>2 DEF InOrder
  <2> QED
    BY <1>1, <2>1, <2>2, <2>8, <2>9 DEF RoundInv, engine, local
<1>11. CASE ServePush \/ ServeStray \/ \E r \in Record : ServerWrite(r)
  <2>1. PICK t \in Seq(DownMessage) :
           /\ Told(t)
           /\ open => down' = down \o t
           /\ ~open => down' = down
           /\ up' = up \/ (up # <<>> /\ up' = Tail(up) /\ Head(up).type = "push")
    BY <1>11, TableMoves
  <2>2. /\ UNCHANGED <<checkpoint, savedCheckpoint, awaitingResetWelcome>>
        /\ \A i \in 1 .. Len(t) : t[i].type \in {"change", "ack"}
    BY <2>1 DEF Told, engine, local
  <2>3. \A i : ~ At(t, i, "welcome") /\ ~ At(t, i, "sync")
    BY <2>2 DEF At
  <2>4. OneRound(up, down \o t, checkpoint) /\ (InOrder(up, down) => InOrder(up, down \o t))
    BY <1>1, <2>3, RoundMore
  <2>5. PICK d : d = down'
    OBVIOUS
  <2>6. d \in Seq(DownMessage) /\ OneRound(up, d, checkpoint) /\ (InOrder(up, down) => InOrder(up, d))
    BY <1>1, <2>1, <2>4, <2>5, ConcatAt
  <2>7. CASE up' = up
    BY <1>1, <2>2, <2>5, <2>6, <2>7 DEF RoundInv
  <2>8. CASE up # <<>> /\ up' = Tail(up)
    <3>1. OneRound(Tail(up), d, checkpoint) /\ (InOrder(up, d) => InOrder(Tail(up), d))
      BY <1>1, <2>6, <2>8, RoundLess
    <3> QED
      BY <1>1, <2>2, <2>5, <2>6, <2>8, <3>1 DEF RoundInv
  <2> QED
    BY <2>1, <2>7, <2>8
<1>12. ASSUME \/ \E t \in tasks : ConnectFails(t) \/ RefreshOk(t) \/ RefreshFails(t)
              \/ LoseStray \/ ServerReset \/ UNCHANGED vars
       PROVE  UNCHANGED <<up, down, checkpoint, savedCheckpoint, awaitingResetWelcome>>
  BY <1>12 DEF ConnectFails, RefreshOk, RefreshFails, LoseStray, ServerReset, vars, wire, engine, local
<1> QED
  BY <1>2, <1>4, <1>5, <1>6, <1>8, <1>9, <1>10, <1>11, <1>12 DEF Next

-----------------------------------------------------------------------------
(* What a step does to the records, on either side.                        *)
HelloKept == \A i : At(up', i, "hello") <=> At(up, i, "hello")
Kept == UNCHANGED <<rows, store, checkpoint, savedCheckpoint, forgotten>>
Cut == Kept /\ ~open' /\ down' = <<>>
Opened == Kept /\ open' /\ down' = <<>> /\ ~awaitingResetWelcome' /\ At(up', 1, "hello")
Sent == Kept /\ UNCHANGED <<down, open, awaitingResetWelcome>> /\ HelloKept

LEMMA PushesAdded ==
  ASSUME NEW u \in Seq(UpMessage), NEW t \in Seq(PushMessage), NEW i
  PROVE  At(u \o t, i, "hello") <=> At(u, i, "hello")
<1>1. t \in Seq(UpMessage)
  BY MessageTypes, SeqMonotonic
<1>2. \A k : ~ At(t, k, "hello")
  <2>1. \A k \in 1 .. Len(t) : t[k] \in PushMessage
    BY LenProperties
  <2> QED
    BY <2>1 DEF At, PushMessage
<1> QED
  BY <1>1, <1>2, AtConcat

LEMMA FlushKeeps ==
  ASSUME TypeOK, NEW box \in Seq(Change), Flush(box, inFlight)
  PROVE  HelloKept
<1>1. up \in Seq(UpMessage)
  BY DEF TypeOK
<1>2. CASE open
  <2>1. PICK t : t = Batches(Unsent(box, inFlight))
    OBVIOUS
  <2>2. t \in Seq(PushMessage) /\ up' = up \o t
    BY <1>2, <2>1, FlushAt
  <2> QED
    BY <1>1, <2>2, PushesAdded DEF HelloKept
<1>3. CASE ~open
  BY <1>3, FlushAt DEF HelloKept
<1> QED
  BY <1>2, <1>3

LEMMA Kinds ==
  ASSUME TypeOK, ClientInv, [Next]_vars
  PROVE  \/ Cut \/ Opened \/ Sent \/ Reload
         \/ \E t \in tasks : Loaded(t)
         \/ Receive \/ ServeHello \/ ServerReset
         \/ ServePush \/ ServeStray \/ \E r \in Record : ServerWrite(r)
<1>1. CASE Start \/ Stop \/ SocketCloses
  <2>1. open' = FALSE /\ down' = <<>>
    BY <1>1, DisconnectAt DEF Start, Stop, SocketCloses
  <2>2. Kept
    BY <1>1 DEF Start, Stop, SocketCloses, Kept, local, history
  <2> QED
    BY <2>1, <2>2 DEF Cut
<1>2. ASSUME NEW t \in tasks, ConnectOk(t)
      PROVE  Opened \/ Sent
  <2>1. Kept
    BY <1>2 DEF ConnectOk, Kept, server, local, history
  <2>2. CASE Current(t)
    <3>1. /\ open' = TRUE /\ down' = <<>> /\ awaitingResetWelcome' = FALSE
          /\ up' = <<Hello(checkpoint)>>
      BY <1>2, <2>2 DEF ConnectOk
    <3>2. Hello(checkpoint).type = "hello"
      BY DEF Hello
    <3>3. At(<<Hello(checkpoint)>>, 1, "hello")
      BY <3>2 DEF At
    <3> QED
      BY <2>1, <3>1, <3>3 DEF Opened
  <2>3. CASE ~Current(t)
    BY <1>2, <2>1, <2>3 DEF ConnectOk, wire, Sent, HelloKept
  <2> QED
    BY <2>2, <2>3
<1>3. ASSUME \/ \E t \in tasks : ConnectFails(t) \/ RefreshOk(t) \/ RefreshFails(t)
             \/ LoseStray \/ UNCHANGED vars
      PROVE  Sent
  BY <1>3 DEF ConnectFails, RefreshOk, RefreshFails, LoseStray, vars, server, wire, engine, local,
              history, Sent, Kept, HelloKept
<1>4. ASSUME NEW c \in Change, Push(c)
      PROVE  Sent
  <2>1. Append(outbox, c) \in Seq(Change)
    BY AppendAt DEF TypeOK
  <2>2. Flush(Append(outbox, c), inFlight)
    BY <1>4 DEF Push
  <2>3. HelloKept
    BY <2>1, <2>2, FlushKeeps
  <2> QED
    BY <1>4, <2>3 DEF Push, Sent, Kept, server
<1> QED
  BY <1>1, <1>2, <1>3, <1>4 DEF Next

(* What a message does to the client.                                      *)
LEMMA Received ==
  ASSUME TypeOK, Receive, NEW m, m = Head(down)
  PROVE  /\ rows' = rows /\ open /\ open' /\ down # <<>> /\ down' = Tail(down)
         /\ \/ /\ m.type = "welcome" /\ m.serverSeq < checkpoint
               /\ checkpoint' = 0 /\ savedCheckpoint' = 0
               /\ awaitingResetWelcome' /\ ~forgotten'
               /\ \E i : At(up', i, "hello")
            \/ /\ m.type = "welcome" /\ ~ m.serverSeq < checkpoint
               /\ UNCHANGED <<checkpoint, savedCheckpoint, forgotten>>
               /\ ~awaitingResetWelcome' /\ HelloKept
            \/ /\ m.type = "sync" /\ ~awaitingResetWelcome /\ m.complete
               /\ checkpoint' = m.serverSeq /\ savedCheckpoint' = m.serverSeq
               /\ UNCHANGED <<awaitingResetWelcome, forgotten>> /\ HelloKept
            \/ /\ m.type # "welcome"
               /\ UNCHANGED <<checkpoint, savedCheckpoint, awaitingResetWelcome, forgotten>>
               /\ HelloKept
<1>1. /\ rows' = rows /\ open /\ open' /\ down # <<>> /\ down' = Tail(down)
      /\ OnWelcome(m) \/ OnSync(m) \/ OnChange(m) \/ OnAck(m)
  BY DEF Receive, server
<1>2. up \in Seq(UpMessage) /\ outbox \in Seq(Change)
  BY DEF TypeOK
<1>3. up' = up => HelloKept
  BY DEF HelloKept
<1>4. CASE OnChange(m) \/ OnAck(m)
  BY <1>1, <1>3, <1>4 DEF OnChange, OnAck
<1>5. CASE OnWelcome(m) /\ m.serverSeq < checkpoint
  <2>1. /\ m.type = "welcome" /\ checkpoint' = 0 /\ savedCheckpoint' = 0
        /\ awaitingResetWelcome' /\ ~forgotten' /\ up' = Append(up, Hello(0))
    BY <1>5 DEF OnWelcome
  <2>2. PICK u : u = Append(up, Hello(0))
    OBVIOUS
  <2>3. Len(u) = Len(up) + 1 /\ Len(up) \in Nat /\ u[Len(up) + 1] = Hello(0)
    <3>1. Hello(0) \in UpMessage
      BY MessageTypes, BoundsAssumption
    <3> QED
      BY <1>2, <2>2, <3>1, AppendAt
  <2>4. Len(up) + 1 \in 1 .. Len(u) /\ Hello(0).type = "hello"
    BY <2>3 DEF Hello
  <2>5. At(u, Len(up) + 1, "hello")
    BY <2>3, <2>4 DEF At
  <2> QED
    BY <1>1, <1>5, <2>1, <2>2, <2>5
<1>6. CASE OnWelcome(m) /\ ~ m.serverSeq < checkpoint
  BY <1>1, <1>3, <1>6 DEF OnWelcome
<1>7. CASE OnSync(m) /\ ~awaitingResetWelcome /\ m.complete
  <2>1. Flush(outbox, inFlight)
    BY <1>7 DEF OnSync
  <2>2. HelloKept
    BY <1>2, <2>1, FlushKeeps
  <2> QED
    BY <1>1, <1>7, <2>2 DEF OnSync
<1>8. CASE OnSync(m) /\ (awaitingResetWelcome \/ ~ m.complete)
  BY <1>1, <1>3, <1>8 DEF OnSync
<1> QED
  BY <1>1, <1>4, <1>5, <1>6, <1>7, <1>8

-----------------------------------------------------------------------------
(* What is on its way to the client is never newer than the object's       *)
(* records; while a reset is not known, only pages can bring a tombstone.  *)
TableInv == \A r \in Record : rows[r].seq = 0 => rows[r] = Nothing
NewsInv ==
  /\ \A i \in 1 .. Len(down) : \A r \in Record, row \in Row :
       Brings(down[i], r, row) => NoNewer(row, rows[r])
  /\ \A i \in 1 .. Len(down) :
       down[i].type \in {"welcome", "sync"} => down[i].serverSeq <= HighestSeq(rows)
  /\ forgotten => \A i \in 1 .. Len(down) : \A r \in Record, row \in Row :
       down[i].type # "sync" /\ Brings(down[i], r, row) => Live(row)

LEMMA Highest ==
  ASSUME NEW table \in [Record -> Row]
  PROVE  /\ HighestSeq(table) \in 0 .. MaxSeq /\ HighestSeq(table) \in Nat
         /\ \A r \in Record : table[r].seq \in Nat /\ table[r].seq <= HighestSeq(table)
<1>1. MaxSeq \in Nat /\ \A r \in Record : table[r].seq \in 0 .. MaxSeq
  BY BoundsAssumption DEF Row
<1>2. /\ HighestSeq(table) \in 0 .. MaxSeq
      /\ \A r \in Record : table[r].seq <= HighestSeq(table)
  BY <1>1, HighestSeqOf
<1> QED
  BY <1>1, <1>2

LEMMA HighestGrows ==
  ASSUME NEW t \in [Record -> Row], NEW u \in [Record -> Row],
         \A r \in Record : NoNewer(t[r], u[r])
  PROVE  HighestSeq(t) <= HighestSeq(u)
<1>1. MaxSeq \in Nat /\ \A r \in Record : t[r].seq \in 0 .. MaxSeq
  BY BoundsAssumption DEF Row
<1>2. HighestSeq(t) = 0 \/ \E r \in Record : HighestSeq(t) = t[r].seq
  BY <1>1, HighestSeqOf
<1>3. /\ HighestSeq(u) \in Nat
      /\ \A r \in Record : u[r].seq \in Nat /\ u[r].seq <= HighestSeq(u)
  BY Highest
<1>4. \A r \in Record : t[r].seq <= u[r].seq
  BY DEF NoNewer
<1> QED
  BY <1>1, <1>2, <1>3, <1>4

LEMMA NoNewerOrder ==
  /\ \A a \in Row : NoNewer(a, a)
  /\ \A a, b, c \in Row : NoNewer(a, b) /\ NoNewer(b, c) => NoNewer(a, c)
<1>1. \A a \in Row : a.seq \in Nat
  BY BoundsAssumption DEF Row
<1> QED
  BY <1>1 DEF NoNewer

(* What the object is told to write it tells an open socket.               *)
Appends(d, t, f) ==
  /\ Len(f) = Len(d) + Len(t) /\ Len(d) \in Nat /\ Len(t) \in Nat
  /\ \A i \in 1 .. Len(d) : f[i] = d[i]
  /\ \A i \in 1 .. Len(t) : f[Len(d) + i] = t[i]

LEMMA AppendedTo ==
  ASSUME NEW d, NEW t, NEW f, Appends(d, t, f), NEW i \in 1 .. Len(f)
  PROVE  \/ i \in 1 .. Len(d) /\ f[i] = d[i]
         \/ \E k \in 1 .. Len(t) : i = Len(d) + k /\ f[i] = t[k]
<1>1. Len(f) = Len(d) + Len(t) /\ Len(d) \in Nat /\ Len(t) \in Nat
  BY DEF Appends
<1>2. CASE i \in 1 .. Len(d)
  BY <1>2 DEF Appends
<1>3. CASE i \notin 1 .. Len(d)
  <2>1. i - Len(d) \in 1 .. Len(t) /\ i = Len(d) + (i - Len(d))
    BY <1>1, <1>3
  <2> QED
    BY <2>1 DEF Appends
<1> QED
  BY <1>2, <1>3

LEMMA FollowedBy ==
  ASSUME NEW d, NEW x, NEW p, NEW f, Follows(d, x, p, f), NEW i \in 1 .. Len(f)
  PROVE  \/ i \in 1 .. Len(d) /\ f[i] = d[i]
         \/ i = Len(d) + 1 /\ f[i] = x
         \/ \E k \in 1 .. Len(p) : i = Len(d) + 1 + k /\ f[i] = p[k]
<1>1. Len(f) = Len(d) + 1 + Len(p) /\ Len(d) \in Nat /\ Len(p) \in Nat
  BY DEF Follows
<1>2. CASE i \in 1 .. Len(d) \/ i = Len(d) + 1
  BY <1>2 DEF Follows
<1>3. CASE i \notin 1 .. Len(d) /\ i # Len(d) + 1
  <2>1. i - (Len(d) + 1) \in 1 .. Len(p) /\ i = Len(d) + 1 + (i - (Len(d) + 1))
    BY <1>1, <1>3
  <2> QED
    BY <2>1 DEF Follows
<1> QED
  BY <1>2, <1>3

LEMMA ToldDown ==
  ASSUME TypeOK, ClientInv, ServePush \/ ServeStray \/ \E r \in Record : ServerWrite(r)
  PROVE  \E t \in Seq(DownMessage) :
           /\ Told(t)
           /\ (open /\ Appends(down, t, down')) \/ (~open /\ Len(down') = 0)
           /\ (\E i : At(up, i, "hello")) => \E i : At(up', i, "hello")
<1>1. /\ up \in Seq(UpMessage) /\ down \in Seq(DownMessage)
      /\ ~open => down = <<>>
  BY DEF TypeOK, ClientInv
<1>2. PICK t \in Seq(DownMessage) :
        /\ Told(t)
        /\ open => down' = down \o t
        /\ ~open => down' = down
        /\ up' = up \/ (up # <<>> /\ up' = Tail(up) /\ Head(up).type = "push")
  BY TableMoves
<1>3. /\ Len(down \o t) = Len(down) + Len(t) /\ Len(down) \in Nat /\ Len(t) \in Nat
      /\ \A i \in 1 .. Len(down) : (down \o t)[i] = down[i]
      /\ \A i \in 1 .. Len(t) : (down \o t)[Len(down) + i] = t[i]
  BY <1>1, <1>2, ConcatAt
<1>4. (open /\ Appends(down, t, down')) \/ (~open /\ Len(down') = 0)
  <2>1. CASE open
    BY <1>2, <1>3, <2>1 DEF Appends
  <2>2. CASE ~open
    BY <1>1, <1>2, <2>2
  <2> QED
    BY <2>1, <2>2
<1>5. ASSUME NEW i, At(up, i, "hello")
      PROVE  \E j : At(up', j, "hello")
  <2>1. CASE up' = up
    BY <1>5, <2>1
  <2>2. CASE up # <<>> /\ up' = Tail(up) /\ Head(up).type = "push"
    <3>1. Head(up) = up[1] /\ i \in 1 .. Len(up) /\ Len(up) \in Nat
      BY <1>1, <1>5, <2>2, TailAt DEF At
    <3>2. i # 1
      BY <1>5, <2>2, <3>1 DEF At
    <3>3. PICK k : k = i - 1
      OBVIOUS
    <3>4. k \in Nat \ {0} /\ k + 1 = i
      BY <3>1, <3>2, <3>3
    <3>5. At(Tail(up), k, "hello")
      BY <1>1, <1>5, <2>2, <3>4, AtTail
    <3> QED
      BY <2>2, <3>5
  <2> QED
    BY <1>2, <2>1, <2>2
<1> QED
  BY <1>2, <1>4, <1>5

LEMMA TableStep ==
  ASSUME TypeOK, ClientInv, TableInv, [Next]_vars
  PROVE  TableInv'
<1>1. CASE rows' = rows
  BY <1>1 DEF TableInv
<1>2. CASE ServerReset
  BY <1>2 DEF ServerReset, TableInv
<1>3. CASE ServePush \/ ServeStray \/ \E r \in Record : ServerWrite(r)
  <2>1. PICK t \in Seq(DownMessage) : Told(t)
    BY <1>3, ToldDown
  <2>2. /\ \A r \in Record : rows'[r] = rows[r] \/ rows'[r].seq > HighestSeq(rows)
        /\ HighestSeq(rows) \in Nat /\ rows' \in [Record -> Row]
    BY <2>1, Highest DEF Told, TypeOK
  <2>3. \A r \in Record : rows'[r].seq \in Nat
    BY <2>2, Highest
  <2> QED
    BY <2>2, <2>3 DEF TableInv
<1> QED
  BY <1>1, <1>2, <1>3, Kinds, Received DEF Cut, Opened, Sent, Kept, Reload, Loaded, ServeHello, server

LEMMA NewsStep ==
  ASSUME TypeOK, ClientInv, NewsInv, [Next]_vars
  PROVE  NewsInv'
<1>1. /\ down \in Seq(DownMessage) /\ rows \in [Record -> Row]
      /\ forgotten \in BOOLEAN
      /\ ~open => down = <<>>
  BY DEF TypeOK, ClientInv
<1>2. ASSUME down' = <<>>
      PROVE  NewsInv'
  <2>1. \A i : i \notin 1 .. 0
    OBVIOUS
  <2>2. Len(down') = 0
    BY <1>2
  <2> QED
    BY <2>1, <2>2 DEF NewsInv
<1>3. CASE Cut \/ Opened \/ Reload
  BY <1>2, <1>3, DisconnectAt DEF Cut, Opened, Reload
<1>4. CASE Sent
  BY <1>4 DEF Sent, Kept, NewsInv
<1>5. ASSUME NEW t \in tasks, Loaded(t)
      PROVE  NewsInv'
  BY <1>5 DEF Loaded, server, wire, history, NewsInv
<1>6. CASE Receive
  <2>1. PICK d : d = Tail(down)
    OBVIOUS
  <2>2. rows' = rows /\ down # <<>> /\ down' = d /\ (forgotten' => forgotten)
    BY <1>6, <2>1, Received
  <2>3. \A i \in 1 .. Len(d) : i + 1 \in 1 .. Len(down) /\ d[i] = down[i + 1]
    BY <1>1, <2>1, <2>2, TailAt
  <2> QED
    BY <2>2, <2>3 DEF NewsInv
<1>7. CASE ServeHello
  <2>1. PICK p, f \in Seq(DownMessage) :
          /\ Bootstrap(p, Head(up).checkpoint)
          /\ down' = f /\ Follows(down, Welcome(HighestSeq(rows)), p, f)
          /\ UNCHANGED <<rows, history>>
    BY <1>7, HelloServed
  <2>2. HighestSeq(rows) \in Nat
    BY <1>1, Highest
  <2>3. \A i \in 1 .. Len(f) :
          \/ i \in 1 .. Len(down) /\ f[i] = down[i]
          \/ f[i] = Welcome(HighestSeq(rows))
          \/ \E k \in 1 .. Len(p) : f[i] = p[k]
    BY <2>1, FollowedBy
  <2>4. /\ Welcome(HighestSeq(rows)).type = "welcome"
        /\ Welcome(HighestSeq(rows)).serverSeq = HighestSeq(rows)
        /\ \A r, row : ~ Brings(Welcome(HighestSeq(rows)), r, row)
    BY DEF Welcome, Brings
  <2>5. \A k \in 1 .. Len(p) :
          /\ p[k].type = "sync" /\ p[k].serverSeq = HighestSeq(rows)
          /\ \A r \in Record, row \in Row : Brings(p[k], r, row) => row = rows[r]
    BY <2>1 DEF Bootstrap, Brings
  <2>6. /\ \A r \in Record : rows[r] \in Row /\ NoNewer(rows[r], rows[r])
        /\ HighestSeq(rows) <= HighestSeq(rows)
    BY <1>1, <2>2, NoNewerOrder
  <2>7. ASSUME NEW i \in 1 .. Len(f)
        PROVE  /\ \A r \in Record, row \in Row : Brings(f[i], r, row) => NoNewer(row, rows[r])
               /\ f[i].type \in {"welcome", "sync"} => f[i].serverSeq <= HighestSeq(rows)
               /\ forgotten => \A r \in Record, row \in Row :
                    f[i].type # "sync" /\ Brings(f[i], r, row) => Live(row)
    <3>1. CASE i \in 1 .. Len(down) /\ f[i] = down[i]
      BY <3>1 DEF NewsInv
    <3>2. CASE f[i] = Welcome(HighestSeq(rows))
      BY <2>4, <2>6, <3>2
    <3>3. CASE \E k \in 1 .. Len(p) : f[i] = p[k]
      BY <2>5, <2>6, <3>3
    <3> QED
      BY <2>3, <3>1, <3>2, <3>3
  <2> QED
    BY <2>1, <2>7 DEF NewsInv, history
<1>8. CASE ServerReset
  <2>1. down' = <<>>
    BY <1>1, <1>8 DEF ServerReset, wire
  <2> QED
    BY <1>2, <2>1
<1>9. CASE ServePush \/ ServeStray \/ \E r \in Record : ServerWrite(r)
  <2>1. PICK t \in Seq(DownMessage) :
          Told(t) /\ ((open /\ Appends(down, t, down')) \/ (~open /\ Len(down') = 0))
    BY <1>9, ToldDown
  <2>2. PICK table, f : table = rows' /\ f = down'
    OBVIOUS
  <2>3. /\ table \in [Record -> Row] /\ forgotten' = forgotten
        /\ \A r \in Record : rows[r] \in Row /\ table[r] \in Row /\ NoNewer(rows[r], table[r])
        /\ \A i \in 1 .. Len(t) : t[i].type \in {"change", "ack"}
        /\ \A i \in 1 .. Len(t) : \A r \in Record, row \in Row :
             Brings(t[i], r, row) => NoNewer(row, table[r]) /\ (forgotten => Live(row))
    BY <1>1, <2>1, <2>2 DEF Told, history
  <2>4. HighestSeq(rows) <= HighestSeq(table) /\ HighestSeq(rows) \in Nat /\ HighestSeq(table) \in Nat
    BY <1>1, <2>3, HighestGrows, Highest
  <2>5. ASSUME NEW i \in 1 .. Len(f)
        PROVE  \/ i \in 1 .. Len(down) /\ f[i] = down[i]
               \/ \E k \in 1 .. Len(t) : f[i] = t[k]
    <3>1. Appends(down, t, f)
      <4>1. ~ i \in 1 .. 0
        OBVIOUS
      <4> QED
        BY <2>1, <2>2, <2>5, <4>1
    <3> QED
      BY <3>1, AppendedTo
  <2>6. ASSUME NEW i \in 1 .. Len(f)
        PROVE  /\ \A r \in Record, row \in Row : Brings(f[i], r, row) => NoNewer(row, table[r])
               /\ f[i].type \in {"welcome", "sync"} => f[i].serverSeq <= HighestSeq(table)
               /\ forgotten => \A r \in Record, row \in Row :
                    f[i].type # "sync" /\ Brings(f[i], r, row) => Live(row)
    <3>1. CASE i \in 1 .. Len(down) /\ f[i] = down[i]
      <4>1. \A r \in Record, row \in Row : Brings(f[i], r, row) => NoNewer(row, rows[r])
        BY <3>1 DEF NewsInv
      <4>2. \A r \in Record, row \in Row : Brings(f[i], r, row) => NoNewer(row, table[r])
        BY <2>3, <4>1, NoNewerOrder
      <4>3. f[i].type \in {"welcome", "sync"} => f[i].serverSeq <= HighestSeq(table)
        <5> SUFFICES ASSUME f[i].type \in {"welcome", "sync"}
                     PROVE  f[i].serverSeq <= HighestSeq(table)
          OBVIOUS
        <5>1. down[i] \in DownMessage
          BY <1>1, <3>1, LenProperties
        <5>2. f[i].serverSeq \in 0 .. MaxSeq /\ MaxSeq \in Nat
          BY <3>1, <5>1, DownMessages, BoundsAssumption
        <5>3. f[i].serverSeq <= HighestSeq(rows)
          BY <3>1 DEF NewsInv
        <5> QED
          BY <2>4, <5>2, <5>3
      <4> QED
        BY <3>1, <4>2, <4>3 DEF NewsInv
    <3>2. CASE \E k \in 1 .. Len(t) : f[i] = t[k]
      BY <2>3, <3>2
    <3> QED
      BY <2>5, <3>1, <3>2
  <2> QED
    BY <2>2, <2>3, <2>6 DEF NewsInv
<1> QED
  BY <1>3, <1>4, <1>5, <1>6, <1>7, <1>8, <1>9, Kinds

-----------------------------------------------------------------------------
(* While a reset is not known to the client, its checkpoint is ahead of    *)
(* the object, it would still trust it, and on an open socket the welcome  *)
(* that tells of the reset is asked for or on its way.                     *)
ForgottenInv ==
  forgotten =>
    /\ HighestSeq(rows) < checkpoint
    /\ \E r \in Record : Live(store[r])
    /\ open => /\ ~awaitingResetWelcome
               /\ (\E i : At(up, i, "hello")) \/ \E i : At(down, i, "welcome")

(* Then a welcome is the one of the reset, and no page comes.              *)
LEMMA WhileForgotten ==
  ASSUME TypeOK, RoundInv, NewsInv, ForgottenInv, forgotten, Receive, NEW m, m = Head(down)
  PROVE  \/ m.type = "welcome" /\ m.serverSeq < checkpoint
         \/ m.type \in {"change", "ack"}
<1>1. /\ down \in Seq(DownMessage) /\ down # <<>> /\ open
      /\ rows \in [Record -> Row] /\ checkpoint \in 0 .. MaxSeq
  BY DEF TypeOK, Receive
<1>2. Len(down) \in Nat \ {0} /\ m = down[1] /\ m \in DownMessage
  BY <1>1, TailAt
<1>3. 1 \in 1 .. Len(down) /\ \A i \in 1 .. Len(down) : ~ i < 1
  BY <1>2
<1>4. CASE m.type = "welcome"
  <2>1. m.serverSeq \in 0 .. MaxSeq /\ HighestSeq(rows) \in Nat /\ MaxSeq \in Nat
    BY <1>1, <1>2, <1>4, DownMessages, Highest, BoundsAssumption
  <2>2. m.serverSeq <= HighestSeq(rows)
    BY <1>2, <1>3, <1>4 DEF NewsInv
  <2>3. HighestSeq(rows) < checkpoint
    BY DEF ForgottenInv
  <2> QED
    BY <1>1, <1>4, <2>1, <2>2, <2>3
<1>5. CASE m.type = "sync"
  <2>1. At(down, 1, "sync")
    BY <1>2, <1>3, <1>5 DEF At
  <2>2. InOrder(up, down)
    BY <1>1 DEF RoundInv, ForgottenInv
  <2>3. ~ \E i : At(up, i, "hello")
    BY <2>1, <2>2 DEF InOrder
  <2>4. ~ \E i : At(down, i, "welcome")
    BY <1>3, <2>1, <2>2 DEF InOrder, At
  <2> QED
    BY <1>1, <2>3, <2>4 DEF ForgottenInv
<1> QED
  BY <1>2, <1>4, <1>5, DownMessages

LEMMA ForgottenStep ==
  ASSUME TypeOK, ClientInv, RoundInv, NewsInv, ForgottenInv, [Next]_vars
  PROVE  ForgottenInv'
<1>1. /\ down \in Seq(DownMessage) /\ rows \in [Record -> Row]
      /\ forgotten \in BOOLEAN /\ checkpoint \in 0 .. MaxSeq /\ checkpoint \in Nat
      /\ HighestSeq(rows) \in Nat
      /\ ~open => up = <<>> /\ down = <<>>
  BY Highest, BoundsAssumption DEF TypeOK, ClientInv
<1>2. CASE Cut
  BY <1>2 DEF Cut, Kept, ForgottenInv
<1>3. CASE Opened
  BY <1>3 DEF Opened, Kept, ForgottenInv
<1>4. CASE Sent
  BY <1>4 DEF Sent, Kept, HelloKept, ForgottenInv
<1>5. CASE Reload
  BY <1>5 DEF Reload, ForgottenInv
<1>6. ASSUME NEW t \in tasks, Loaded(t)
      PROVE  ForgottenInv'
  <2>1. ~open
    BY <1>6 DEF ClientInv, TasksOK, Loaded
  <2>2. /\ checkpoint' = TrustedCheckpoint
        /\ UNCHANGED <<rows, store, open, forgotten>>
    BY <1>6 DEF Loaded, server, wire, history
  <2>3. forgotten => checkpoint' = checkpoint
    <3> SUFFICES ASSUME forgotten PROVE checkpoint' = checkpoint
      OBVIOUS
    <3>1. HighestSeq(rows) < checkpoint /\ \E r \in Record : Live(store[r])
      BY DEF ForgottenInv
    <3>2. checkpoint = savedCheckpoint
      BY <1>1, <3>1 DEF RoundInv
    <3> QED
      BY <2>2, <3>1, <3>2 DEF TrustedCheckpoint
  <2> QED
    BY <2>1, <2>2, <2>3 DEF ForgottenInv
<1>7. CASE Receive
  <2> SUFFICES ASSUME forgotten' PROVE ForgottenInv'
    BY DEF ForgottenInv
  <2>1. PICK m, d : m = Head(down) /\ d = Tail(down)
    OBVIOUS
  <2>2. rows' = rows /\ open /\ open' /\ down # <<>> /\ down' = d
    BY <1>7, <2>1, Received
  <2>3. forgotten
    BY <1>7, <2>1, Received
  <2>4. m.type \in {"change", "ack"}
    BY <1>7, <2>1, <2>3, WhileForgotten, Received
  <2>5. UNCHANGED <<checkpoint, awaitingResetWelcome>> /\ HelloKept
    BY <1>7, <2>1, <2>4, Received
  <2>6. PICK r \in Record : Live(store[r])
    BY <2>3 DEF ForgottenInv
  <2>7. Live(store'[r])
    <3>1. \/ store'[r] = store[r]
          \/ \E row \in Row : Brings(m, r, row) /\ store'[r] = Takes(store[r], row)
      BY <1>7, <2>1, <2>4, StoreTakes
    <3>2. Len(down) \in Nat \ {0} /\ m = down[1]
      BY <1>1, <2>1, <2>2, TailAt
    <3>3. 1 \in 1 .. Len(down)
      BY <3>2
    <3>4. \A row \in Row : Brings(m, r, row) => Live(row)
      BY <2>3, <2>4, <3>2, <3>3 DEF NewsInv
    <3> QED
      BY <2>6, <3>1, <3>4 DEF Takes
  <2>8. ASSUME NEW i, At(down, i, "welcome")
        PROVE  \E j : At(d, j, "welcome")
    <3>1. Len(down) \in Nat /\ i \in 1 .. Len(down) /\ m = down[1]
      BY <1>1, <2>1, <2>2, <2>8, TailAt DEF At
    <3>2. i # 1
      BY <2>4, <2>8, <3>1 DEF At
    <3>3. PICK j : j = i - 1
      OBVIOUS
    <3>4. j \in Nat \ {0} /\ j + 1 = i
      BY <3>1, <3>2, <3>3
    <3>5. At(d, j, "welcome")
      BY <1>1, <2>1, <2>2, <2>8, <3>4, AtTail
    <3> QED
      BY <3>5
  <2> QED
    BY <2>2, <2>3, <2>5, <2>7, <2>8 DEF ForgottenInv, HelloKept
<1>8. CASE ServeHello
  <2>1. PICK p, f \in Seq(DownMessage) :
          /\ Bootstrap(p, Head(up).checkpoint)
          /\ down' = f /\ Follows(down, Welcome(HighestSeq(rows)), p, f)
          /\ UNCHANGED <<rows, open, engine, local, history>>
    BY <1>8, HelloServed
  <2>2. \A i \in 1 .. Len(p) : p[i].type = "sync"
    BY <2>1 DEF Bootstrap
  <2>3. Welcome(HighestSeq(rows)).type = "welcome"
    BY DEF Welcome
  <2>4. At(f, Len(down) + 1, "welcome")
    BY <2>1, <2>2, <2>3, Greeted
  <2> QED
    BY <2>1, <2>4 DEF ForgottenInv, engine, local, history
<1>9. CASE ServerReset
  <2>1. /\ rows' = [r \in Record |-> Nothing] /\ ~open /\ open' = open
        /\ checkpoint > 0 /\ checkpoint' = checkpoint
        /\ store' = store /\ \E r \in Record : Live(store[r])
    BY <1>9 DEF ServerReset, wire, engine, local
  <2>2. PICK table : table = rows'
    OBVIOUS
  <2>3. /\ \A r \in Record : table[r].seq \in 0 .. 0
        /\ 0 \in Nat
    BY <2>1, <2>2 DEF Nothing
  <2>4. HighestSeq(table) \in 0 .. 0
    BY <2>3, HighestSeqOf
  <2>5. HighestSeq(table) < checkpoint
    BY <1>1, <2>1, <2>4
  <2> QED
    BY <2>1, <2>2, <2>5 DEF ForgottenInv
<1>10. CASE ServePush \/ ServeStray \/ \E r \in Record : ServerWrite(r)
  <2>1. PICK t \in Seq(DownMessage) :
          /\ Told(t)
          /\ (open /\ Appends(down, t, down')) \/ (~open /\ Len(down') = 0)
          /\ (\E i : At(up, i, "hello")) => \E i : At(up', i, "hello")
    BY <1>10, ToldDown
  <2>2. Bounded(rows') /\ UNCHANGED <<open, engine, local, history>>
    BY <2>1 DEF Told
  <2>3. PICK f : f = down'
    OBVIOUS
  <2>4. ASSUME open, NEW i, At(down, i, "welcome")
        PROVE  At(f, i, "welcome")
    <3>1. Appends(down, t, f)
      BY <2>1, <2>3, <2>4
    <3>2. /\ Len(f) = Len(down) + Len(t) /\ Len(down) \in Nat /\ Len(t) \in Nat
          /\ i \in 1 .. Len(down)
      BY <2>4, <3>1 DEF Appends, At
    <3>3. i \in 1 .. Len(f)
      BY <3>2
    <3> QED
      BY <2>4, <3>1, <3>2, <3>3 DEF Appends, At
  <2> QED
    BY <2>1, <2>2, <2>3, <2>4 DEF ForgottenInv, Bounded, engine, local, history
<1> QED
  BY <1>2, <1>3, <1>4, <1>5, <1>6, <1>7, <1>8, <1>9, <1>10, Kinds

-----------------------------------------------------------------------------
(* Unless a reset is not known: the store has nothing the object has not,  *)
(* and all of the object's records up to the stored checkpoint; a last     *)
(* page that counts finds those up to its checkpoint in the store or       *)
(* comes after them; an open socket lacks none once its hello is answered. *)
Counts(i) ==
  /\ At(down, i, "sync")
  /\ ~awaitingResetWelcome \/ \E j \in 1 .. i - 1 : At(down, j, "welcome")
Heard(i, r) ==
  /\ i \in 1 .. Len(down) /\ Brings(down[i], r, rows[r])
  /\ down[i].type = "sync" => Counts(i)
Reached(n, r) == store[r] = rows[r] \/ \E i \in 1 .. n : Heard(i, r)
LastPages ==
  \A i : Counts(i) /\ down[i].complete =>
    \A r \in Record : rows[r].seq \in 1 .. down[i].serverSeq => Reached(i, r)
HonestInv ==
  ~forgotten =>
    /\ \A r \in Record : NoNewer(store[r], rows[r])
    /\ savedCheckpoint <= HighestSeq(rows)
    /\ \A i : At(down, i, "welcome") => ~ down[i].serverSeq < checkpoint
    /\ \A r \in Record : rows[r].seq \in 1 .. savedCheckpoint => store[r] = rows[r]
    /\ LastPages
    /\ open => (\E i : At(up, i, "hello")) \/ \A r \in Record : Reached(Len(down), r)

LEMMA CountsTail ==
  ASSUME TypeOK, down # <<>>, down' = Tail(down),
         \/ Head(down).type = "welcome" /\ ~awaitingResetWelcome'
         \/ Head(down).type # "welcome" /\ awaitingResetWelcome' = awaitingResetWelcome,
         NEW i \in Nat \ {0}
  PROVE  Counts(i)' <=> Counts(i + 1)
<1>1. PICK d : d = Tail(down)
  OBVIOUS
<1>2. /\ down \in Seq(DownMessage) /\ Len(down) \in Nat \ {0} /\ Head(down) = down[1]
      /\ \A k, type : At(d, k, type) <=> k \in Nat \ {0} /\ At(down, k + 1, type)
  BY <1>1, TailAt, AtTail DEF TypeOK
<1>3. At(d, i, "sync") <=> At(down, i + 1, "sync")
  BY <1>2
<1>4. (i + 1) - 1 = i /\ 1 \in 1 .. i
  OBVIOUS
<1>5. CASE Head(down).type = "welcome" /\ ~awaitingResetWelcome'
  <2>1. 1 \in 1 .. Len(down)
    BY <1>2
  <2>2. At(down, 1, "welcome")
    BY <1>2, <1>5, <2>1 DEF At
  <2> QED
    BY <1>1, <1>3, <1>4, <1>5, <2>2 DEF Counts
<1>6. CASE Head(down).type # "welcome" /\ awaitingResetWelcome' = awaitingResetWelcome
  <2>1. ~ At(down, 1, "welcome")
    BY <1>2, <1>6 DEF At
  <2>2. ASSUME NEW j \in 1 .. i - 1, At(d, j, "welcome")
        PROVE  \E k \in 1 .. (i + 1) - 1 : At(down, k, "welcome")
    <3>1. j + 1 \in 1 .. (i + 1) - 1
      OBVIOUS
    <3> QED
      BY <1>2, <2>2, <3>1
  <2>3. ASSUME NEW j \in 1 .. (i + 1) - 1, At(down, j, "welcome")
        PROVE  \E k \in 1 .. i - 1 : At(d, k, "welcome")
    <3>1. j # 1
      BY <2>1, <2>3
    <3>2. PICK k : k = j - 1
      OBVIOUS
    <3>3. k \in 1 .. i - 1 /\ k \in Nat \ {0} /\ k + 1 = j
      BY <3>1, <3>2
    <3> QED
      BY <1>2, <2>3, <3>3
  <2> QED
    BY <1>1, <1>3, <1>6, <2>2, <2>3 DEF Counts
<1> QED
  BY <1>5, <1>6

LEMMA CountsMore ==
  ASSUME awaitingResetWelcome' = awaitingResetWelcome,
         Len(down) \in Nat, Len(down') \in Nat, Len(down) <= Len(down'),
         \A k \in 1 .. Len(down) : down'[k] = down[k]
  PROVE  \A i \in 1 .. Len(down) : Counts(i)' <=> Counts(i)
<1>1. PICK f : f = down'
  OBVIOUS
<1>2. /\ \A k \in 1 .. Len(down) : k \in 1 .. Len(f) /\ f[k] = down[k]
      /\ \A i \in 1 .. Len(down) : \A j \in 1 .. i - 1 : j \in 1 .. Len(down)
  BY <1>1
<1>3. \A k \in 1 .. Len(down) : \A type : At(f, k, type) <=> At(down, k, type)
  BY <1>2 DEF At
<1> QED
  BY <1>1, <1>2, <1>3 DEF Counts

(* What the store has after a message, but for the reset.                  *)
LEMMA StoreKnows ==
  ASSUME TypeOK, NewsInv, Receive, NEW m, m = Head(down),
         ~ (m.type = "welcome" /\ m.serverSeq < checkpoint),
         NEW r \in Record, NoNewer(store[r], rows[r])
  PROVE  /\ NoNewer(store'[r], rows[r])
         /\ store[r] = rows[r] => store'[r] = rows[r]
         /\ Heard(1, r) => store'[r] = rows[r]
<1>1. /\ down \in Seq(DownMessage) /\ down # <<>>
      /\ store[r] \in Row /\ rows[r] \in Row
  BY DEF TypeOK, Receive
<1>2. 1 \in 1 .. Len(down) /\ m = down[1] /\ m \in DownMessage
  BY <1>1, TailAt
<1>3. CASE m.type = "welcome" \/ (m.type = "sync" /\ awaitingResetWelcome)
  <2>1. store' = store
    BY <1>3, StoreTakes
  <2>2. ASSUME Heard(1, r)
        PROVE  FALSE
    <3>1. m.type = "sync" /\ awaitingResetWelcome
      BY <1>2, <1>3, <2>2 DEF Heard, Brings
    <3>2. \A j : j \notin 1 .. 1 - 1
      OBVIOUS
    <3>3. ~ Counts(1)
      BY <3>1, <3>2 DEF Counts
    <3> QED
      BY <1>2, <2>2, <3>1, <3>3 DEF Heard
  <2> QED
    BY <2>1, <2>2
<1>4. CASE m.type # "welcome" /\ ~ (m.type = "sync" /\ awaitingResetWelcome)
  <2>1. /\ store'[r] = store[r] \/ \E row \in Row : Brings(m, r, row)
        /\ \A row \in Row : Brings(m, r, row) => store'[r] = Takes(store[r], row)
    BY <1>4, StoreTakes
  <2>2. \A row \in Row : Brings(m, r, row) => NoNewer(row, rows[r])
    BY <1>2 DEF NewsInv
  <2>3. \A row \in Row : row.seq \in Nat
    BY BoundsAssumption DEF Row
  <2>4. ASSUME NEW row \in Row, NoNewer(row, rows[r])
        PROVE  /\ NoNewer(Takes(store[r], row), rows[r])
               /\ store[r] = rows[r] => Takes(store[r], row) = rows[r]
    BY <1>1, <2>3, <2>4 DEF NoNewer, Takes
  <2>5. Takes(store[r], rows[r]) = rows[r]
    BY <1>1, <2>3 DEF NoNewer, Takes
  <2>6. Heard(1, r) => store'[r] = rows[r]
    BY <1>1, <1>2, <2>1, <2>5 DEF Heard
  <2> QED
    BY <2>1, <2>2, <2>4, <2>6
<1> QED
  BY <1>3, <1>4

LEMMA ReachedTail ==
  ASSUME TypeOK, NewsInv, Receive,
         ~ (Head(down).type = "welcome" /\ Head(down).serverSeq < checkpoint),
         NEW r \in Record, NoNewer(store[r], rows[r]), NEW n \in Nat, Reached(n + 1, r)
  PROVE  Reached(n, r)'
<1>1. PICK m, d : m = Head(down) /\ d = Tail(down)
  OBVIOUS
<1>2. down \in Seq(DownMessage) /\ down # <<>> /\ down' = d /\ rows' = rows
  BY <1>1, Received DEF TypeOK
<1>3. CASE store[r] = rows[r] \/ Heard(1, r)
  BY <1>1, <1>2, <1>3, StoreKnows DEF Reached
<1>4. ASSUME NEW i \in 1 .. n + 1, Heard(i, r), i # 1
      PROVE  Reached(n, r)'
  <2>1. PICK k : k = i - 1
    OBVIOUS
  <2>2. k \in 1 .. n /\ k \in Nat \ {0} /\ k + 1 = i
    BY <1>4, <2>1
  <2>3. /\ Len(d) = Len(down) - 1 /\ Len(down) \in Nat
        /\ \A x \in 1 .. Len(d) : d[x] = down[x + 1]
    BY <1>1, <1>2, TailAt
  <2>4. i \in 1 .. Len(down) /\ Brings(down[i], r, rows[r])
    BY <1>4 DEF Heard
  <2>5. k \in 1 .. Len(d)
    BY <2>2, <2>3, <2>4
  <2>6. d[k] = down[i]
    BY <2>2, <2>3, <2>5
  <2>7. \/ Head(down).type = "welcome" /\ ~awaitingResetWelcome'
        \/ Head(down).type # "welcome" /\ awaitingResetWelcome' = awaitingResetWelcome
    BY <1>1, Received
  <2>8. Counts(k)' <=> Counts(i)
    BY <1>1, <1>2, <2>2, <2>7, CountsTail
  <2>9. d[k].type = "sync" => Counts(k)'
    BY <1>4, <2>6, <2>8 DEF Heard
  <2>10. Heard(k, r)'
    BY <1>2, <2>4, <2>5, <2>6, <2>9 DEF Heard
  <2> QED
    BY <2>2, <2>10 DEF Reached
<1> QED
  BY <1>3, <1>4 DEF Reached

LEMMA ReachedMore ==
  ASSUME awaitingResetWelcome' = awaitingResetWelcome, store' = store,
         Len(down) \in Nat, Len(down') \in Nat, Len(down) <= Len(down'),
         \A k \in 1 .. Len(down) : down'[k] = down[k],
         NEW r \in Record, rows'[r] = rows[r], NEW n \in 0 .. Len(down), Reached(n, r)
  PROVE  Reached(n, r)'
<1>1. \A i \in 1 .. Len(down) : Counts(i)' <=> Counts(i)
  BY CountsMore
<1>2. PICK f : f = down'
  OBVIOUS
<1>3. \A i \in 1 .. n : i \in 1 .. Len(down) /\ i \in 1 .. Len(f)
  BY <1>2
<1>4. ASSUME NEW i \in 1 .. n, Heard(i, r)
      PROVE  Heard(i, r)'
  <2>1. /\ i \in 1 .. Len(down) /\ i \in 1 .. Len(f) /\ f[i] = down[i]
        /\ Brings(down[i], r, rows[r])
        /\ down[i].type = "sync" => Counts(i)
    BY <1>2, <1>3, <1>4 DEF Heard
  <2>2. down[i].type = "sync" => Counts(i)'
    BY <1>1, <2>1
  <2> QED
    BY <1>2, <2>1, <2>2 DEF Heard
<1> QED
  BY <1>4 DEF Reached

LEMMA ResetStore ==
  ASSUME Receive, NEW m, m = Head(down), m.type = "welcome", m.serverSeq < checkpoint
  PROVE  store' = [r \in Record |-> Nothing]
BY DEF Receive, OnWelcome, OnSync, OnChange, OnAck

LEMMA HonestReceive ==
  ASSUME TypeOK, RoundInv, TableInv, NewsInv, ForgottenInv, HonestInv, Receive
  PROVE  HonestInv'
<1> SUFFICES ASSUME ~forgotten' PROVE HonestInv'
  BY DEF HonestInv
<1>1. PICK m, d : m = Head(down) /\ d = Tail(down)
  OBVIOUS
<1>2. /\ rows' = rows /\ open /\ open' /\ down # <<>> /\ down' = d
      /\ down \in Seq(DownMessage) /\ rows \in [Record -> Row]
      /\ savedCheckpoint \in 0 .. MaxSeq /\ checkpoint \in 0 .. MaxSeq
  BY <1>1, Received DEF TypeOK
<1>3. /\ Len(down) \in Nat \ {0} /\ m = down[1] /\ m \in DownMessage /\ Len(d) = Len(down) - 1
      /\ \A k \in 1 .. Len(d) : k + 1 \in 1 .. Len(down) /\ d[k] = down[k + 1]
  BY <1>1, <1>2, TailAt
<1>4. 1 \in 1 .. Len(down) /\ Len(d) \in Nat /\ Len(d) + 1 = Len(down)
  BY <1>3
<1>5. \A i, type : At(d, i, type) => i \in Nat \ {0} /\ At(down, i + 1, type)
  BY <1>1, <1>2, AtTail
<1>6. CASE m.type = "welcome" /\ m.serverSeq < checkpoint
  <2>1. At(down, 1, "welcome")
    BY <1>3, <1>4, <1>6 DEF At
  <2>2. forgotten
    BY <1>3, <1>6, <2>1 DEF HonestInv
  <2>3. ASSUME NEW i, At(d, i, "welcome")
        PROVE  FALSE
    <3>1. i \in Nat \ {0} /\ At(down, i + 1, "welcome")
      BY <1>5, <2>3
    <3>2. i + 1 = 1
      BY <2>1, <3>1 DEF RoundInv, OneRound
    <3> QED
      BY <3>1, <3>2
  <2>4. store' = [r \in Record |-> Nothing]
    BY <1>1, <1>6, ResetStore
  <2>5. /\ checkpoint' = 0 /\ savedCheckpoint' = 0 /\ awaitingResetWelcome'
        /\ \E i : At(up', i, "hello")
    BY <1>1, <1>6, Received
  <2>6. \A r \in Record : NoNewer(Nothing, rows[r])
    <3>1. \A r \in Record : rows[r].seq \in Nat
      BY <1>2, Highest
    <3> QED
      BY <3>1 DEF NoNewer, Nothing, TableInv
  <2>7. 0 <= HighestSeq(rows) /\ \A n : n \notin 1 .. 0
    BY <1>2, Highest
  <2>8. \A i : ~ Counts(i)'
    BY <1>2, <2>3, <2>5 DEF Counts
  <2>9. LastPages'
    BY <2>8 DEF LastPages
  <2> QED
    BY <1>2, <2>3, <2>4, <2>5, <2>6, <2>7, <2>9 DEF HonestInv
<1>7. CASE ~ (m.type = "welcome" /\ m.serverSeq < checkpoint)
  <2>1. ~forgotten
    <3> SUFFICES ASSUME forgotten PROVE FALSE
      OBVIOUS
    <3>1. m.type \in {"change", "ack"}
      BY <1>1, <1>7, WhileForgotten
    <3> QED
      BY <1>1, <3>1, Received
  <2>2. /\ \A r \in Record : NoNewer(store[r], rows[r])
        /\ savedCheckpoint <= HighestSeq(rows)
        /\ \A i : At(down, i, "welcome") => ~ down[i].serverSeq < checkpoint
        /\ \A r \in Record : rows[r].seq \in 1 .. savedCheckpoint => store[r] = rows[r]
        /\ LastPages
        /\ (\E i : At(up, i, "hello")) \/ \A r \in Record : Reached(Len(down), r)
    BY <1>2, <2>1 DEF HonestInv
  <2>3. \A r \in Record : /\ NoNewer(store'[r], rows[r])
                          /\ store[r] = rows[r] => store'[r] = rows[r]
    BY <1>1, <1>7, <2>2, StoreKnows
  <2>4. ASSUME NEW r \in Record, NEW n \in Nat, Reached(n + 1, r)
        PROVE  Reached(n, r)'
    BY <1>1, <1>7, <2>2, <2>4, ReachedTail
  <2>5. \/ m.type = "welcome" /\ ~awaitingResetWelcome'
        \/ m.type # "welcome" /\ awaitingResetWelcome' = awaitingResetWelcome
    BY <1>1, <1>7, Received
  <2>6. \A i \in Nat \ {0} : Counts(i)' <=> Counts(i + 1)
    BY <1>1, <1>2, <2>5, CountsTail
  <2>7. LastPages'
    <3> SUFFICES ASSUME NEW i, Counts(i)', d[i].complete,
                        NEW r \in Record, rows[r].seq \in 1 .. d[i].serverSeq
                 PROVE  Reached(i, r)'
      BY <1>2 DEF LastPages
    <3>1. At(d, i, "sync")
      BY <1>2 DEF Counts
    <3>2. i \in Nat \ {0} /\ i \in 1 .. Len(d)
      BY <1>5, <3>1 DEF At
    <3>3. Counts(i + 1) /\ d[i] = down[i + 1]
      BY <1>3, <2>6, <3>2
    <3>4. Reached(i + 1, r)
      BY <2>2, <3>3 DEF LastPages
    <3> QED
      BY <2>4, <3>2, <3>4
  <2>8. HelloKept
    BY <1>1, <1>7, Received
  <2>9. (\E i : At(up', i, "hello")) \/ \A r \in Record : Reached(Len(d), r)'
    BY <1>4, <2>2, <2>4, <2>8 DEF HelloKept
  <2>10. /\ savedCheckpoint' <= HighestSeq(rows)
         /\ \A i : At(d, i, "welcome") => ~ d[i].serverSeq < checkpoint'
         /\ \A r \in Record : rows[r].seq \in 1 .. savedCheckpoint' => store'[r] = rows[r]
    <3>1. CASE UNCHANGED <<checkpoint, savedCheckpoint>>
      <4>1. \A i : At(d, i, "welcome") => d[i] = down[i + 1] /\ At(down, i + 1, "welcome")
        BY <1>3, <1>5 DEF At
      <4> QED
        BY <2>2, <2>3, <3>1, <4>1
    <3>2. CASE /\ m.type = "sync" /\ ~awaitingResetWelcome /\ m.complete
               /\ checkpoint' = m.serverSeq /\ savedCheckpoint' = m.serverSeq
      <4>1. At(down, 1, "sync") /\ m.serverSeq <= HighestSeq(rows)
        BY <1>3, <1>4, <3>2 DEF At, NewsInv
      <4>2. Counts(1)
        BY <3>2, <4>1 DEF Counts
      <4>3. ASSUME NEW i, At(d, i, "welcome")
            PROVE  FALSE
        <5>1. i \in Nat \ {0} /\ At(down, i + 1, "welcome")
          BY <1>5, <4>3
        <5>2. i + 1 < 1
          BY <3>2, <4>1, <5>1 DEF RoundInv, InOrder
        <5> QED
          BY <5>1, <5>2
      <4>4. ASSUME NEW r \in Record, rows[r].seq \in 1 .. m.serverSeq
            PROVE  store'[r] = rows[r]
        <5>1. Reached(1, r)
          BY <1>3, <2>2, <3>2, <4>2, <4>4 DEF LastPages
        <5>2. Reached(0, r)'
          <6>1. Reached(0 + 1, r)
            BY <5>1
          <6> QED
            BY <2>4, <6>1
        <5>3. \A i : i \notin 1 .. 0
          OBVIOUS
        <5> QED
          BY <1>2, <5>2, <5>3 DEF Reached
      <4> QED
        BY <3>2, <4>1, <4>3, <4>4
    <3> QED
      BY <1>1, <1>7, <3>1, <3>2, Received
  <2> QED
    BY <1>2, <2>3, <2>7, <2>9, <2>10 DEF HonestInv
<1> QED
  BY <1>6, <1>7

(* A hello answered: what the store lacks is on the pages.                 *)
LEMMA HonestHello ==
  ASSUME TypeOK, RoundInv, HonestInv, ServeHello
  PROVE  HonestInv'
<1> SUFFICES ASSUME ~forgotten' PROVE HonestInv'
  BY DEF HonestInv
<1>1. PICK p, f \in Seq(DownMessage) :
        /\ up # <<>> /\ Head(up).type = "hello" /\ open
        /\ Bootstrap(p, Head(up).checkpoint)
        /\ down' = f /\ Follows(down, Welcome(HighestSeq(rows)), p, f)
        /\ UNCHANGED <<rows, open, engine, local, history>>
  BY HelloServed
<1>2. /\ ~forgotten /\ open' /\ rows' = rows /\ store' = store
      /\ UNCHANGED <<checkpoint, savedCheckpoint, awaitingResetWelcome>>
  BY <1>1 DEF engine, local, history
<1>3. /\ \A r \in Record : NoNewer(store[r], rows[r])
      /\ savedCheckpoint <= HighestSeq(rows)
      /\ \A i : At(down, i, "welcome") => ~ down[i].serverSeq < checkpoint
      /\ \A r \in Record : rows[r].seq \in 1 .. savedCheckpoint => store[r] = rows[r]
      /\ LastPages
  BY <1>2 DEF HonestInv
<1>4. /\ rows \in [Record -> Row] /\ store \in [Record -> Row]
      /\ savedCheckpoint \in 0 .. MaxSeq /\ MaxSeq \in Nat
      /\ HighestSeq(rows) \in Nat
      /\ \A r \in Record : rows[r].seq \in Nat /\ store[r].seq \in Nat
                           /\ rows[r].seq <= HighestSeq(rows)
  BY Highest, BoundsAssumption DEF TypeOK
<1>5. Head(up).checkpoint = checkpoint /\ checkpoint \in {0, savedCheckpoint}
  <2>1. up \in Seq(UpMessage)
    BY DEF TypeOK
  <2>2. Head(up) = up[1] /\ Len(up) \in Nat \ {0}
    BY <1>1, <2>1, TailAt
  <2>3. At(up, 1, "hello")
    BY <1>1, <2>2 DEF At
  <2> QED
    BY <2>2, <2>3 DEF RoundInv, OneRound
<1>6. /\ Len(f) = Len(down) + 1 + Len(p) /\ Len(down) \in Nat /\ Len(p) \in Nat \ {0}
      /\ \A i \in 1 .. Len(down) : f[i] = down[i]
  BY <1>1 DEF Follows, Bootstrap
<1>7. /\ Len(down) <= Len(f) /\ Len(f) \in Nat
      /\ \A k \in 1 .. Len(p) : /\ Len(down) + 1 + k \in 1 .. Len(f)
                                /\ Len(down) + 1 \in 1 .. (Len(down) + 1 + k) - 1
  BY <1>6
<1>8. /\ \A k \in 1 .. Len(p) : f[Len(down) + 1 + k] = p[k]
      /\ f[Len(down) + 1].type = "welcome" /\ f[Len(down) + 1].serverSeq = HighestSeq(rows)
      /\ At(f, Len(down) + 1, "welcome")
  <2>1. \A k \in 1 .. Len(p) : p[k].type = "sync"
    BY <1>1 DEF Bootstrap
  <2>2. /\ Welcome(HighestSeq(rows)).type = "welcome"
        /\ Welcome(HighestSeq(rows)).serverSeq = HighestSeq(rows)
    BY DEF Welcome
  <2>3. At(f, Len(down) + 1, "welcome")
    BY <1>1, <2>1, <2>2, Greeted
  <2> QED
    BY <1>1, <2>2, <2>3 DEF Follows
<1>9. \A i \in 1 .. Len(f) :
        \/ i \in 1 .. Len(down) /\ f[i] = down[i]
        \/ i = Len(down) + 1 /\ f[i] = Welcome(HighestSeq(rows))
        \/ \E k \in 1 .. Len(p) : i = Len(down) + 1 + k /\ f[i] = p[k]
  BY <1>1, FollowedBy
<1>10. PICK z : z = Len(down)
  OBVIOUS
<1>11. ASSUME NEW k \in 1 .. Len(p)
       PROVE  p[k].type = "sync" /\ Counts(z + 1 + k)'
  <2>1. p[k].type = "sync"
    BY <1>1 DEF Bootstrap
  <2>2. At(f, Len(down) + 1 + k, "sync")
    BY <1>7, <1>8, <2>1 DEF At
  <2> QED
    BY <1>1, <1>7, <1>8, <1>10, <2>1, <2>2 DEF Counts
<1>12. ASSUME NEW r \in Record
       PROVE  Reached(Len(f), r)'
  <2>1. CASE rows[r].seq \in 1 .. checkpoint
    <3>1. \A n : n \notin 1 .. 0
      OBVIOUS
    <3>2. store[r] = rows[r]
      BY <1>3, <1>5, <2>1, <3>1
    <3> QED
      BY <1>2, <3>2 DEF Reached
  <2>2. CASE rows[r].seq = 0 /\ ~ rows[r].seq > checkpoint
    <3>1. store[r] = rows[r]
      BY <1>3, <1>4, <2>2 DEF NoNewer
    <3> QED
      BY <1>2, <3>1 DEF Reached
  <2>3. CASE rows[r].seq > checkpoint
    <3>1. PICK k \in 1 .. Len(p) : r \in DOMAIN p[k].records
      BY <1>1, <1>5, <2>3 DEF Bootstrap
    <3>2. Brings(p[k], r, rows[r])
      BY <1>1, <3>1 DEF Bootstrap, Brings
    <3>3. Heard(z + 1 + k, r)'
      BY <1>1, <1>2, <1>7, <1>8, <1>11, <1>10, <3>2 DEF Heard
    <3> QED
      BY <1>7, <1>10, <3>3 DEF Reached
  <2>4. rows[r].seq \in Nat /\ checkpoint \in Nat
    BY <1>4, <1>5
  <2> QED
    BY <2>1, <2>2, <2>3, <2>4
<1>13. \A i \in 1 .. Len(down) : Counts(i)' <=> Counts(i)
  BY <1>1, <1>2, <1>6, <1>7, CountsMore
<1>14. LastPages'
  <2> SUFFICES ASSUME NEW i, Counts(i)', f[i].complete,
                      NEW r \in Record, rows[r].seq \in 1 .. f[i].serverSeq
               PROVE  Reached(i, r)'
    BY <1>1, <1>2 DEF LastPages
  <2>1. i \in 1 .. Len(f) /\ f[i].type = "sync"
    BY <1>1 DEF Counts, At
  <2>2. CASE i \in 1 .. Len(down) /\ f[i] = down[i]
    <3>1. Counts(i)
      BY <1>13, <2>2
    <3>2. Reached(i, r)
      BY <1>3, <2>2, <3>1 DEF LastPages
    <3>3. i \in 0 .. Len(down)
      BY <2>2
    <3> QED
      BY <1>1, <1>2, <1>6, <1>7, <3>2, <3>3, ReachedMore
  <2>3. CASE f[i] = Welcome(HighestSeq(rows))
    BY <2>1, <2>3 DEF Welcome
  <2>4. ASSUME NEW k \in 1 .. Len(p), i = Len(down) + 1 + k, f[i] = p[k]
        PROVE  Reached(i, r)'
    <3>1. k = Len(p)
      BY <1>1, <2>4 DEF Bootstrap
    <3>2. i = Len(f)
      BY <1>6, <2>4, <3>1
    <3> QED
      BY <1>12, <3>2
  <2> QED
    BY <1>9, <2>1, <2>2, <2>3, <2>4
<1>15. ASSUME NEW i, At(f, i, "welcome")
       PROVE  ~ f[i].serverSeq < checkpoint
  <2>1. i \in 1 .. Len(f)
    BY <1>15 DEF At
  <2>2. CASE i \in 1 .. Len(down) /\ f[i] = down[i]
    <3>1. At(down, i, "welcome")
      BY <1>15, <2>2 DEF At
    <3> QED
      BY <1>3, <2>2, <3>1
  <2>3. CASE i = Len(down) + 1
    BY <1>3, <1>4, <1>5, <1>8, <2>3
  <2>4. ASSUME NEW k \in 1 .. Len(p), f[i] = p[k]
        PROVE  FALSE
    BY <1>11, <1>15, <2>4 DEF At
  <2> QED
    BY <1>9, <2>1, <2>2, <2>3, <2>4
<1> QED
  BY <1>1, <1>2, <1>3, <1>12, <1>14, <1>15 DEF HonestInv

(* A write: a record that changes is told to an open socket.               *)
LEMMA HonestWrite ==
  ASSUME TypeOK, ClientInv, NewsInv, HonestInv,
         ServePush \/ ServeStray \/ \E r \in Record : ServerWrite(r)
  PROVE  HonestInv'
<1> SUFFICES ASSUME ~forgotten' PROVE HonestInv'
  BY DEF HonestInv
<1>1. PICK t \in Seq(DownMessage) :
        /\ Told(t)
        /\ (open /\ Appends(down, t, down')) \/ (~open /\ Len(down') = 0)
        /\ (\E i : At(up, i, "hello")) => \E i : At(up', i, "hello")
  BY ToldDown
<1>2. PICK table, f : table = rows' /\ f = down'
  OBVIOUS
<1>3. /\ ~forgotten /\ open' = open /\ store' = store
      /\ UNCHANGED <<checkpoint, savedCheckpoint, awaitingResetWelcome>>
  BY <1>1 DEF Told, engine, local, history
<1>4. /\ \A r \in Record : NoNewer(store[r], rows[r])
      /\ savedCheckpoint <= HighestSeq(rows)
      /\ \A i : At(down, i, "welcome") => ~ down[i].serverSeq < checkpoint
      /\ \A r \in Record : rows[r].seq \in 1 .. savedCheckpoint => store[r] = rows[r]
      /\ LastPages
      /\ open => (\E i : At(up, i, "hello")) \/ \A r \in Record : Reached(Len(down), r)
  BY <1>3 DEF HonestInv
<1>5. /\ rows \in [Record -> Row] /\ store \in [Record -> Row] /\ table \in [Record -> Row]
      /\ \A r \in Record : NoNewer(rows[r], table[r])
      /\ \A r \in Record : table[r] = rows[r] \/ table[r].seq > HighestSeq(rows)
      /\ \A i \in 1 .. Len(t) : t[i].type \in {"change", "ack"}
      /\ \A r \in Record : table[r] = rows[r] \/ \E i \in 1 .. Len(t) : Brings(t[i], r, table[r])
  BY <1>1, <1>2 DEF TypeOK, Told
<1>6. /\ HighestSeq(rows) <= HighestSeq(table)
      /\ HighestSeq(rows) \in Nat /\ HighestSeq(table) \in Nat
      /\ \A r \in Record : table[r].seq \in Nat
      /\ savedCheckpoint \in 0 .. MaxSeq /\ MaxSeq \in Nat
  BY <1>5, HighestGrows, Highest, BoundsAssumption DEF TypeOK
<1>7. \A r \in Record : NoNewer(store[r], table[r])
  BY <1>4, <1>5, NoNewerOrder
<1>8. savedCheckpoint <= HighestSeq(table)
  BY <1>4, <1>6
<1>9. \A r \in Record : table[r].seq \in 1 .. savedCheckpoint => store[r] = table[r]
  BY <1>4, <1>5, <1>6
<1>10. CASE ~open
  <2>1. Len(f) = 0 /\ \A i : i \notin 1 .. 0
    BY <1>1, <1>2, <1>10
  <2>2. \A i, type : ~ At(f, i, type)
    BY <2>1 DEF At
  <2>3. LastPages'
    BY <1>2, <2>2 DEF LastPages, Counts
  <2> QED
    BY <1>2, <1>3, <1>7, <1>8, <1>9, <1>10, <2>2, <2>3 DEF HonestInv
<1>11. CASE open
  <2>1. Appends(down, t, f)
    BY <1>1, <1>2, <1>11
  <2>2. /\ Len(f) = Len(down) + Len(t) /\ Len(down) \in Nat /\ Len(t) \in Nat
        /\ \A i \in 1 .. Len(down) : f[i] = down[i]
        /\ \A i \in 1 .. Len(t) : f[Len(down) + i] = t[i]
    BY <2>1 DEF Appends
  <2>3. /\ Len(down) <= Len(f) /\ Len(f) \in Nat /\ Len(down) \in 0 .. Len(down)
        /\ \A i \in 1 .. Len(t) : Len(down) + i \in 1 .. Len(f)
        /\ \A i \in 1 .. Len(down) : i \in 1 .. Len(f)
    BY <2>2
  <2>4. ASSUME NEW i, NEW type \in {"welcome", "sync"}, At(f, i, type)
        PROVE  i \in 1 .. Len(down) /\ f[i] = down[i] /\ At(down, i, type)
    <3>1. i \in 1 .. Len(f) /\ f[i].type = type
      BY <2>4 DEF At
    <3>2. ~ \E k \in 1 .. Len(t) : f[i] = t[k]
      BY <1>5, <2>4, <3>1
    <3> QED
      BY <2>1, <3>1, <3>2, AppendedTo DEF At
  <2>5. \A i \in 1 .. Len(down) : Counts(i)' <=> Counts(i)
    BY <1>2, <1>3, <2>2, <2>3, CountsMore
  <2>6. ASSUME NEW r \in Record, table[r] = rows[r], NEW n \in 0 .. Len(down), Reached(n, r)
        PROVE  Reached(n, r)'
    BY <1>2, <1>3, <2>2, <2>3, <2>6, ReachedMore
  <2>7. LastPages'
    <3> SUFFICES ASSUME NEW i, Counts(i)', f[i].complete,
                        NEW r \in Record, table[r].seq \in 1 .. f[i].serverSeq
                 PROVE  Reached(i, r)'
      BY <1>2 DEF LastPages
    <3>1. At(f, i, "sync")
      BY <1>2 DEF Counts
    <3>2. i \in 1 .. Len(down) /\ f[i] = down[i] /\ At(down, i, "sync")
      BY <2>4, <3>1
    <3>3. Counts(i)
      BY <2>5, <3>2
    <3>4. down[i].serverSeq <= HighestSeq(rows)
      BY <3>2 DEF NewsInv, At
    <3>5. down[i].serverSeq \in Nat
      <4>1. down[i] \in DownMessage
        BY <3>2, LenProperties DEF TypeOK
      <4>2. down[i].serverSeq \in 0 .. MaxSeq
        BY <3>2, <4>1, DownMessages DEF At
      <4> QED
        BY <1>6, <4>2
    <3>6. table[r] = rows[r]
      BY <1>5, <1>6, <3>2, <3>4, <3>5
    <3>7. Reached(i, r)
      BY <1>4, <3>2, <3>3, <3>6 DEF LastPages
    <3>8. i \in 0 .. Len(down)
      BY <3>2
    <3> QED
      BY <2>6, <3>6, <3>7, <3>8
  <2>8. ASSUME NEW r \in Record, Reached(Len(down), r) \/ table[r] # rows[r]
        PROVE  Reached(Len(f), r)'
    <3>1. CASE table[r] # rows[r]
      <4>1. PICK i \in 1 .. Len(t) : Brings(t[i], r, table[r])
        BY <1>5, <3>1
      <4>2. f[Len(down) + i] = t[i] /\ t[i].type # "sync" /\ Len(down) + i \in 1 .. Len(f)
        BY <1>5, <2>2, <2>3
      <4>3. PICK n : n = Len(down) + i
        OBVIOUS
      <4>4. Heard(n, r)'
        BY <1>2, <4>1, <4>2, <4>3 DEF Heard
      <4> QED
        BY <4>2, <4>3, <4>4 DEF Reached
    <3>2. CASE table[r] = rows[r] /\ Reached(Len(down), r)
      <4>1. PICK n : n = Len(down)
        OBVIOUS
      <4>2. Reached(n, r)'
        BY <2>3, <2>6, <3>2, <4>1
      <4>3. \A i \in 1 .. n : i \in 1 .. Len(f)
        BY <2>3, <4>1
      <4> QED
        BY <4>2, <4>3 DEF Reached
    <3> QED
      BY <2>8, <3>1, <3>2
  <2>9. (\E i : At(up', i, "hello")) \/ \A r \in Record : Reached(Len(f), r)'
    BY <1>1, <1>4, <1>11, <2>8
  <2>10. \A i : At(f, i, "welcome") => ~ f[i].serverSeq < checkpoint
    BY <1>4, <2>4
  <2> QED
    BY <1>2, <1>3, <1>7, <1>8, <1>9, <2>7, <2>9, <2>10 DEF HonestInv
<1> QED
  BY <1>10, <1>11

LEMMA HonestStep ==
  ASSUME TypeOK, ClientInv, RoundInv, TableInv, NewsInv, ForgottenInv, HonestInv, [Next]_vars
  PROVE  HonestInv'
<1>1. /\ rows \in [Record -> Row] /\ HighestSeq(rows) \in Nat
      /\ \A r \in Record : rows[r].seq \in Nat
  BY Highest DEF TypeOK
<1>2. ASSUME down' = <<>>
      PROVE  (\A i, type : ~ At(down', i, type)) /\ LastPages'
  <2>1. Len(down') = 0 /\ \A i : i \notin 1 .. 0
    BY <1>2
  <2>2. \A i, type : ~ At(down', i, type)
    BY <2>1 DEF At
  <2>3. LastPages'
    BY <2>2 DEF LastPages, Counts
  <2> QED
    BY <2>2, <2>3
<1>3. CASE Cut \/ Opened
  BY <1>2, <1>3 DEF Cut, Opened, Kept, HonestInv
<1>4. CASE Sent
  BY <1>4 DEF Sent, Kept, HelloKept, HonestInv, LastPages, Counts, Reached, Heard
<1>5. CASE Reload
  <2>1. /\ store' = [r \in Record |-> Nothing] /\ savedCheckpoint' = 0 /\ rows' = rows
        /\ open' = FALSE /\ down' = <<>>
    BY <1>5, DisconnectAt DEF Reload
  <2>2. \A r \in Record : NoNewer(Nothing, rows[r])
    BY <1>1 DEF NoNewer, Nothing, TableInv
  <2>3. 0 <= HighestSeq(rows) /\ \A n : n \notin 1 .. 0
    BY <1>1
  <2> QED
    BY <1>2, <2>1, <2>2, <2>3 DEF HonestInv
<1>6. ASSUME NEW t \in tasks, Loaded(t)
      PROVE  HonestInv'
  <2>1. ~open /\ down = <<>>
    BY <1>6 DEF ClientInv, TasksOK, Loaded
  <2>2. UNCHANGED <<rows, store, open, down, forgotten, savedCheckpoint>>
    BY <1>6 DEF Loaded, server, wire, history
  <2> QED
    BY <1>2, <2>1, <2>2 DEF HonestInv
<1>7. CASE ServerReset
  BY <1>7 DEF ServerReset, HonestInv
<1> QED
  BY <1>3, <1>4, <1>5, <1>6, <1>7, Kinds, HonestReceive, HonestHello, HonestWrite

-----------------------------------------------------------------------------
(* What is in flight is on its way; and the outbox is in flight once the   *)
(* hello is answered.                                                      *)
Coming(u, d, c) == \E i : Carries(u, i, c) \/ Answers(d, i, c)
ComingInv == open => \A c \in inFlight : Coming(up, down, c)

LEMMA Extended ==
  ASSUME NEW S, NEW s \in Seq(S), NEW t \in Seq(S), NEW c
  PROVE  /\ \A i : Carries(s, i, c) => Carries(s \o t, i, c)
         /\ \A i : Answers(s, i, c) => Answers(s \o t, i, c)
         /\ \A i : Carries(t, i, c) => Carries(s \o t, Len(s) + i, c)
         /\ \A i : Answers(t, i, c) => Answers(s \o t, Len(s) + i, c)
<1>1. /\ Len(s \o t) = Len(s) + Len(t) /\ Len(s) \in Nat /\ Len(t) \in Nat
      /\ \A k \in 1 .. Len(s) : (s \o t)[k] = s[k]
      /\ \A k \in 1 .. Len(t) : (s \o t)[Len(s) + k] = t[k]
  BY ConcatAt
<1>2. /\ \A k \in 1 .. Len(s) : k \in 1 .. Len(s \o t)
      /\ \A k \in 1 .. Len(t) : Len(s) + k \in 1 .. Len(s \o t)
  BY <1>1
<1> QED
  BY <1>1, <1>2 DEF Carries, Answers

LEMMA Advanced ==
  ASSUME NEW S, NEW s \in Seq(S), s # <<>>, NEW c, NEW i
  PROVE  /\ Carries(s, i, c) => \/ Head(s).type = "push" /\ c \in ToSet(Head(s).changes)
                                \/ \E k : Carries(Tail(s), k, c)
         /\ Answers(s, i, c) => \/ Head(s).type = "ack" /\ Head(s).change = c
                                \/ \E k : Answers(Tail(s), k, c)
<1>1. /\ Len(Tail(s)) = Len(s) - 1 /\ Len(s) \in Nat \ {0} /\ Head(s) = s[1]
      /\ \A k \in 1 .. Len(Tail(s)) : Tail(s)[k] = s[k + 1]
  BY TailAt
<1>2. CASE i = 1
  BY <1>1, <1>2 DEF Carries, Answers
<1>3. CASE i # 1 /\ i \in 1 .. Len(s)
  <2>1. PICK k : k = i - 1
    OBVIOUS
  <2>2. k \in 1 .. Len(Tail(s)) /\ k + 1 = i
    BY <1>1, <1>3, <2>1
  <2> QED
    BY <1>1, <2>2 DEF Carries, Answers
<1> QED
  BY <1>2, <1>3 DEF Carries, Answers

LEMMA FlushSends ==
  ASSUME TypeOK, NEW box \in Seq(Change), Flush(box, inFlight), open
  PROVE  /\ inFlight' = inFlight \cup ToSet(box)
         /\ \A c \in inFlight' : c \in inFlight \/ \E i : Carries(up', i, c)
         /\ \A c, i : Carries(up, i, c) => Carries(up', i, c)
<1>1. PICK w : w = Unsent(box, inFlight)
  OBVIOUS
<1>2. w \in Seq(Change) /\ \A c : c \in ToSet(w) <=> c \in ToSet(box) /\ c \notin inFlight
  BY <1>1, WithoutSeq DEF Unsent
<1>3. PICK t : t = Batches(w)
  OBVIOUS
<1>4. /\ t \in Seq(PushMessage)
      /\ \A i \in 1 .. Len(t) : t[i].type = "push"
      /\ \A c \in ToSet(w) : \E i \in 1 .. Len(t) : c \in ToSet(t[i].changes)
  BY <1>2, <1>3, BatchesAt
<1>5. t \in Seq(UpMessage) /\ up \in Seq(UpMessage)
  BY <1>4, MessageTypes, SeqMonotonic DEF TypeOK
<1>6. up' = up \o t /\ inFlight' = inFlight \cup ToSet(box)
  BY <1>1, <1>3 DEF Flush
<1>7. \A c \in ToSet(w) : \E i : Carries(t, i, c)
  BY <1>4 DEF Carries
<1>8. \A c \in ToSet(w) : \E i : Carries(up \o t, i, c)
  BY <1>5, <1>7, Extended
<1>9. \A c, i : Carries(up, i, c) => Carries(up \o t, i, c)
  BY <1>5, Extended
<1> QED
  BY <1>2, <1>6, <1>8, <1>9

LEMMA ComingReceive ==
  ASSUME TypeOK, ComingInv, Receive
  PROVE  ComingInv'
<1>1. PICK m, d : m = Head(down) /\ d = Tail(down)
  OBVIOUS
<1>2. /\ open /\ down \in Seq(DownMessage) /\ down # <<>> /\ down' = d
      /\ OnWelcome(m) \/ OnSync(m) \/ OnChange(m) \/ OnAck(m)
      /\ up \in Seq(UpMessage) /\ outbox \in Seq(Change)
  BY <1>1 DEF TypeOK, Receive
<1>3. \A c \in inFlight : Coming(up, down, c)
  BY <1>2 DEF ComingInv
<1>4. \A c, i : Answers(down, i, c) =>
                  (m.type = "ack" /\ m.change = c) \/ \E k : Answers(d, k, c)
  BY <1>1, <1>2, Advanced
<1>5. ASSUME inFlight' = inFlight, m.type # "ack",
             \A c, i : Carries(up, i, c) => Carries(up', i, c)
      PROVE  ComingInv'
  <2>1. \A c \in inFlight : Coming(up', d, c)
    BY <1>3, <1>4, <1>5 DEF Coming
  <2> QED
    BY <1>2, <1>5, <2>1 DEF ComingInv
<1>6. CASE OnWelcome(m)
  <2>1. m.type = "welcome" /\ inFlight' = inFlight /\ (up' = up \/ up' = Append(up, Hello(0)))
    BY <1>6 DEF OnWelcome
  <2>2. PICK h : h = Hello(0)
    OBVIOUS
  <2>3. h \in UpMessage /\ <<h>> \in Seq(UpMessage)
    BY <2>2, MessageTypes, BoundsAssumption
  <2>4. Append(up, h) = up \o <<h>>
    BY <1>2, <2>3, AppendIsConcat
  <2>5. \A c, i : Carries(up, i, c) => Carries(up \o <<h>>, i, c)
    BY <1>2, <2>3, Extended
  <2> QED
    BY <1>5, <2>1, <2>2, <2>4, <2>5
<1>7. CASE OnChange(m) \/ (OnSync(m) /\ UNCHANGED <<up, inFlight>>)
  BY <1>5, <1>7 DEF OnChange, OnSync
<1>8. CASE OnSync(m) /\ Flush(outbox, inFlight)
  <2>1. /\ \A c \in inFlight' : c \in inFlight \/ \E i : Carries(up', i, c)
        /\ \A c, i : Carries(up, i, c) => Carries(up', i, c)
    BY <1>2, <1>8, FlushSends
  <2>2. m.type = "sync"
    BY <1>8 DEF OnSync
  <2>3. \A c \in inFlight' : Coming(up', d, c)
    BY <1>3, <1>4, <2>1, <2>2 DEF Coming
  <2> QED
    BY <1>2, <2>3 DEF ComingInv
<1>9. CASE OnAck(m)
  <2>1. m.type = "ack" /\ up' = up /\ inFlight' = inFlight \ {m.change}
    BY <1>9 DEF OnAck
  <2>2. \A c \in inFlight' : Coming(up, d, c)
    BY <1>3, <1>4, <2>1 DEF Coming
  <2> QED
    BY <1>2, <2>1, <2>2 DEF ComingInv
<1>10. OnSync(m) => UNCHANGED <<up, inFlight>> \/ Flush(outbox, inFlight)
  BY DEF OnSync
<1> QED
  BY <1>2, <1>6, <1>7, <1>8, <1>9, <1>10

LEMMA ComingServed ==
  ASSUME TypeOK, ComingInv, open, NEW t \in Seq(DownMessage), down' = down \o t,
         inFlight' = inFlight,
         \/ up' = up
         \/ /\ up # <<>> /\ up' = Tail(up)
            /\ \A c : Head(up).type = "push" /\ c \in ToSet(Head(up).changes)
                        => \E i : Answers(t, i, c)
  PROVE  ComingInv'
<1>1. up \in Seq(UpMessage) /\ down \in Seq(DownMessage)
  BY DEF TypeOK
<1>2. \A c, i : Carries(up, i, c) => (\E k : Carries(up', k, c)) \/ \E k : Answers(t, k, c)
  <2>1. CASE up' = up
    BY <2>1
  <2>2. CASE /\ up # <<>> /\ up' = Tail(up)
             /\ \A c : Head(up).type = "push" /\ c \in ToSet(Head(up).changes)
                         => \E i : Answers(t, i, c)
    BY <1>1, <2>2, Advanced
  <2> QED
    BY <2>1, <2>2
<1>3. \A c, i : /\ Answers(down, i, c) => Answers(down \o t, i, c)
                /\ Answers(t, i, c) => Answers(down \o t, Len(down) + i, c)
  BY <1>1, Extended
<1>4. \A c \in inFlight : Coming(up, down, c)
  BY DEF ComingInv
<1>5. \A c \in inFlight : Coming(up', down', c)
  BY <1>2, <1>3, <1>4 DEF Coming
<1> QED
  BY <1>5 DEF ComingInv

LEMMA ComingStep ==
  ASSUME TypeOK, ClientInv, ComingInv, [Next]_vars
  PROVE  ComingInv'
<1>1. /\ up \in Seq(UpMessage) /\ down \in Seq(DownMessage) /\ outbox \in Seq(Change)
  BY DEF TypeOK
<1>2. CASE Start \/ Stop \/ SocketCloses \/ Reload
  <2>1. ~open'
    BY <1>2, DisconnectAt DEF Start, Stop, SocketCloses, Reload
  <2> QED
    BY <2>1 DEF ComingInv
<1>3. ASSUME UNCHANGED <<up, down, open, inFlight>>
      PROVE  ComingInv'
  BY <1>3 DEF ComingInv
<1>4. ASSUME NEW t \in tasks, ConnectOk(t)
      PROVE  ComingInv'
  <2>1. CASE Current(t)
    BY <1>4, <2>1 DEF ConnectOk, ComingInv
  <2>2. CASE ~Current(t)
    BY <1>3, <1>4, <2>2 DEF ConnectOk, wire
  <2> QED
    BY <2>1, <2>2
<1>5. ASSUME NEW c \in Change, Push(c)
      PROVE  ComingInv'
  <2>1. Flush(Append(outbox, c), inFlight) /\ down' = down /\ open' = open
    BY <1>5 DEF Push
  <2>2. Append(outbox, c) \in Seq(Change)
    BY <1>1, AppendAt
  <2>3. CASE open
    <3>1. /\ \A e \in inFlight' : e \in inFlight \/ \E i : Carries(up', i, e)
          /\ \A e, i : Carries(up, i, e) => Carries(up', i, e)
      BY <2>1, <2>2, <2>3, FlushSends
    <3>2. \A e \in inFlight : Coming(up, down, e)
      BY <2>3 DEF ComingInv
    <3>3. \A e \in inFlight' : Coming(up', down, e)
      BY <3>1, <3>2 DEF Coming
    <3> QED
      BY <2>1, <3>3 DEF ComingInv
  <2>4. CASE ~open
    BY <2>1, <2>4 DEF ComingInv
  <2> QED
    BY <2>3, <2>4
<1>6. CASE ServeHello
  <2>1. PICK w : w = <<Welcome(HighestSeq(rows))>>
    OBVIOUS
  <2>2. PICK p : p = Pages(Head(up).checkpoint)
    OBVIOUS
  <2>3. /\ open /\ up # <<>> /\ Head(up).type = "hello" /\ up' = Tail(up)
        /\ inFlight' = inFlight /\ down' = (down \o w) \o p
    BY <1>6, <2>1, <2>2 DEF ServeHello, engine
  <2>4. w \in Seq(DownMessage)
    <3>1. HighestSeq(rows) \in 0 .. MaxSeq
      BY Highest DEF TypeOK
    <3> QED
      BY <2>1, <3>1, MessageTypes
  <2>5. p \in Seq(DownMessage)
    <3>1. Head(up).checkpoint \in Nat
      BY <1>1, <2>3, TailAt, UpMessages
    <3> QED
      BY <2>2, <3>1, PagesAt
  <2>6. w \o p \in Seq(DownMessage) /\ (down \o w) \o p = down \o (w \o p)
    BY <1>1, <2>4, <2>5, ConcatProperties, ConcatAssociative
  <2> QED
    BY <2>3, <2>6, ComingServed
<1>7. CASE ServePush
  <2>1. /\ open /\ up # <<>> /\ Head(up).type = "push" /\ up' = Tail(up) /\ inFlight' = inFlight
    BY <1>7 DEF ServePush, engine
  <2>2. PICK s \in Results(Head(up).changes) : down' = down \o s.acks
    BY <1>7 DEF ServePush
  <2>3. PICK cs : cs = Head(up).changes
    OBVIOUS
  <2>4. cs \in Seq(Change)
    BY <1>1, <2>1, <2>3, TailAt, UpMessages
  <2>5. /\ s.acks \in Seq(DownMessage) /\ Len(s.acks) = Len(cs)
        /\ \A i \in 1 .. Len(s.acks) : s.acks[i].type = "ack" /\ s.acks[i].change = cs[i]
    BY <2>2, <2>3, <2>4, PushResult
  <2>6. \A c \in ToSet(cs) : \E i \in 1 .. Len(cs) : cs[i] = c
    BY <2>4, InSet
  <2>7. \A c \in ToSet(cs) : \E i : Answers(s.acks, i, c)
    BY <2>5, <2>6 DEF Answers
  <2> QED
    BY <2>1, <2>2, <2>3, <2>5, <2>7, ComingServed
<1>8. CASE ServeStray \/ \E r \in Record : ServerWrite(r)
  <2>1. PICK t \in Seq(DownMessage) : /\ open => down' = down \o t
                                      /\ ~open => down' = down
                                      /\ UNCHANGED <<open, engine>>
    BY <1>8, TableMoves DEF Told
  <2>2. up' = up
    BY <1>8 DEF ServeStray, ServerWrite
  <2>3. CASE open
    BY <2>1, <2>2, <2>3, ComingServed DEF engine
  <2>4. CASE ~open
    BY <2>1, <2>4 DEF ComingInv
  <2> QED
    BY <2>3, <2>4
<1>9. ASSUME \/ \E t \in tasks : Loaded(t) \/ ConnectFails(t) \/ RefreshOk(t) \/ RefreshFails(t)
             \/ LoseStray \/ ServerReset \/ UNCHANGED vars
      PROVE  UNCHANGED <<up, down, open, inFlight>>
  BY <1>9 DEF Loaded, ConnectFails, RefreshOk, RefreshFails, LoseStray, ServerReset, vars, wire, engine
<1> QED
  BY <1>2, <1>3, <1>4, <1>5, <1>6, <1>7, <1>8, <1>9, ComingReceive DEF Next

(* Once the hello is answered, and the last page that counts received, the *)
(* outbox is in flight.                                                    *)
Awaited == \/ \E i : At(up, i, "hello")
           \/ \E i : Counts(i) /\ down[i].complete
SentInv == open => Awaited \/ ToSet(outbox) \subseteq inFlight

LEMMA AwaitedLonger ==
  ASSUME awaitingResetWelcome' = awaitingResetWelcome,
         Len(down) \in Nat, Len(down') \in Nat, Len(down) <= Len(down'),
         \A k \in 1 .. Len(down) : down'[k] = down[k],
         (\E i : At(up, i, "hello")) => \E i : At(up', i, "hello"), Awaited
  PROVE  Awaited'
<1>1. ASSUME NEW i, Counts(i), down[i].complete
      PROVE  Awaited'
  <2>1. i \in 1 .. Len(down)
    BY <1>1 DEF Counts, At
  <2>2. Counts(i)' /\ down'[i] = down[i]
    BY <1>1, <2>1, CountsMore
  <2> QED
    BY <1>1, <2>2 DEF Awaited
<1> QED
  BY <1>1 DEF Awaited

LEMMA SentReceive ==
  ASSUME TypeOK, ClientInv, SentInv, Receive
  PROVE  SentInv'
<1>1. PICK m : m = Head(down)
  OBVIOUS
<1>2. /\ open /\ down # <<>> /\ down' = Tail(down) /\ down \in Seq(DownMessage)
      /\ outbox \in Seq(Change)
      /\ OnWelcome(m) \/ OnSync(m) \/ OnChange(m) \/ OnAck(m)
  BY <1>1 DEF TypeOK, Receive
<1>3. /\ m = down[1] /\ 1 \in 1 .. Len(down)
      /\ \A i \in 1 .. Len(down) : i # 1 => \E k \in 1 .. Len(Tail(down)) :
           k \in Nat \ {0} /\ i = k + 1 /\ Tail(down)[k] = down[i]
  <2>1. /\ Len(Tail(down)) = Len(down) - 1 /\ Len(down) \in Nat \ {0} /\ m = down[1]
        /\ \A k \in 1 .. Len(Tail(down)) : Tail(down)[k] = down[k + 1]
    BY <1>1, <1>2, TailAt
  <2>2. ASSUME NEW i \in 1 .. Len(down), i # 1
        PROVE  \E k \in 1 .. Len(Tail(down)) :
                 k \in Nat \ {0} /\ i = k + 1 /\ Tail(down)[k] = down[i]
    <3>1. PICK k : k = i - 1
      OBVIOUS
    <3>2. k \in 1 .. Len(Tail(down)) /\ k \in Nat \ {0} /\ i = k + 1
      BY <2>1, <2>2, <3>1
    <3> QED
      BY <2>1, <3>2
  <2>3. 1 \in 1 .. Len(down)
    BY <2>1
  <2> QED
    BY <2>1, <2>2, <2>3
<1>4. CASE m.type = "welcome" /\ m.serverSeq < checkpoint
  <2>1. \E i : At(up', i, "hello")
    BY <1>1, <1>4, Received
  <2> QED
    BY <2>1 DEF SentInv, Awaited
<1>5. CASE m.type = "sync" /\ ~awaitingResetWelcome /\ m.complete
  <2>1. Flush(outbox, inFlight) /\ outbox' = outbox
    BY <1>2, <1>5 DEF OnWelcome, OnSync, OnChange, OnAck
  <2>2. inFlight' = inFlight \cup ToSet(outbox)
    BY <1>2, <2>1, FlushSends
  <2> QED
    BY <2>1, <2>2 DEF SentInv
<1>6. CASE /\ ~ (m.type = "welcome" /\ m.serverSeq < checkpoint)
           /\ ~ (m.type = "sync" /\ ~awaitingResetWelcome /\ m.complete)
  <2>1. CASE \E i : At(up, i, "hello")
    <3>1. HelloKept
      BY <1>1, <1>6, Received
    <3> QED
      BY <2>1, <3>1 DEF HelloKept, SentInv, Awaited
  <2>2. ASSUME NEW i, Counts(i), down[i].complete
        PROVE  SentInv'
    <3>1. i \in 1 .. Len(down) /\ down[i].type = "sync"
      BY <2>2 DEF Counts, At
    <3>2. i # 1
      <4>1. \A j : j \notin 1 .. 1 - 1
        OBVIOUS
      <4> QED
        BY <1>3, <1>6, <2>2, <3>1, <4>1 DEF Counts
    <3>3. PICK k \in 1 .. Len(Tail(down)) :
            k \in Nat \ {0} /\ i = k + 1 /\ Tail(down)[k] = down[i]
      BY <1>3, <3>1, <3>2
    <3>4. \/ m.type = "welcome" /\ ~awaitingResetWelcome'
          \/ m.type # "welcome" /\ awaitingResetWelcome' = awaitingResetWelcome
      BY <1>1, <1>6, Received
    <3>5. Counts(k)' <=> Counts(k + 1)
      BY <1>1, <1>2, <3>3, <3>4, CountsTail
    <3>6. Counts(k)' /\ down'[k].complete
      BY <1>2, <2>2, <3>3, <3>5
    <3> QED
      BY <3>6 DEF SentInv, Awaited
  <2>3. CASE ToSet(outbox) \subseteq inFlight
    <3>1. CASE OnAck(m)
      <4>1. /\ inFlight' = inFlight \ {m.change}
            /\ \/ m.change \in ToSet(outbox) /\ outbox' = Without(outbox, {m.change})
               \/ m.change \notin ToSet(outbox) /\ outbox' = outbox
        BY <3>1 DEF OnAck
      <4>2. \A x : x \in ToSet(Without(outbox, {m.change}))
                     <=> x \in ToSet(outbox) /\ x \notin {m.change}
        BY <1>2, WithoutSeq
      <4>3. ToSet(outbox') \subseteq inFlight'
        BY <2>3, <4>1, <4>2
      <4> QED
        BY <4>3 DEF SentInv
    <3>2. CASE OnWelcome(m) \/ OnChange(m)
      BY <2>3, <3>2 DEF OnWelcome, OnChange, SentInv
    <3>3. CASE OnSync(m)
      <4>1. UNCHANGED <<outbox, inFlight>>
        BY <1>6, <3>3 DEF OnSync
      <4> QED
        BY <2>3, <4>1 DEF SentInv
    <3> QED
      BY <1>2, <3>1, <3>2, <3>3
  <2> QED
    BY <1>2, <2>1, <2>2, <2>3 DEF SentInv, Awaited
<1> QED
  BY <1>4, <1>5, <1>6

LEMMA SentHello ==
  ASSUME TypeOK, ServeHello
  PROVE  SentInv'
<1>1. PICK p, f \in Seq(DownMessage) :
        /\ Bootstrap(p, Head(up).checkpoint)
        /\ down' = f /\ Follows(down, Welcome(HighestSeq(rows)), p, f)
  BY HelloServed
<1>2. /\ Len(f) = Len(down) + 1 + Len(p) /\ Len(down) \in Nat /\ Len(p) \in Nat \ {0}
      /\ \A k \in 1 .. Len(p) : f[Len(down) + 1 + k] = p[k]
      /\ f[Len(down) + 1] = Welcome(HighestSeq(rows))
  BY <1>1 DEF Follows, Bootstrap
<1>3. PICK i, j : i = Len(down) + 1 /\ j = Len(down) + 1 + Len(p)
  OBVIOUS
<1>4. /\ i \in 1 .. Len(f) /\ j \in 1 .. Len(f) /\ i \in 1 .. j - 1
      /\ Len(p) \in 1 .. Len(p)
  BY <1>2, <1>3
<1>5. /\ f[i].type = "welcome" /\ f[j].type = "sync" /\ f[j].complete
  <2>1. p[Len(p)].type = "sync" /\ p[Len(p)].complete = (Len(p) = Len(p))
    BY <1>1, <1>4 DEF Bootstrap
  <2>2. p[Len(p)].complete
    BY <2>1
  <2>3. f[j] = p[Len(p)] /\ f[i] = Welcome(HighestSeq(rows))
    BY <1>2, <1>3, <1>4
  <2> QED
    BY <2>1, <2>2, <2>3 DEF Welcome
<1>6. Counts(j)' /\ down'[j].complete
  BY <1>1, <1>4, <1>5 DEF Counts, At
<1> QED
  BY <1>6 DEF SentInv, Awaited

LEMMA SentStep ==
  ASSUME TypeOK, ClientInv, SentInv, [Next]_vars
  PROVE  SentInv'
<1>1. CASE Start \/ Stop \/ SocketCloses \/ Reload
  <2>1. ~open'
    BY <1>1, DisconnectAt DEF Start, Stop, SocketCloses, Reload
  <2> QED
    BY <2>1 DEF SentInv
<1>2. ASSUME UNCHANGED <<up, down, open, outbox, inFlight, awaitingResetWelcome>>
      PROVE  SentInv'
  BY <1>2 DEF SentInv, Awaited, Counts
<1>3. ASSUME NEW t \in tasks, ConnectOk(t)
      PROVE  SentInv'
  <2>1. CASE Current(t)
    <3>1. up' = <<Hello(checkpoint)>>
      BY <1>3, <2>1 DEF ConnectOk
    <3>2. Hello(checkpoint).type = "hello"
      BY DEF Hello
    <3>3. At(<<Hello(checkpoint)>>, 1, "hello")
      BY <3>2 DEF At
    <3> QED
      BY <3>1, <3>3 DEF SentInv, Awaited
  <2>2. CASE ~Current(t)
    BY <1>2, <1>3, <2>2 DEF ConnectOk, wire, local
  <2> QED
    BY <2>1, <2>2
<1>4. ASSUME NEW t \in tasks, Loaded(t)
      PROVE  SentInv'
  <2>1. ~open
    BY <1>4 DEF ClientInv, TasksOK, Loaded
  <2> QED
    BY <1>4, <2>1 DEF Loaded, wire, SentInv
<1>5. ASSUME NEW c \in Change, Push(c)
      PROVE  SentInv'
  <2>1. Flush(Append(outbox, c), inFlight) /\ outbox' = Append(outbox, c) /\ open' = open
    BY <1>5 DEF Push
  <2>2. Append(outbox, c) \in Seq(Change)
    BY AppendAt DEF TypeOK
  <2>3. CASE open
    <3>1. inFlight' = inFlight \cup ToSet(Append(outbox, c))
      BY <2>1, <2>2, <2>3, FlushSends
    <3> QED
      BY <2>1, <3>1 DEF SentInv
  <2>4. CASE ~open
    BY <2>1, <2>4 DEF SentInv
  <2> QED
    BY <2>3, <2>4
<1>6. CASE ServePush \/ ServeStray \/ \E r \in Record : ServerWrite(r)
  <2>1. PICK t \in Seq(DownMessage) :
          /\ Told(t)
          /\ (open /\ Appends(down, t, down')) \/ (~open /\ Len(down') = 0)
          /\ (\E i : At(up, i, "hello")) => \E i : At(up', i, "hello")
    BY <1>6, ToldDown
  <2>2. UNCHANGED <<open, inFlight, outbox, awaitingResetWelcome>>
    BY <2>1 DEF Told, engine, local
  <2>3. CASE open
    <3>1. /\ Len(down) \in Nat /\ Len(down') \in Nat /\ Len(down) <= Len(down')
          /\ \A k \in 1 .. Len(down) : down'[k] = down[k]
      <4>1. PICK f : f = down'
        OBVIOUS
      <4>2. Appends(down, t, f)
        BY <2>1, <2>3, <4>1
      <4>3. /\ Len(f) = Len(down) + Len(t) /\ Len(down) \in Nat /\ Len(t) \in Nat
            /\ \A i \in 1 .. Len(down) : f[i] = down[i]
        BY <4>2 DEF Appends
      <4>4. Len(f) \in Nat /\ Len(down) <= Len(f)
        BY <4>3
      <4> QED
        BY <4>1, <4>3, <4>4
    <3>2. Awaited => Awaited'
      BY <2>1, <2>2, <3>1, AwaitedLonger
    <3> QED
      BY <2>2, <3>2 DEF SentInv
  <2>4. CASE ~open
    BY <2>2, <2>4 DEF SentInv
  <2> QED
    BY <2>3, <2>4
<1>7. CASE ServerReset
  BY <1>7 DEF ServerReset, wire, SentInv
<1>8. ASSUME \/ \E t \in tasks : ConnectFails(t) \/ RefreshOk(t) \/ RefreshFails(t)
             \/ LoseStray \/ UNCHANGED vars
      PROVE  UNCHANGED <<up, down, open, outbox, inFlight, awaitingResetWelcome>>
  BY <1>8 DEF ConnectFails, RefreshOk, RefreshFails, LoseStray, vars, wire, engine, local
<1> QED
  BY <1>1, <1>2, <1>3, <1>4, <1>5, <1>6, <1>7, <1>8, SentReceive, SentHello DEF Next

Inv == /\ TypeOK /\ ClientInv /\ RoundInv /\ TableInv
       /\ NewsInv /\ ForgottenInv /\ HonestInv /\ ComingInv /\ SentInv

LEMMA InitInv ==
  ASSUME Init
  PROVE  Inv
<1>1. /\ up = <<>> /\ down = <<>> /\ open = FALSE /\ awaitingResetWelcome = FALSE
      /\ store = [r \in Record |-> Nothing] /\ checkpoint = 0 /\ savedCheckpoint = 0
      /\ forgotten = FALSE
      /\ \A r \in Record : rows[r].gone <=> rows[r].seq = 0
  BY DEF Init
<1>2. TypeOK /\ ClientInv
  BY InitTypes
<1>3. /\ rows \in [Record -> Row] /\ HighestSeq(rows) \in Nat
      /\ \A r \in Record : rows[r].seq \in Nat
  BY <1>2, Highest DEF TypeOK
<1>4. TableInv
  <2>1. ASSUME NEW r \in Record, rows[r].seq = 0
        PROVE  rows[r] = Nothing
    <3>1. rows[r] \in Row /\ rows[r].gone
      BY <1>1, <1>3, <2>1
    <3>2. rows[r].gone = TRUE
      BY <3>1 DEF Row
    <3> QED
      BY <2>1, <3>1, <3>2 DEF Row, Nothing
  <2> QED
    BY <2>1 DEF TableInv
<1>5. Len(down) = 0 /\ Len(up) = 0 /\ \A i : i \notin 1 .. 0
  BY <1>1
<1>6. \A i, type : ~ At(up, i, type) /\ ~ At(down, i, type)
  BY <1>5 DEF At
<1>7. RoundInv /\ NewsInv /\ ForgottenInv
  BY <1>1, <1>5, <1>6 DEF RoundInv, OneRound, InOrder, NewsInv, ForgottenInv
<1>8. \A r \in Record : NoNewer(Nothing, rows[r])
  BY <1>3, <1>4 DEF NoNewer, Nothing, TableInv
<1>9. HonestInv
  BY <1>1, <1>3, <1>5, <1>6, <1>8 DEF HonestInv, LastPages, Counts
<1>10. ComingInv /\ SentInv
  BY <1>1 DEF ComingInv, SentInv
<1> QED
  BY <1>2, <1>4, <1>7, <1>9, <1>10 DEF Inv

LEMMA InvStep ==
  ASSUME Inv, [Next]_vars
  PROVE  Inv'
<1>1. TypeOK' /\ ClientInv' /\ RoundInv' /\ TableInv' /\ NewsInv' /\ ForgottenInv' /\ HonestInv'
  BY TypesStep, RoundStep, TableStep, NewsStep, ForgottenStep, HonestStep DEF Inv
<1>2. ComingInv' /\ SentInv'
  BY ComingStep, SentStep DEF Inv
<1> QED
  BY <1>1, <1>2 DEF Inv

(* The checkpoint is a promise: whatever the object had written up to it,  *)
(* the store knows, through connections lost at any point, resets, late    *)
(* pushes and reloads, with any page size, records and edits (engine.ts).  *)
THEOREM HonestCheckpoint == Spec => []CheckpointHonest
<1>1. Init => Inv
  BY InitInv
<1>2. Inv /\ [Next]_vars => Inv'
  BY InvStep
<1>3. ASSUME Inv
      PROVE  CheckpointHonest
  <2> SUFFICES ASSUME ~forgotten, NEW r \in Record, rows[r].seq \in 1 .. checkpoint
               PROVE  store[r] = rows[r]
    BY DEF CheckpointHonest
  <2>1. checkpoint \in {0, savedCheckpoint} /\ \A n : n \notin 1 .. 0
    BY <1>3 DEF Inv, RoundInv
  <2>2. checkpoint = savedCheckpoint
    BY <2>1
  <2> QED
    BY <1>3, <2>2 DEF Inv, HonestInv
<1> QED
  BY <1>1, <1>2, <1>3, PTL DEF Spec

(* With no message on the way on an open socket, its hello answered, the   *)
(* store is the object's table and every edit has its answer, whatever was *)
(* sent again, told twice or brought by an old socket before               *)
(* (sync/handlers.ts, record-store.ts, engine.ts: flush).                  *)
THEOREM SettledWhenQuiet == Spec => []QuietMeansSettled
<1>1. Init => Inv
  BY InitInv
<1>2. Inv /\ [Next]_vars => Inv'
  BY InvStep
<1>3. ASSUME Inv
      PROVE  QuietMeansSettled
  <2> SUFFICES ASSUME open, up = <<>>, down = <<>>
               PROVE  store = rows /\ \A c \in Change : edit[c] # "pending"
    BY DEF QuietMeansSettled
  <2>1. Len(up) = 0 /\ Len(down) = 0 /\ \A i : i \notin 1 .. 0
    OBVIOUS
  <2>2. \A i, type : ~ At(up, i, type) /\ ~ At(down, i, type)
    BY <2>1 DEF At
  <2>3. store = rows
    <3>1. ~forgotten
      BY <1>3, <2>2 DEF Inv, ForgottenInv
    <3>2. \A r \in Record : Reached(Len(down), r)
      BY <1>3, <2>2, <3>1 DEF Inv, HonestInv
    <3>3. \A r \in Record : store[r] = rows[r]
      BY <2>1, <3>2 DEF Reached
    <3>4. store \in [Record -> Row] /\ rows \in [Record -> Row]
      BY <1>3 DEF Inv, TypeOK
    <3> QED
      BY <3>3, <3>4
  <2>4. \A c \in Change : edit[c] # "pending"
    <3>1. \A c : ~ Coming(up, down, c)
      BY <2>1 DEF Coming, Carries, Answers
    <3>2. inFlight = {}
      BY <1>3, <3>1 DEF Inv, ComingInv
    <3>3. ToSet(outbox) = {}
      BY <1>3, <2>2, <3>2 DEF Inv, SentInv, Awaited, Counts
    <3> QED
      BY <1>3, <3>3 DEF Inv, ClientInv, OutboxOK
  <2> QED
    BY <2>3, <2>4
<1> QED
  BY <1>1, <1>2, <1>3, PTL DEF Spec
=============================================================================
