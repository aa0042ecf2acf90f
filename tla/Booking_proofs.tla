--------------------------- MODULE Booking_proofs ---------------------------
(* Safety of reservations and of the alarm they share, for any kinds,      *)
(* reservations, slots and times.  First the registry on its own: what its *)
(* operators return, and the invariants every step of it keeps.            *)
EXTENDS Booking, FiniteSetTheorems, SequenceTheorems, WellFoundedInduction, TLAPS

Dues == [Kind -> 0 .. Never]

-----------------------------------------------------------------------------
(* A set of numbers has a least element, and Min is it.                    *)
LEMMA MinIsLeast ==
  ASSUME NEW S, S \subseteq Nat, S # {}
  PROVE  Min(S) \in S /\ \A n \in S : Min(S) <= n
<1>1. PICK x \in S : \A y \in S : ~(<<y, x>> \in OpToRel(<, Nat))
  BY NatLessThanWellFounded, WFMin, Zenon
<1>2. \A y \in S : ~(y < x)
  BY <1>1, Zenon DEF OpToRel
<1>3. \A y \in S : x <= y
  BY <1>2
<1> QED
  BY <1>3 DEF Min

LEMMA MinOfTwo ==
  ASSUME NEW a \in Nat, NEW b \in Nat
  PROVE  Min({a, b}) \in {a, b} /\ Min({a, b}) <= a /\ Min({a, b}) <= b
BY MinIsLeast

LEMMA MaxOfTwo ==
  ASSUME NEW a \in Nat, NEW b \in Nat
  PROVE  Max({a, b}) \in {a, b} /\ Max({a, b}) >= a /\ Max({a, b}) >= b
<1>1. \E x \in {a, b} : \A y \in {a, b} : x >= y
  OBVIOUS
<1> QED
  BY <1>1 DEF Max

(* The earliest timer is no later than any, and is one of them or none.    *)
LEMMA MinDueIsEarliest ==
  ASSUME NEW d \in Dues
  PROVE  /\ MinDue(d) \in 0 .. Never
         /\ \A k \in Kind : MinDue(d) <= d[k]
         /\ MinDue(d) = Never \/ \E k \in Kind : d[k] = MinDue(d)
<1> DEFINE S == {Never} \cup {d[k] : k \in Kind}
<1>1. S \subseteq 0 .. Never /\ S # {}
  BY TimesAssumption DEF Dues
<1>2. S \subseteq Nat
  BY <1>1, TimesAssumption
<1>3. Min(S) \in S /\ \A n \in S : Min(S) <= n
  BY <1>1, <1>2, MinIsLeast
<1> QED
  BY <1>1, <1>3 DEF MinDue

(* With later timers, the earliest is no earlier.                          *)
LEMMA MinDueMonotone ==
  ASSUME NEW d \in Dues, NEW e \in Dues, \A k \in Kind : d[k] <= e[k]
  PROVE  MinDue(d) <= MinDue(e)
<1>1. \A k \in Kind : d[k] \in Nat /\ e[k] \in Nat
  BY TimesAssumption DEF Dues
<1>2. MinDue(d) \in Nat /\ MinDue(e) \in Nat /\ MinDue(d) <= Never
  BY MinDueIsEarliest, TimesAssumption
<1>3. CASE MinDue(e) = Never
  BY <1>2, <1>3
<1>4. CASE \E k \in Kind : e[k] = MinDue(e)
  <2>1. PICK k \in Kind : e[k] = MinDue(e)
    BY <1>4
  <2>2. MinDue(d) <= d[k]
    BY MinDueIsEarliest
  <2> QED
    BY <1>1, <1>2, <2>1, <2>2
<1> QED
  BY <1>3, <1>4, MinDueIsEarliest

(* Registering makes no timer later, clearing makes none earlier, and      *)
(* both leave the other kinds alone.                                       *)
LEMMA RegisteredFacts ==
  ASSUME NEW d \in Dues, NEW k \in Kind, NEW t \in 0 .. Never
  PROVE  /\ Registered(d, k, t) \in Dues
         /\ \A j \in Kind : Registered(d, k, t)[j] <= d[j]
         /\ \A j \in Kind \ {k} : Registered(d, k, t)[j] = d[j]
         /\ Registered(d, k, t)[k] <= t
<1>1. d[k] \in Nat /\ t \in Nat
  BY TimesAssumption DEF Dues
<1>2. Min({d[k], t}) \in {d[k], t} /\ Min({d[k], t}) <= d[k] /\ Min({d[k], t}) <= t
  BY <1>1, MinOfTwo
<1>3. Registered(d, k, t) = [d EXCEPT ![k] = Min({d[k], t})]
  BY DEF Registered
<1>4. Min({d[k], t}) \in 0 .. Never
  BY <1>2, TimesAssumption DEF Dues
<1>5. \A j \in Kind : Registered(d, k, t)[j] = IF j = k THEN Min({d[k], t}) ELSE d[j]
  BY <1>3 DEF Dues
<1>6. Registered(d, k, t) \in Dues
  BY <1>3, <1>4 DEF Dues
<1>7. \A j \in Kind : d[j] \in Nat
  BY TimesAssumption DEF Dues
<1> QED
  BY <1>2, <1>5, <1>6, <1>7

LEMMA ClearedFacts ==
  ASSUME NEW d \in Dues, NEW k \in Kind
  PROVE  /\ Cleared(d, k) \in Dues
         /\ \A j \in Kind \ {k} : Cleared(d, k)[j] = d[j]
BY TimesAssumption DEF Dues, Cleared
-----------------------------------------------------------------------------
(* The alarm that is set does not fire too early: a timer is due by then.  *)
AlarmOnTime ==
  ~running /\ physical # Never =>
    \/ MinDue(due) = Never
    \/ MinDue(due) <= physical
    \/ MinDue(due) <= clock + Early

(* alarm() goes by a time at most Early ahead, and still has to handle     *)
(* each kind that is due by then at most once.                             *)
HandlersOnTime ==
  running =>
    /\ now <= clock + Early
    /\ \A i \in DOMAIN todo : due[todo[i]] <= now
    /\ \A i, j \in DOMAIN todo : i # j => todo[i] # todo[j]

RegistryInv == RegistryTypeOK /\ AlarmCovers /\ AlarmOnTime /\ HandlersOnTime

LEMMA RegistryInitial == RegistryInit => RegistryInv
<1> SUFFICES ASSUME RegistryInit
             PROVE  RegistryInv
  OBVIOUS
<1>1. due \in Dues /\ MinDue(due) \in 0 .. Never
      /\ (MinDue(due) = Never \/ \E k \in Kind : due[k] = MinDue(due))
  <2>1. due \in Dues
    BY TimesAssumption DEF RegistryInit, Dues
  <2> QED
    BY <2>1, MinDueIsEarliest
<1>2. MinDue(due) = Never
  BY <1>1 DEF RegistryInit
<1>3. RegistryTypeOK
  <2>1. <<>> \in Seq(Kind)
    OBVIOUS
  <2>2. 0 \in 0 .. MaxClock /\ 0 \in 0 .. Never /\ Never \in 0 .. Never
    BY TimesAssumption
  <2> QED
    BY <1>1, <2>1, <2>2 DEF RegistryInit, RegistryTypeOK, Dues
<1> QED
  BY <1>2, <1>3, TimesAssumption
  DEF RegistryInit, RegistryInv, AlarmCovers, AlarmOnTime, HandlersOnTime

LEMMA TypeFacts ==
  ASSUME RegistryTypeOK
  PROVE  /\ due \in Dues /\ MinDue(due) \in 0 .. Never
         /\ clock \in Nat /\ now \in Nat /\ physical \in Nat /\ MinDue(due) \in Nat
         /\ \A k \in Kind : due[k] \in Nat
<1>1. due \in Dues
  BY DEF RegistryTypeOK, Dues
<1>2. MinDue(due) \in 0 .. Never
  BY <1>1, MinDueIsEarliest
<1> QED
  BY <1>1, <1>2, TimesAssumption DEF RegistryTypeOK, Dues

(* A request, or a piece of alarm() that waits, arms the alarm.            *)
LEMMA ArmKeeps ==
  ASSUME RegistryInv, NEW k \in Kind, NEW t \in 0 .. Never,
         Arm(k, t), UNCHANGED <<clock, up, running, now, todo>>
  PROVE  RegistryInv'
<1>1. due \in Dues /\ clock \in Nat /\ physical \in Nat
  BY TypeFacts DEF RegistryInv
<1>2. due' \in Dues /\ \A j \in Kind : due'[j] <= due[j]
  BY <1>1, RegisteredFacts DEF Arm
<1>3. MinDue(due') \in 0 .. Never /\ physical' = MinDue(due')
  BY <1>2, MinDueIsEarliest DEF Arm
<1>4. RegistryTypeOK'
  BY <1>2, <1>3 DEF RegistryInv, RegistryTypeOK, Dues
<1>5. AlarmCovers'
  BY <1>3, TimesAssumption DEF AlarmCovers
<1>6. AlarmOnTime'
  BY <1>3, TimesAssumption DEF AlarmOnTime
<1>7. HandlersOnTime'
  <2>1. \A j \in Kind : due'[j] \in Nat /\ due[j] \in Nat
    BY <1>1, <1>2, TimesAssumption DEF Dues
  <2>2. \A i \in DOMAIN todo : todo[i] \in Kind
    BY DEF RegistryInv, RegistryTypeOK
  <2>3. now \in Nat
    BY TypeFacts DEF RegistryInv
  <2> QED
    BY <1>2, <2>1, <2>2, <2>3 DEF RegistryInv, HandlersOnTime
<1> QED
  BY <1>4, <1>5, <1>6, <1>7 DEF RegistryInv

(* A handler touches no timer but its own.                                 *)
LEMMA HandlingKeeps ==
  ASSUME RegistryInv, NEW k \in Kind, Handling(k),
         due' \in Dues, \A j \in Kind \ {k} : due'[j] = due[j],
         todo' = Tail(todo), UNCHANGED <<clock, up, physical, running, now>>
  PROVE  RegistryInv'
<1>1. todo \in Seq(Kind) /\ todo # <<>> /\ todo[1] = k /\ running
  BY DEF RegistryInv, RegistryTypeOK, Handling
<1>2. todo' \in Seq(Kind)
  BY <1>1
<1>3. \A i \in DOMAIN todo' : i + 1 \in DOMAIN todo /\ todo'[i] = todo[i + 1]
  BY <1>1
<1>4. \A i \in DOMAIN todo' : todo'[i] \in Kind \ {k}
  <2>1. \A i, j \in DOMAIN todo : i # j => todo[i] # todo[j]
    BY <1>1 DEF RegistryInv, HandlersOnTime
  <2>2. 1 \in DOMAIN todo /\ \A i \in DOMAIN todo' : i \in Nat \ {0}
    BY <1>1, <1>2
  <2>3. \A i \in DOMAIN todo' : todo[i + 1] # todo[1]
    BY <1>3, <2>1, <2>2
  <2> QED
    BY <1>1, <1>2, <1>3, <2>3
<1>5. RegistryTypeOK'
  BY <1>1, <1>2 DEF RegistryInv, RegistryTypeOK, Dues
<1>6. HandlersOnTime'
  <2>1. \A i \in DOMAIN todo' : due'[todo'[i]] <= now
    BY <1>1, <1>3, <1>4 DEF RegistryInv, HandlersOnTime
  <2>2. \A i, j \in DOMAIN todo' : i # j => todo'[i] # todo'[j]
    <3>1. \A i \in DOMAIN todo' : i \in Nat
      BY <1>2
    <3> QED
      BY <1>1, <1>3, <3>1 DEF RegistryInv, HandlersOnTime
  <2> QED
    BY <1>1, <2>1, <2>2 DEF RegistryInv, HandlersOnTime
<1> QED
  BY <1>1, <1>5, <1>6 DEF RegistryInv, AlarmCovers, AlarmOnTime

(* alarm() starts: what made it fire is due at the latest Early from now.  *)
LEMMA FireKeeps ==
  ASSUME RegistryInv, Fire
  PROVE  RegistryInv'
<1> DEFINE D == {k \in Kind : due[k] <= now'}
<1>1. /\ due \in Dues /\ MinDue(due) \in 0 .. Never
      /\ clock \in Nat /\ physical \in Nat /\ MinDue(due) \in Nat
      /\ \A k \in Kind : due[k] \in Nat
  BY TypeFacts DEF RegistryInv
<1>2. now' \in {clock, MinDue(due)} /\ now' <= clock + Early
  <2>1. MinDue(due) = Never \/ MinDue(due) <= clock + Early
    BY <1>1, TimesAssumption DEF Fire, RegistryInv, AlarmOnTime
  <2>2. Max({clock, MinDue(due)}) \in {clock, MinDue(due)}
    BY <1>1, MaxOfTwo
  <2> QED
    BY <1>1, <2>1, <2>2, TimesAssumption DEF Fire, EffectiveNow
<1>3. now' \in 0 .. Never
  BY <1>1, <1>2, TimesAssumption DEF RegistryInv, RegistryTypeOK
<1>4. todo' \in Seq(D) /\ \A i, j \in DOMAIN todo' : i # j => todo'[i] # todo'[j]
  <2>1. IsFiniteSet(D)
    BY KindsAssumption, FS_Subset
  <2>2. Cardinality(D) \in Nat
    BY <2>1, FS_CardinalityType
  <2>3. todo' \in SetToSeqs(D)
    BY DEF Fire, DueOrders
  <2>4. /\ todo' \in [1 .. Cardinality(D) -> D]
        /\ \A i, j \in 1 .. Cardinality(D) : i # j => todo'[i] # todo'[j]
    BY <2>3 DEF SetToSeqs
  <2>5. DOMAIN todo' = 1 .. Cardinality(D)
    BY <2>4
  <2>6. todo' \in Seq(D)
    BY <2>2, <2>4, SeqDef, Zenon
  <2> QED
    BY <2>4, <2>5, <2>6
<1>5. \A i \in DOMAIN todo' : todo'[i] \in D
  BY <1>4
<1>6. todo' \in Seq(Kind)
  BY <1>4
<1>7. RegistryTypeOK'
  BY <1>1, <1>3, <1>6, TimesAssumption DEF Fire, RegistryInv, RegistryTypeOK
<1>8. HandlersOnTime'
  BY <1>2, <1>4, <1>5 DEF Fire, HandlersOnTime
<1> QED
  BY <1>7, <1>8 DEF Fire, RegistryInv, AlarmCovers, AlarmOnTime

(* At its end the alarm is set to the earliest timer.                      *)
LEMMA FinishKeeps ==
  ASSUME RegistryInv, Finish
  PROVE  RegistryInv'
<1>1. MinDue(due) \in 0 .. Never /\ MinDue(due) \in Nat /\ clock \in Nat /\ physical \in Nat
  BY TypeFacts DEF RegistryInv
<1>2. MinDue(due)' = MinDue(due)
  BY DEF Finish, MinDue
<1>3. RegistryTypeOK'
  <2>1. 0 \in 0 .. Never /\ physical' \in 0 .. Never
    BY <1>1, TimesAssumption DEF Finish, RegistryInv, RegistryTypeOK
  <2> QED
    BY <2>1 DEF Finish, RegistryInv, RegistryTypeOK
<1>4. AlarmCovers'
  BY <1>1, <1>2, TimesAssumption DEF Finish, AlarmCovers, RegistryInv, RegistryTypeOK
<1>5. AlarmOnTime'
  BY <1>1, <1>2 DEF Finish, AlarmOnTime
<1> QED
  BY <1>3, <1>4, <1>5 DEF Finish, RegistryInv, HandlersOnTime

(* An eviction strikes alarm() only while it waits within a kind that is   *)
(* due, and whose row is still there.                                      *)
LEMMA EvictKeeps ==
  ASSUME RegistryInv, Evict
  PROVE  RegistryInv'
<1>1. /\ clock \in Nat /\ physical \in Nat /\ now \in Nat /\ MinDue(due) \in Nat
      /\ due \in Dues /\ \A k \in Kind : due[k] \in Nat
  BY TypeFacts DEF RegistryInv
<1>2. physical' \in 0 .. Never
  <2>1. Min({clock, physical}) \in {clock, physical}
    BY <1>1, MinOfTwo
  <2> QED
    BY <2>1, TimesAssumption DEF Evict, RegistryInv, RegistryTypeOK
<1>3. RegistryTypeOK'
  <2>1. 0 \in 0 .. Never /\ <<>> \in Seq(Kind)
    BY TimesAssumption
  <2> QED
    BY <1>2, <2>1 DEF Evict, RegistryInv, RegistryTypeOK
<1>4. CASE running
  <2>1. 1 \in DOMAIN todo /\ todo[1] \in Kind
    BY <1>4 DEF Evict, Yielded, RegistryInv, RegistryTypeOK
  <2>2. due[todo[1]] <= now /\ now <= clock + Early
    BY <1>4, <2>1 DEF RegistryInv, HandlersOnTime
  <2>3. MinDue(due) <= due[todo[1]]
    BY <1>1, <2>1, MinDueIsEarliest
  <2>4. MinDue(due) <= clock + Early
    BY <1>1, <2>1, <2>2, <2>3, TimesAssumption
  <2> QED
    BY <1>3, <2>4 DEF Evict, RegistryInv, AlarmCovers, AlarmOnTime, HandlersOnTime, MinDue
<1>5. CASE ~running
  BY <1>3, <1>5 DEF Evict, RegistryInv, AlarmCovers, AlarmOnTime, HandlersOnTime, MinDue
<1> QED
  BY <1>4, <1>5

LEMMA RestartKeeps ==
  ASSUME RegistryInv, Restart
  PROVE  RegistryInv'
<1>1. /\ clock \in Nat /\ physical \in Nat /\ MinDue(due) \in Nat
      /\ due \in Dues /\ clock \in 0 .. Never
  BY TypeFacts, TimesAssumption DEF RegistryInv, RegistryTypeOK
<1>2. /\ due' \in Dues /\ \A j \in Kind : due'[j] <= due[j]
      /\ due' = due \/ \E k \in Kind : due'[k] <= clock
  <2>1. CASE due' = due
    BY <1>1, <2>1, TimesAssumption DEF Dues
  <2>2. ASSUME NEW k \in Upkeep, due' = Registered(due, k, clock)
        PROVE  /\ due' \in Dues /\ \A j \in Kind : due'[j] <= due[j]
               /\ due'[k] <= clock /\ k \in Kind
    BY <1>1, <2>2, RegisteredFacts DEF Kind
  <2> QED
    BY <2>1, <2>2 DEF Restart
<1>3. MinDue(due') \in Nat /\ MinDue(due') \in 0 .. Never
  BY <1>2, MinDueIsEarliest, TimesAssumption
<1>4. /\ physical' \in {physical, MinDue(due')}
      /\ physical' <= physical /\ physical' <= MinDue(due')
  BY <1>1, <1>3, MinOfTwo DEF Restart
<1>5. MinDue(due') <= MinDue(due)
  BY <1>1, <1>2, MinDueMonotone
<1>6. due' = due \/ MinDue(due') <= clock
  <2>1. ASSUME NEW k \in Kind, due'[k] <= clock
        PROVE  MinDue(due') <= clock
    <3>1. MinDue(due') <= due'[k] /\ due'[k] \in Nat
      BY <1>2, MinDueIsEarliest, TimesAssumption DEF Dues
    <3> QED
      BY <1>1, <1>3, <2>1, <3>1
  <2> QED
    BY <1>2, <2>1
<1>7. RegistryTypeOK' /\ ~running
  BY <1>2, <1>3, <1>4 DEF Restart, RegistryInv, RegistryTypeOK, Dues
<1>8. AlarmOnTime'
  BY <1>1, <1>3, <1>4, <1>5, <1>6, <1>7, TimesAssumption DEF Restart, RegistryInv, AlarmOnTime
<1> QED
  BY <1>4, <1>7, <1>8 DEF Restart, RegistryInv, AlarmCovers, HandlersOnTime

LEMMA TickKeeps ==
  ASSUME RegistryInv, Tick
  PROVE  RegistryInv'
<1>1. clock \in Nat /\ now \in Nat /\ MinDue(due) \in Nat /\ physical \in Nat
  BY TypeFacts DEF RegistryInv
<1>2. MinDue(due)' = MinDue(due)
  BY DEF Tick, MinDue
<1>3. RegistryTypeOK'
  BY <1>1, TimesAssumption DEF Tick, RegistryInv, RegistryTypeOK
<1>4. HandlersOnTime'
  BY <1>1, TimesAssumption DEF Tick, RegistryInv, HandlersOnTime
<1> QED
  BY <1>1, <1>2, <1>3, <1>4, TimesAssumption DEF Tick, RegistryInv, AlarmCovers, AlarmOnTime

LEMMA StutterKeepsRegistry ==
  ASSUME RegistryInv, UNCHANGED alarmVars
  PROVE  RegistryInv'
BY DEF alarmVars, RegistryInv, RegistryTypeOK, AlarmCovers, AlarmOnTime, HandlersOnTime, MinDue

LEMMA RegistryNextKeeps ==
  ASSUME RegistryInv, RegistryNext
  PROVE  RegistryInv'
<1>1. due \in Dues /\ clock \in Nat /\ clock + Delay \in 0 .. Never
  BY TypeFacts, TimesAssumption DEF RegistryInv, RegistryTypeOK
<1>2. ASSUME NEW k \in Sweeps \cup Upkeep, Handle(k)
      PROVE  RegistryInv'
  <2>1. k \in Kind
    BY DEF Kind
  <2>2. /\ Cleared(due, k) \in Dues
        /\ \A j \in Kind \ {k} : Cleared(due, k)[j] = due[j]
    BY <1>1, <2>1, ClearedFacts
  <2>3. LET e == Registered(Cleared(due, k), k, clock + Delay)
        IN  e \in Dues /\ \A j \in Kind \ {k} : e[j] = Cleared(due, k)[j]
    BY <1>1, <2>1, <2>2, RegisteredFacts
  <2>4. due' \in Dues /\ \A j \in Kind \ {k} : due'[j] = due[j]
    BY <1>2, <2>2, <2>3 DEF Handle
  <2> QED
    BY <1>2, <2>1, <2>4, HandlingKeeps DEF Handle
<1>3. ASSUME NEW k \in Sweeps, ArmSweep(k)
      PROVE  RegistryInv'
  BY <1>1, <1>3, ArmKeeps DEF ArmSweep, Kind
<1> QED
  BY <1>2, <1>3, FireKeeps, FinishKeeps, TickKeeps, EvictKeeps, RestartKeeps DEF RegistryNext

-----------------------------------------------------------------------------
(* Reservations.                                                           *)
Rows == [state : State \cup {"none"}, slot : Slot, touched : 0 .. MaxClock]

BookingTypeOK ==
  /\ enabled \in BOOLEAN /\ capacity \in [Slot -> 0 .. MaxCapacity]
  /\ row \in [Reservation -> Rows]
  /\ live \subseteq {r \in Reservation : row[r].state # "none"}

Inv == RegistryInv /\ BookingTypeOK

-----------------------------------------------------------------------------
(* The kind of the module is none of the object's own.                     *)
LEMMA BookingKindIsOwn ==
  BookingKind \in Kind /\ BookingKind \notin Sweeps
BY KindsAssumption, BookingAssumption DEF Kind

LEMMA RowIsRow ==
  ASSUME clock \in 0 .. MaxClock, NEW st \in State, NEW s \in Slot
  PROVE  Row(st, s) \in Rows /\ Row(st, s).state = st /\ Row(st, s).slot = s
<1>1. 0 \in 0 .. MaxClock
  BY TimesAssumption
<1> QED
  BY <1>1 DEF Row, Rows

LEMMA NoRowIsRow == NoRow \in Rows
<1>1. (CHOOSE s \in Slot : TRUE) \in Slot
  BY BookingAssumption
<1>2. 0 \in 0 .. MaxClock
  BY TimesAssumption
<1> QED
  BY <1>1, <1>2 DEF NoRow, Rows

LEMMA PutKeepsTypes ==
  ASSUME BookingTypeOK, clock \in 0 .. MaxClock,
         NEW r \in Reservation, NEW st \in State, NEW s \in Slot, Put(r, st, s),
         UNCHANGED <<enabled, capacity>>
  PROVE  BookingTypeOK'
<1>1. Row(st, s) \in Rows /\ Row(st, s).state \in State
  BY RowIsRow
<1>2. row' \in [Reservation -> Rows]
  BY <1>1 DEF Put, BookingTypeOK
<1>3. \A q \in Reservation \ {r} : row'[q] = row[q]
  BY DEF Put, BookingTypeOK
<1>4. row'[r] = Row(st, s)
  BY DEF Put, BookingTypeOK
<1>5. row'[r].state # "none"
  BY <1>1, <1>4 DEF State
<1>6. live' \subseteq {q \in Reservation : row'[q].state # "none"}
  BY <1>3, <1>5 DEF Put, BookingTypeOK
<1> QED
  BY <1>2, <1>6 DEF BookingTypeOK

(* What the timer is set to next is a time, and touches no other kind.     *)
LEMMA NextExpiryFacts ==
  ASSUME Inv
  PROVE  /\ NextExpiry \in Dues
         /\ \A j \in Kind \ {BookingKind} : NextExpiry[j] = due[j]
<1>1. due \in Dues
  BY TypeFacts DEF Inv, RegistryInv
<1>2. /\ Cleared(due, BookingKind) \in Dues
      /\ \A j \in Kind \ {BookingKind} : Cleared(due, BookingKind)[j] = due[j]
  BY <1>1, ClearedFacts, BookingKindIsOwn
<1>3. CASE Kept = {}
  BY <1>2, <1>3 DEF NextExpiry
<1>4. CASE Kept # {}
  <2> DEFINE T == {row[r].touched : r \in Kept}
  <2>1. T \subseteq 0 .. MaxClock /\ T # {}
    <3>1. \A r \in Reservation : row[r].touched \in 0 .. MaxClock
      BY DEF Inv, BookingTypeOK, Rows
    <3>2. Kept \subseteq Reservation
      BY DEF Inv, BookingTypeOK, Kept, Holds
    <3> QED
      BY <1>4, <3>1, <3>2
  <2> HIDE DEF T
  <2>2. Min(T) \in 0 .. MaxClock
    <3>1. T \subseteq Nat
      BY <2>1, TimesAssumption
    <3> QED
      BY <2>1, <3>1, MinIsLeast
  <2>3. Min(T) + Ttl \in 0 .. Never
    BY <2>2, TimesAssumption, BookingAssumption
  <2>4. LET e == Registered(Cleared(due, BookingKind), BookingKind, Min(T) + Ttl)
        IN  e \in Dues /\ \A j \in Kind \ {BookingKind} : e[j] = Cleared(due, BookingKind)[j]
    BY <1>2, <2>3, RegisteredFacts, BookingKindIsOwn
  <2> QED
    BY <1>2, <1>4, <2>4 DEF NextExpiry, T
<1> QED
  BY <1>3, <1>4

LEMMA ExpireTypes ==
  ASSUME Inv, ExpireHolds
  PROVE  /\ BookingTypeOK'
         /\ \A r \in Stale : row'[r].state = "cancelled" /\ row'[r].slot = row[r].slot
         /\ \A r \in Reservation \ Stale : row'[r] = row[r]
         /\ Stale \subseteq Holds
<1>1. clock \in 0 .. MaxClock
  BY DEF Inv, RegistryInv, RegistryTypeOK
<1>2. Stale \subseteq Holds /\ Holds \subseteq Reservation
  BY DEF Inv, BookingTypeOK, Stale, Holds
<1>3. \A r \in Reservation : row[r] \in Rows /\ row[r].slot \in Slot
  BY DEF Inv, BookingTypeOK, Rows
<1>4. \A r \in Stale : /\ Row("cancelled", row[r].slot) \in Rows
                       /\ Row("cancelled", row[r].slot).state = "cancelled"
                       /\ Row("cancelled", row[r].slot).slot = row[r].slot
  BY <1>1, <1>2, <1>3, RowIsRow DEF State
<1>5. \A r \in Reservation :
        row'[r] = IF r \in Stale THEN Row("cancelled", row[r].slot) ELSE row[r]
  BY DEF ExpireHolds
<1>6. row' \in [Reservation -> Rows]
  BY <1>3, <1>4 DEF ExpireHolds
<1>7. live' \subseteq {r \in Reservation : row'[r].state # "none"}
  BY <1>4, <1>5 DEF ExpireHolds, Inv, BookingTypeOK
<1> QED
  BY <1>2, <1>4, <1>5, <1>6, <1>7 DEF ExpireHolds, Inv, BookingTypeOK
-----------------------------------------------------------------------------
(* Every step of the object keeps the invariant.                           *)
LEMMA InvInit == Init => Inv
<1> SUFFICES ASSUME Init
             PROVE  Inv
  OBVIOUS
<1>1. row \in [Reservation -> Rows]
  BY NoRowIsRow DEF Init
<1> QED
  BY <1>1, RegistryInitial DEF Init, Inv, BookingTypeOK

LEMMA WriteKeeps ==
  ASSUME Inv, NEW r \in Reservation, NEW st \in State, NEW s \in Slot, Write(r, st, s)
  PROVE  Inv'
<1>1. clock \in 0 .. MaxClock /\ clock + Ttl \in 0 .. Never
  BY TimesAssumption, BookingAssumption DEF Inv, RegistryInv, RegistryTypeOK
<1>2. BookingTypeOK'
  BY <1>1, PutKeepsTypes DEF Write, Inv
<1>3. CASE Arm(BookingKind, clock + Ttl)
  BY <1>1, <1>2, <1>3, ArmKeeps, BookingKindIsOwn DEF Write, Inv
<1>4. CASE UNCHANGED <<due, physical>>
  BY <1>2, <1>4, StutterKeepsRegistry DEF Write, Inv, alarmVars
<1> QED
  BY <1>3, <1>4 DEF Write

LEMMA DeleteRestoreKeep ==
  ASSUME Inv, NEW r \in Reservation, Delete(r) \/ Restore(r)
  PROVE  Inv'
<1>1. RegistryInv'
  BY StutterKeepsRegistry DEF Inv, Delete, Restore
<1>2. CASE Delete(r)
  <2>1. [row[r] EXCEPT !.touched = 0] \in Rows
    BY TimesAssumption DEF Inv, BookingTypeOK, Rows
  <2>2. row' = [row EXCEPT ![r] = [row[r] EXCEPT !.touched = 0]]
    BY <1>2 DEF Delete, Inv, BookingTypeOK
  <2>3. row' \in [Reservation -> Rows]
    BY <2>1, <2>2 DEF Inv, BookingTypeOK
  <2>4. \A q \in Reservation : row'[q].state = row[q].state
    BY <2>2 DEF Inv, BookingTypeOK, Rows
  <2>5. BookingTypeOK'
    BY <1>2, <2>3, <2>4 DEF Delete, Inv, BookingTypeOK
  <2> QED
    BY <1>1, <2>5 DEF Inv
<1>3. CASE Restore(r)
  <2>1. clock \in 0 .. MaxClock
    BY DEF Inv, RegistryInv, RegistryTypeOK
  <2>2. BookingTypeOK'
    BY <1>3, <2>1, PutKeepsTypes DEF Restore, Inv
  <2> QED
    BY <1>1, <2>2 DEF Inv
<1> QED
  BY <1>2, <1>3

LEMMA ExpiryKeeps ==
  ASSUME Inv, ExpireHolds \/ SkipDisabled \/ ExpiryThrows
  PROVE  Inv'
<1>1. due \in Dues
  BY TypeFacts DEF Inv, RegistryInv
<1>2. CASE ExpireHolds
  <2>1. BookingTypeOK'
    BY <1>2, ExpireTypes
  <2>2. due' \in Dues /\ \A j \in Kind \ {BookingKind} : due'[j] = due[j]
    BY <1>2, NextExpiryFacts DEF ExpireHolds
  <2> QED
    BY <1>2, <2>1, <2>2, HandlingKeeps, BookingKindIsOwn DEF ExpireHolds, Inv
<1>3. CASE SkipDisabled
  <2>1. due' \in Dues /\ \A j \in Kind \ {BookingKind} : due'[j] = due[j]
    BY <1>1, <1>3, ClearedFacts, BookingKindIsOwn DEF SkipDisabled
  <2>2. BookingTypeOK'
    BY <1>3 DEF SkipDisabled, bookingVars, Inv, BookingTypeOK
  <2> QED
    BY <1>3, <2>1, <2>2, HandlingKeeps, BookingKindIsOwn DEF SkipDisabled, Inv
<1>4. CASE ExpiryThrows
  <2>1. BookingTypeOK'
    BY <1>4 DEF ExpiryThrows, bookingVars, Inv, BookingTypeOK
  <2> QED
    BY <1>1, <1>4, <2>1, HandlingKeeps, BookingKindIsOwn DEF ExpiryThrows, Inv
<1> QED
  BY <1>2, <1>3, <1>4

LEMMA InvStep == Inv /\ [Next]_vars => Inv'
<1> SUFFICES ASSUME Inv, [Next]_vars
             PROVE  Inv'
  OBVIOUS
<1>1. CASE Requests
  <2>1. ASSUME NEW r \in Reservation, Delete(r) \/ Restore(r)
        PROVE  Inv'
    BY <2>1, DeleteRestoreKeep
  <2>2. ASSUME NEW s \in Slot, EditSlot(s)
        PROVE  Inv'
    <3>1. RegistryInv' /\ BookingTypeOK'
      BY <2>2, StutterKeepsRegistry DEF EditSlot, Inv, BookingTypeOK
    <3> QED
      BY <3>1 DEF Inv
  <2>3. CASE SetModuleEnabled
    <3>1. RegistryInv' /\ BookingTypeOK'
      BY <2>3, StutterKeepsRegistry DEF SetModuleEnabled, Inv, BookingTypeOK
    <3> QED
      BY <3>1 DEF Inv
  <2> QED
    BY <1>1, <2>1, <2>2, <2>3, WriteKeeps DEF Requests
<1>2. CASE ExpireHolds \/ SkipDisabled \/ ExpiryThrows
  BY <1>2, ExpiryKeeps
<1>3. CASE RegistryNext /\ UNCHANGED bookingVars
  BY <1>3, RegistryNextKeeps DEF bookingVars, Inv, BookingTypeOK
<1>4. CASE UNCHANGED vars
  BY <1>4, StutterKeepsRegistry DEF vars, bookingVars, Inv, BookingTypeOK
<1> QED
  BY <1>1, <1>2, <1>3, <1>4 DEF Next
-----------------------------------------------------------------------------
(* The types, that the alarm covers the timers and does not fire too early, *)
(* and that alarm() goes by a time at most Early ahead: together inductive. *)
THEOREM ObjectInvariant == Spec => []Inv
BY InvInit, InvStep, PTL DEF Spec

(* The variables keep their types, and only what was written is there.     *)
THEOREM TypeCorrect == Spec => []TypeOK
<1>1. Inv => TypeOK
  BY DEF Inv, RegistryInv, BookingTypeOK, TypeOK, Rows
<1> QED
  BY <1>1, ObjectInvariant, PTL

(* No interleaving of requests, handlers, evictions and restarts leaves a  *)
(* timer without the alarm (do/alarms.ts, alarm(), the constructor).       *)
THEOREM TimersCovered == Spec => []AlarmCovers
<1>1. Inv => AlarmCovers
  BY DEF Inv, RegistryInv
<1> QED
  BY <1>1, ObjectInvariant, PTL
-----------------------------------------------------------------------------
(* Room in a slot.                                                         *)
LEMMA FewerTaken ==
  ASSUME NEW A, NEW B, IsFiniteSet(B), A \subseteq B
  PROVE  ~(Cardinality(A) > Cardinality(B))
<1>1. Cardinality(A) <= Cardinality(B) /\ IsFiniteSet(A)
  BY FS_Subset
<1>2. Cardinality(A) \in Nat /\ Cardinality(B) \in Nat
  BY <1>1, FS_CardinalityType
<1> QED
  BY <1>1, <1>2

LEMMA PutRespectsCapacity ==
  ASSUME Inv, NEW r \in Reservation, NEW st \in State, NEW s \in Slot,
         Allowed(r, st, s), Put(r, st, s),
         NEW x \in Slot, enabled, Cardinality(Taken(x)') > Cardinality(Taken(x))
  PROVE  Cardinality(Taken(x)') <= capacity[x]
<1>1. live \subseteq Reservation /\ IsFiniteSet(live) /\ row \in [Reservation -> Rows]
  BY BookingAssumption, FS_Subset DEF Inv, BookingTypeOK
<1>2. IsFiniteSet(Taken(x)) /\ IsFiniteSet(Taken(x) \ {r})
  BY <1>1, FS_Subset DEF Taken
<1>3. row'[r].state = st /\ row'[r].slot = s
  <2>1. clock \in 0 .. MaxClock
    BY DEF Inv, RegistryInv, RegistryTypeOK
  <2> QED
    BY <1>1, <2>1, RowIsRow DEF Put
<1>4. \A q \in Reservation \ {r} : row'[q] = row[q]
  BY <1>1 DEF Put
<1>5. Taken(x)' \ {r} = Taken(x) \ {r}
  BY <1>1, <1>4 DEF Taken, Put
<1>6. r \in Taken(x)' => st # "cancelled" /\ x = s
  BY <1>3 DEF Taken
<1>7. r \in Taken(x)'
  <2> SUFFICES ASSUME r \notin Taken(x)'
               PROVE  FALSE
    OBVIOUS
  <2>1. Taken(x)' \subseteq Taken(x)
    BY <1>5
  <2> QED
    BY <1>2, <2>1, FewerTaken
<1>8. Cardinality(Taken(x) \ {r}) < capacity[x]
  BY <1>6, <1>7 DEF Allowed
<1>9. Taken(x)' = (Taken(x) \ {r}) \cup {r}
  BY <1>5, <1>7
<1>10. Cardinality(Taken(x)') = Cardinality(Taken(x) \ {r}) + 1
  BY <1>2, <1>9, FS_AddElement
<1>11. Cardinality(Taken(x) \ {r}) \in Nat /\ capacity[x] \in Nat
  BY <1>2, FS_CardinalityType, BookingAssumption DEF Inv, BookingTypeOK
<1> QED
  BY <1>8, <1>10, <1>11

LEMMA OnlyPutTakes ==
  ASSUME Inv, NEW x \in Slot,
         \A q \in live' : q \in live /\ row'[q].slot = row[q].slot
                          /\ (row'[q].state = row[q].state \/ row'[q].state = "cancelled")
  PROVE  ~(Cardinality(Taken(x)') > Cardinality(Taken(x)))
<1>1. IsFiniteSet(Taken(x))
  BY BookingAssumption, FS_Subset DEF Inv, BookingTypeOK, Taken
<1>2. Taken(x)' \subseteq Taken(x)
  BY DEF Taken
<1> QED
  BY <1>1, <1>2, FewerTaken

(* While the module is enabled no step puts one more reservation into a    *)
(* slot that is full (booking/module.ts, beforeWrite).                     *)
THEOREM CapacityRespected == Spec => NeverOverfilled
<1> DEFINE Right == \A s \in Slot :
                      enabled /\ Cardinality(Taken(s)') > Cardinality(Taken(s))
                        => Cardinality(Taken(s)') <= capacity[s]
<1>1. ASSUME Inv, [Next]_vars
      PROVE  Right
  <2> SUFFICES ASSUME NEW x \in Slot, enabled,
                      Cardinality(Taken(x)') > Cardinality(Taken(x))
               PROVE  Cardinality(Taken(x)') <= capacity[x]
    OBVIOUS
  <2>1. CASE \E r \in Reservation, st \in State, s \in Slot : Write(r, st, s)
    BY <1>1, <2>1, PutRespectsCapacity DEF Write
  <2>2. CASE \E r \in Reservation : Restore(r)
    BY <1>1, <2>2, PutRespectsCapacity DEF Restore
  <2>3. CASE \E r \in Reservation : Delete(r)
    <3>1. \A q \in live' : q \in live /\ row'[q].slot = row[q].slot
                           /\ row'[q].state = row[q].state
      BY <1>1, <2>3 DEF Delete, Inv, BookingTypeOK, Rows
    <3> QED
      BY <1>1, <3>1, OnlyPutTakes
  <2>4. CASE ExpireHolds
    <3>1. \A q \in live' : q \in live /\ row'[q].slot = row[q].slot
                           /\ (row'[q].state = row[q].state \/ row'[q].state = "cancelled")
      BY <1>1, <2>4, ExpireTypes DEF ExpireHolds, Inv, BookingTypeOK
    <3> QED
      BY <1>1, <3>1, OnlyPutTakes
  <2>5. CASE UNCHANGED <<row, live>>
    BY <1>1, <2>5, OnlyPutTakes
  <2> QED
    BY <1>1, <2>1, <2>2, <2>3, <2>4, <2>5
    DEF Next, Requests, EditSlot, SetModuleEnabled, SkipDisabled, ExpiryThrows, vars, bookingVars
<1>2. Inv /\ [Next]_vars => [Right]_vars
  BY <1>1
<1> QED
  BY <1>2, ObjectInvariant, PTL DEF Spec, NeverOverfilled
-----------------------------------------------------------------------------
(* The timer cancels a hold only after it was left alone for its time      *)
(* (booking/module.ts, onAlarm; do/alarms.ts, effectiveNow).               *)
THEOREM OnlyStaleHoldsExpire == Spec => ExpiresOnlyStale
<1> DEFINE Right == Handling(BookingKind) =>
              \A r \in Reservation :
                row'[r] # row[r] => r \in Holds /\ row[r].touched + Ttl <= clock + Early
<1>1. ASSUME Inv, [Next]_vars
      PROVE  Right
  <2> SUFFICES ASSUME Handling(BookingKind), NEW r \in Reservation, row'[r] # row[r]
               PROVE  r \in Holds /\ row[r].touched + Ttl <= clock + Early
    OBVIOUS
  <2>1. ~Yielded
    BY BookingKindIsOwn DEF Handling, Yielded
  <2>2. ExpireHolds
    BY <1>1, <2>1
    DEF Next, Requests, Write, Delete, Restore, EditSlot, SetModuleEnabled,
        SkipDisabled, ExpiryThrows, vars, bookingVars
  <2>3. r \in Stale /\ r \in Holds
    BY <1>1, <2>2, ExpireTypes
  <2>4. row[r].touched + Ttl <= now
    BY <2>3 DEF Stale
  <2>5. now <= clock + Early
    BY <1>1 DEF Handling, Inv, RegistryInv, HandlersOnTime
  <2>6. now \in Nat /\ clock \in Nat /\ row[r].touched \in Nat
    BY <1>1, TypeFacts, TimesAssumption DEF Inv, RegistryInv, BookingTypeOK, Rows
  <2> QED
    BY <2>3, <2>4, <2>5, <2>6, TimesAssumption, BookingAssumption
<1>2. Inv /\ [Next]_vars => [Right]_vars
  BY <1>1
<1> QED
  BY <1>2, ObjectInvariant, PTL DEF Spec, ExpiresOnlyStale
=============================================================================
