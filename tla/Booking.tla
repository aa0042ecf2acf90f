------------------------------ MODULE Booking -------------------------------
(***************************************************************************)
(* Reservations of slots: the hook that guards a slot's capacity, and the  *)
(* expiry of pending reservations ("holds") by the module's timer.         *)
(*                                                                         *)
(* A deleted slot takes no reservation, as one of capacity 0 does; 0       *)
(* stands for both.  Requests are transactions of the object: one step.    *)
(***************************************************************************)
EXTENDS AlarmRegistry

CONSTANTS
  Reservation, Slot,
  MaxCapacity,
  Ttl,        \* BOOKING_PENDING_TTL_MS
  BookingKind,
  Disables    \* whether the module may be disabled

ASSUME BookingAssumption ==
  /\ BookingKind \in Modules
  /\ {MaxCapacity, Ttl} \subseteq Nat /\ MaxClock + Ttl < Never
  /\ Disables \in BOOLEAN
  /\ IsFiniteSet(Reservation) /\ Slot # {}

VARIABLES
  enabled,   \* the module is enabled for the tenant
  capacity,  \* of each slot
  row,       \* the records of type booking.reservation
  live       \* the reservations with a row that is not deleted

bookingVars == <<enabled, capacity, row, live>>
vars == <<alarmVars, bookingVars>>

State == {"pending", "confirmed", "cancelled"}
NoRow == [state |-> "none", slot |-> CHOOSE s \in Slot : TRUE, touched |-> 0]

(* touched is updated_at, which only matters of a hold.                    *)
Row(st, s) == [state |-> st, slot |-> s, touched |-> IF st = "pending" THEN clock ELSE 0]

Holds == {r \in live : row[r].state = "pending"}

Init ==
  /\ RegistryInit
  /\ enabled = TRUE
  /\ capacity \in [Slot -> 0 .. MaxCapacity]
  /\ row = [r \in Reservation |-> NoRow] /\ live = {}
-----------------------------------------------------------------------------
(* Requests.                                                               *)

Taken(s) == {r \in live : row[r].slot = s /\ row[r].state # "cancelled"}

(* Mistake: what stands already passes, wherever it moves.                 *)
AllowedOnceStanding(r, st, s) ==
  enabled /\ st # "cancelled" /\ row[r].state \in {"none", "cancelled"} =>
    Cardinality(Taken(s) \ {r}) < capacity[s]
(* beforeWrite: a reservation that stands needs room beside the others.    *)
Allowed(r, st, s) ==
  enabled /\ st # "cancelled" => Cardinality(Taken(s) \ {r}) < capacity[s]

Put(r, st, s) ==
  /\ row' = [row EXCEPT ![r] = Row(st, s)]
  /\ live' = live \cup {r}

(* A write by an owner, the public endpoint or the sync protocol.  A new   *)
(* hold sets the module's timer.                                           *)
Write(r, st, s) ==
  /\ up /\ Yielded
  /\ r \in live \/ row[r] = NoRow
  /\ Allowed(r, st, s)
  /\ Put(r, st, s)
  /\ IF enabled /\ row[r] = NoRow /\ st = "pending"
       THEN Arm(BookingKind, clock + Ttl)
       ELSE UNCHANGED <<due, physical>>
  /\ UNCHANGED <<clock, up, running, now, todo, enabled, capacity>>

Delete(r) ==
  /\ up /\ Yielded
  /\ r \in live
  /\ live' = live \ {r}
  /\ row' = [row EXCEPT ![r].touched = 0]
  /\ UNCHANGED <<alarmVars, enabled, capacity>>

(* Mistake: whatever is not there is taken for deleted.                    *)
RestoreNeverWritten(r) ==
  /\ up /\ Yielded
  /\ r \notin live
  /\ live' = live \cup {r}
  /\ UNCHANGED <<alarmVars, enabled, capacity, row>>

(* record_restore of a deleted reservation, to a version in its history;   *)
(* edits back and forth may have put any state and slot there.             *)
Restore(r) ==
  /\ up /\ Yielded
  /\ row[r] # NoRow /\ r \notin live
  /\ \E st \in State, s \in Slot : Allowed(r, st, s) /\ Put(r, st, s)
  /\ UNCHANGED <<alarmVars, enabled, capacity>>

EditSlot(s) ==
  /\ up /\ Yielded
  /\ \E n \in 0 .. MaxCapacity : capacity' = [capacity EXCEPT ![s] = n]
  /\ UNCHANGED <<alarmVars, enabled, row, live>>

SetModuleEnabled ==
  /\ up /\ Yielded /\ Disables
  /\ enabled' = ~enabled
  /\ UNCHANGED <<alarmVars, capacity, row, live>>
-----------------------------------------------------------------------------
(* The timer of the module, runModuleAlarm: one transaction.               *)

Stale == {r \in Holds : row[r].touched + Ttl <= now}
Kept == Holds \ Stale

(* Mistake: the holds that stay are forgotten.                             *)
NextExpiryForgotten == Cleared(due, BookingKind)
(* The timer is dropped, and set again for the oldest hold that stays.     *)
NextExpiry ==
  IF Kept = {}
    THEN Cleared(due, BookingKind)
    ELSE Registered(Cleared(due, BookingKind), BookingKind,
                    Min({row[r].touched : r \in Kept}) + Ttl)

(* Mistake: every hold counts, whenever it was last written.               *)
ExpireHoldsAll ==
  /\ Handling(BookingKind) /\ enabled
  /\ row' = [r \in Reservation |->
               IF r \in Holds THEN Row("cancelled", row[r].slot) ELSE row[r]]
  /\ due' = NextExpiry
  /\ todo' = Tail(todo)
  /\ UNCHANGED <<clock, up, physical, running, now, enabled, capacity, live>>

(* onAlarm.  Its writes pass the hook: what is cancelled takes no room.    *)
ExpireHolds ==
  /\ Handling(BookingKind) /\ enabled
  /\ row' = [r \in Reservation |->
               IF r \in Stale THEN Row("cancelled", row[r].slot) ELSE row[r]]
  /\ due' = NextExpiry
  /\ todo' = Tail(todo)
  /\ UNCHANGED <<clock, up, physical, running, now, enabled, capacity, live>>

SkipDisabled ==
  /\ Handling(BookingKind) /\ ~enabled
  /\ due' = Cleared(due, BookingKind)
  /\ todo' = Tail(todo)
  /\ UNCHANGED <<clock, up, physical, running, now, bookingVars>>

(* The handler throws: all of it rolls back, the timer too.                *)
ExpiryThrows ==
  /\ Handling(BookingKind) /\ enabled
  /\ todo' = Tail(todo)
  /\ UNCHANGED <<clock, up, due, physical, running, now, bookingVars>>
-----------------------------------------------------------------------------
Requests ==
  \/ \E r \in Reservation, st \in State, s \in Slot : Write(r, st, s)
  \/ \E r \in Reservation : Delete(r) \/ Restore(r)
  \/ \E s \in Slot : EditSlot(s)
  \/ SetModuleEnabled

Next ==
  \/ Requests
  \/ ExpireHolds \/ SkipDisabled \/ ExpiryThrows
  \/ RegistryNext /\ UNCHANGED bookingVars

Spec == Init /\ [][Next]_vars

(* Time passes, an evicted object is called again, an alarm that is set    *)
(* fires, and neither evictions nor exceptions hit every attempt.          *)
Fairness ==
  /\ SF_vars(Tick /\ UNCHANGED bookingVars)
  /\ WF_vars(Restart /\ UNCHANGED bookingVars)
  /\ SF_vars(Fire /\ UNCHANGED bookingVars)
  /\ \A k \in Sweeps \cup Upkeep : SF_vars(Handle(k) /\ UNCHANGED bookingVars)
  /\ WF_vars(Finish /\ UNCHANGED bookingVars)
  /\ SF_vars(ExpireHolds) /\ WF_vars(SkipDisabled)

LiveSpec == Spec /\ Fairness
-----------------------------------------------------------------------------
(* Type invariant; only what was written is there.                         *)
TypeOK ==
  /\ RegistryTypeOK
  /\ enabled \in BOOLEAN /\ capacity \in [Slot -> 0 .. MaxCapacity]
  /\ row \in [Reservation -> [state : State \cup {"none"}, slot : Slot, touched : 0 .. MaxClock]]
  /\ live \subseteq {r \in Reservation : row[r].state # "none"}

(* While the module is enabled no step, be it a new reservation, a move to *)
(* another slot, a cancelled one taken up again, a restoration or an       *)
(* expiry, puts one more into a slot that is full.  (booking/module.ts,    *)
(* beforeWrite, on every path that writes.)                                *)
NeverOverfilled ==
  [][\A s \in Slot :
       enabled /\ Cardinality(Taken(s)') > Cardinality(Taken(s))
         => Cardinality(Taken(s)') <= capacity[s]]_vars

(* The timer cancels a hold only after it was left alone for its time: not *)
(* one confirmed, prolonged, deleted or restored while the alarm was on    *)
(* its way or waited for a queue.  Early is all the platform's alarm may   *)
(* cost a hold.                                                            *)
ExpiresOnlyStale ==
  [][Handling(BookingKind) =>
       \A r \in Reservation :
         row'[r] # row[r] => r \in Holds /\ row[r].touched + Ttl <= clock + Early]_vars

(* A hold left alone while the module stays enabled goes when its time has *)
(* come, if the timer is set: a restart, an eviction of alarm(), other     *)
(* holds or a throwing handler do not make the object forget it.           *)
LeftAlone(r, t) == enabled /\ r \in Holds /\ row[r].touched = t
TimedHoldsExpire ==
  \A r \in Reservation, t \in 0 .. MaxClock - Ttl :
    LeftAlone(r, t) /\ due[BookingKind] <= MaxClock ~> ~LeftAlone(r, t)

(* "BOOKING_PENDING_TTL_MS: how long a pending reservation is held; past   *)
(* it, the alarm turns it to cancelled and frees the slot"                 *)
(* (booking/module.ts:14), of every pending reservation.                   *)
HoldsExpire ==
  \A r \in Reservation, t \in 0 .. MaxClock - Ttl : LeftAlone(r, t) ~> ~LeftAlone(r, t)
=============================================================================
