--------------------------- MODULE AlarmRegistry ----------------------------
(***************************************************************************)
(* The one physical alarm of a tenant's object, shared by several logical  *)
(* timers ("kinds"): a registry of due times, alarm() which handles the    *)
(* kinds that are due, the constructor that arms the alarm again.          *)
(*                                                                         *)
(* Time is discrete.  alarm() handles its kinds one after the other.  It   *)
(* waits only within the kinds that send to a queue; there requests come   *)
(* in and the object may be evicted.                                       *)
(***************************************************************************)
EXTENDS Naturals, Sequences, FiniteSets, SequencesExt

CONSTANTS
  Sweeps,    \* the kinds that send to a queue: outbox_sweep, module_events_sweep
  Upkeep,    \* the kinds the constructor may register: lookup_columns, search_reindex
  Modules,   \* the kinds of modules
  Delay,     \* after which a kind with work left is due again
  Early,     \* how much too early the platform may fire, by this object's clock
  MaxClock,  \* bound of the model: the clock
  Never      \* no time: later than any due time

Kind == Sweeps \cup Upkeep \cup Modules

ASSUME KindsAssumption ==
  /\ IsFiniteSet(Kind)
  /\ Sweeps \cap Upkeep = {} /\ Sweeps \cap Modules = {} /\ Upkeep \cap Modules = {}
ASSUME TimesAssumption ==
  /\ {Delay, Early, MaxClock, Never} \subseteq Nat
  /\ Delay > 0 /\ MaxClock + Delay < Never

VARIABLES
  clock,
  up,        \* the object is in memory
  due,       \* alarm_registry: the due time of each kind, Never if it has no row
  physical,  \* when the platform's alarm is set to, Never if it is not
  running,   \* alarm() is at work
  now,       \* the time alarm() goes by
  todo       \* the due kinds alarm() still has to handle, in order

alarmVars == <<clock, up, due, physical, running, now, todo>>

RegistryInit ==
  /\ clock = 0 /\ up = TRUE
  /\ due = [k \in Kind |-> Never] /\ physical = Never
  /\ running = FALSE /\ now = 0 /\ todo = <<>>

(* Anything but alarm() runs only while alarm() is idle or waits.          *)
Yielded == running => todo # <<>> /\ Head(todo) \in Sweeps

-----------------------------------------------------------------------------
(* The registry.                                                           *)

MinDue(d) == Min({Never} \cup {d[k] : k \in Kind})

(* registerAlarm: the earlier of what is registered and what is wished.    *)
Registered(d, k, t) == [d EXCEPT ![k] = Min({@, t})]
Cleared(d, k) == [d EXCEPT ![k] = Never]

(* registerAlarm and setAlarm in the transaction of a request.             *)
Arm(k, t) ==
  /\ due' = Registered(due, k, t)
  /\ physical' = MinDue(due')

(* A request with something for a queue.                                   *)
ArmSweep(k) ==
  /\ up /\ Yielded
  /\ Arm(k, clock + Delay)
  /\ UNCHANGED <<clock, up, running, now, todo>>
-----------------------------------------------------------------------------
(* alarm().                                                                *)

(* effectiveNow: that the alarm fired shows that the earliest is due.      *)
EffectiveNow == IF MinDue(due) = Never THEN clock ELSE Max({clock, MinDue(due)})

DueOrders(t) ==
  {s \in SetToSeqs({k \in Kind : due[k] <= t}) :
     \A i, j \in DOMAIN s : i < j => due[s[i]] <= due[s[j]]}

Fire ==
  /\ up /\ ~running
  /\ physical # Never /\ physical <= clock + Early
  /\ physical' = Never
  /\ running' = TRUE
  /\ now' = EffectiveNow
  /\ todo' \in DueOrders(now')
  /\ UNCHANGED <<clock, up, due>>

Handling(k) == up /\ running /\ todo # <<>> /\ Head(todo) = k

(* A kind of the object itself: its row goes, and comes back if work is    *)
(* left.  For a sweep this is what follows its last send.                  *)
Handle(k) ==
  /\ Handling(k)
  /\ due' \in {Cleared(due, k), Registered(Cleared(due, k), k, clock + Delay)}
  /\ todo' = Tail(todo)
  /\ UNCHANGED <<clock, up, physical, running, now>>

(* Mistake: the alarm stays as the requests in between have set it.        *)
FinishUnarmed ==
  /\ up /\ running /\ todo = <<>>
  /\ running' = FALSE /\ now' = 0
  /\ UNCHANGED <<clock, up, due, physical, todo>>

Finish ==
  /\ up /\ running /\ todo = <<>>
  /\ running' = FALSE /\ now' = 0
  /\ physical' = IF MinDue(due) # Never THEN MinDue(due) ELSE physical
  /\ UNCHANGED <<clock, up, due, todo>>
-----------------------------------------------------------------------------
(* Time, eviction and restart.                                             *)

Tick ==
  /\ Yielded /\ clock < MaxClock
  /\ clock' = clock + 1
  /\ UNCHANGED <<up, due, physical, running, now, todo>>

(* An alarm() that was running is run again by the platform, unless its    *)
(* retries are used up.                                                    *)
Evict ==
  /\ up /\ Yielded
  /\ up' = FALSE
  /\ physical' \in {physical} \cup (IF running THEN {Min({clock, physical})} ELSE {})
  /\ running' = FALSE /\ now' = 0 /\ todo' = <<>>
  /\ UNCHANGED <<clock, due>>

(* The constructor registers what upkeep the tables call for, and arms the *)
(* alarm where none is set or only a later one.                            *)
Restart ==
  /\ ~up
  /\ up' = TRUE
  /\ due' \in {due} \cup {Registered(due, k, clock) : k \in Upkeep}
  /\ physical' = Min({physical, MinDue(due')})
  /\ UNCHANGED <<clock, running, now, todo>>
RegistryNext ==
  \/ Fire \/ (\E k \in Sweeps \cup Upkeep : Handle(k)) \/ Finish
  \/ \E k \in Sweeps : ArmSweep(k)
  \/ Tick \/ Evict \/ Restart
-----------------------------------------------------------------------------
RegistryTypeOK ==
  /\ clock \in 0 .. MaxClock /\ now \in 0 .. Never
  /\ up \in BOOLEAN /\ running \in BOOLEAN /\ (running => up)
  /\ due \in [Kind -> 0 .. Never] /\ physical \in 0 .. Never
  /\ todo \in Seq(Kind) /\ (~running => todo = <<>>)

(* While the object is in memory and alarm() is not at work, the physical  *)
(* alarm is set no later than the earliest timer: no order of requests,    *)
(* handlers and restarts leaves a timer without one.  (do/alarms.ts: the   *)
(* earliest wins; alarm() sets it again at its end, the constructor too.)  *)
AlarmCovers == up /\ ~running => physical <= MinDue(due)
=============================================================================
