----------------------------- MODULE ModuleEvents -----------------------------
(***************************************************************************)
(* Events of a module, from the write that is their cause to the record    *)
(* the module keeps of it: the booking module notes for each reservation   *)
(* that it was written.  The object keeps the events next to the record,   *)
(* sends them to a queue after the commit or with the sweep, and its       *)
(* consumer calls back into the object, where the module may have been     *)
(* disabled by then.                                                       *)
(***************************************************************************)
EXTENDS Naturals, FiniteSets

CONSTANTS
  Reservations,
  Writers, Sweeper,  \* handlers in flight: requests, and the alarm
  MaxEvents          \* bound of the model: events ever emitted

ASSUME SweeperAssumption == Sweeper \notin Writers
ASSUME EventsAssumption == MaxEvents \in Nat

VARIABLES
  awake,       \* the object is in memory
  enabled,     \* module_registry.enabled
  emitted,     \* how many events there were
  events,      \* module_events with sent = 0
  sweepDue,    \* alarm_registry has a module_events_sweep row
  alarmSet,    \* the physical alarm is set
  at,          \* where each handler is
  batch,       \* the rows its drain has still to send
  modulesQueue, \* MODULES_QUEUE
  parkedJobs,  \* dead_letters
  notes,       \* live booking.notification records of each reservation
  owed         \* history: written, and no notification removed since

queueVars == <<modulesQueue, parkedJobs>>
drainVars == <<at, batch>>
alarmVars == <<sweepDue, alarmSet>>
recordsVars == <<enabled, emitted, notes, owed>>
eventVars == <<awake, events, queueVars, drainVars, alarmVars, recordsVars>>

Drainers == Writers \cup {Sweeper}

EventsInit ==
  /\ awake = TRUE /\ enabled \in BOOLEAN /\ emitted = 0
  /\ events = {} /\ modulesQueue = {} /\ parkedJobs = {}
  /\ sweepDue = FALSE /\ alarmSet = FALSE
  /\ at = [d \in Drainers |-> "idle"] /\ batch = [d \in Drainers |-> {}]
  /\ notes = [r \in Reservations |-> 0] /\ owed = [r \in Reservations |-> FALSE]

(***************************************************************************)
(* Requests.                                                               *)
(***************************************************************************)
\* After the commit of any write: if there are unsent events, of whatever
\* write, the sweep is armed and a drain follows.
Commit(d, unsent) ==
  /\ awake /\ at[d] = "idle"
  /\ events' = unsent
  /\ IF unsent = {} THEN UNCHANGED <<alarmVars, at>>
     ELSE /\ sweepDue' = TRUE /\ alarmSet' = TRUE
          /\ at' = [at EXCEPT ![d] = "committed"]
  /\ UNCHANGED <<awake, batch, queueVars>>

\* A reservation is written, by the public, a member or the sync protocol.
\* What the module itself writes causes no event.
WriteReservation(d, r) ==
  /\ emitted < MaxEvents
  /\ IF enabled
     THEN /\ Commit(d, events \cup {[id |-> emitted + 1, of |-> r]})
          /\ emitted' = emitted + 1 /\ owed' = [owed EXCEPT ![r] = TRUE]
     ELSE Commit(d, events) /\ UNCHANGED <<emitted, owed>>
  /\ UNCHANGED <<enabled, notes>>

RemoveNotification(d, r) ==
  /\ notes[r] > 0 /\ Commit(d, events)
  /\ notes' = [notes EXCEPT ![r] = @ - 1] /\ owed' = [owed EXCEPT ![r] = FALSE]
  /\ UNCHANGED <<enabled, emitted>>

SetModuleEnabled ==
  /\ awake /\ enabled' = ~ enabled
  /\ UNCHANGED <<awake, events, queueVars, drainVars, alarmVars, emitted, notes, owed>>

(***************************************************************************)
(* The drain, in a request or in the alarm handler.                        *)
(***************************************************************************)
Drained(d) == IF d = Sweeper THEN "drained" ELSE "idle"

\* The first rows, as many as one drain takes: here, any.
DrainModuleEvents(d) ==
  /\ awake /\ at[d] = "committed"
  /\ IF events = {} THEN /\ at' = [at EXCEPT ![d] = Drained(d)] /\ UNCHANGED batch
     ELSE /\ at' = [at EXCEPT ![d] = "sending"]
          /\ \E taken \in SUBSET events \ {{}} : batch' = [batch EXCEPT ![d] = taken]
  /\ UNCHANGED <<awake, events, queueVars, alarmVars, recordsVars>>

IsFirst(e, rows) == e \in rows /\ \A o \in rows : e.id <= o.id

SendEvent(d, e) ==
  /\ awake /\ at[d] = "sending" /\ IsFirst(e, batch[d])
  /\ modulesQueue' = modulesQueue \cup {e}
  /\ at' = [at EXCEPT ![d] = "sent"]
  /\ UNCHANGED <<awake, events, batch, parkedJobs, alarmVars, recordsVars>>

MarkModuleEventSent(d, e) ==
  /\ awake /\ at[d] = "sent" /\ IsFirst(e, batch[d])
  /\ events' = events \ {e}
  /\ batch' = [batch EXCEPT ![d] = @ \ {e}]
  /\ at' = [at EXCEPT ![d] = IF batch[d] = {e} THEN Drained(d) ELSE "sending"]
  /\ UNCHANGED <<awake, queueVars, alarmVars, recordsVars>>

\* The message may be in the queue all the same.
SendEventFails(d, e) ==
  /\ awake /\ at[d] = "sending" /\ IsFirst(e, batch[d])
  /\ modulesQueue' \in {modulesQueue, modulesQueue \cup {e}}
  /\ at' = [at EXCEPT ![d] = Drained(d)] /\ batch' = [batch EXCEPT ![d] = {}]
  /\ UNCHANGED <<awake, events, parkedJobs, alarmVars, recordsVars>>

SweepFires ==
  /\ awake /\ alarmSet /\ at[Sweeper] = "idle"
  /\ alarmSet' = FALSE
  /\ at' = [at EXCEPT ![Sweeper] = IF sweepDue THEN "committed" ELSE "idle"]
  /\ UNCHANGED <<awake, events, queueVars, batch, sweepDue, recordsVars>>

\* The registration goes whatever came meanwhile, and comes back if rows are
\* left; alarm() then sets the physical alarm.
SweepEnds ==
  /\ awake /\ at[Sweeper] = "drained"
  /\ sweepDue' = (events # {}) /\ alarmSet' = (alarmSet \/ sweepDue')
  /\ at' = [at EXCEPT ![Sweeper] = "idle"]
  /\ UNCHANGED <<awake, events, queueVars, batch, recordsVars>>

\* An alarm handler that is cut off is run again, or not any more.
Sleeps ==
  /\ awake /\ awake' = FALSE
  /\ at' = [d \in Drainers |-> "idle"] /\ batch' = [d \in Drainers |-> {}]
  /\ alarmSet' \in {alarmSet, alarmSet \/ at[Sweeper] # "idle"}
  /\ UNCHANGED <<events, queueVars, sweepDue, recordsVars>>

Wakes ==
  /\ ~ awake /\ awake' = TRUE
  /\ alarmSet' = (alarmSet \/ sweepDue)
  /\ UNCHANGED <<events, queueVars, drainVars, sweepDue, recordsVars>>

(***************************************************************************)
(* The consumer.                                                           *)
(***************************************************************************)
\* Mistake: what a disabled module refuses counts as done.
ModuleWriteAnswered(e) ==
  notes' = IF enabled /\ notes[e.of] = 0 THEN [notes EXCEPT ![e.of] = 1] ELSE notes

\* moduleWrite under handleAfterWrite: a second notification is refused by the
\* unique check, and that is as good.
ModuleWrite(e) ==
  /\ enabled
  /\ notes' = IF notes[e.of] = 0 THEN [notes EXCEPT ![e.of] = 1] ELSE notes

\* A message whose acknowledgement is lost comes again.
HandleModuleJob(e) ==
  /\ awake /\ e \in modulesQueue /\ ModuleWrite(e)
  /\ modulesQueue' \in {modulesQueue, modulesQueue \ {e}}
  /\ UNCHANGED <<awake, events, parkedJobs, drainVars, alarmVars, enabled, emitted, owed>>

\* Its retries are used up: the module is disabled, or something else fails.
ParkModuleJob(e) ==
  /\ e \in modulesQueue
  /\ modulesQueue' = modulesQueue \ {e} /\ parkedJobs' = parkedJobs \cup {e}
  /\ UNCHANGED <<awake, events, drainVars, alarmVars, recordsVars>>

\* The row stays, but counts as replayed.
ReplayModuleJob(e) ==
  /\ e \in parkedJobs
  /\ modulesQueue' = modulesQueue \cup {e} /\ parkedJobs' = parkedJobs \ {e}
  /\ UNCHANGED <<awake, events, drainVars, alarmVars, recordsVars>>

EventsNext ==
  \/ \E d \in Writers, r \in Reservations : WriteReservation(d, r) \/ RemoveNotification(d, r)
  \/ SetModuleEnabled \/ SweepFires \/ SweepEnds \/ Sleeps \/ Wakes
  \/ \E d \in Drainers :
       \/ DrainModuleEvents(d)
       \/ \E e \in batch[d] : SendEvent(d, e) \/ MarkModuleEventSent(d, e) \/ SendEventFails(d, e)
  \/ \E e \in modulesQueue : HandleModuleJob(e) \/ ParkModuleJob(e)
  \/ \E e \in parkedJobs : ReplayModuleJob(e)

EventsSpec == EventsInit /\ [][EventsNext]_eventVars

(***************************************************************************)
(* What is promised.                                                       *)
(***************************************************************************)
\* Someone comes for the rows that a drain leaves behind.
SweepComes == sweepDue /\ (awake => alarmSet \/ at[Sweeper] # "idle")

\* For every reservation written while the module was enabled there is the
\* notification, unless somebody removed it, or an event that is still to
\* cause it: a row that the sweep comes for, a message, or a parked message.
\* This holds across failed sends, evictions, writes during the sweep, lost
\* acknowledgements and disabling the module (modules/events.ts: what is
\* committed is sent).
NotedOrOnItsWay ==
  \A r \in Reservations : owed[r] =>
    \/ notes[r] = 1
    \/ \E e \in modulesQueue \cup parkedJobs : e.of = r
    \/ SweepComes /\ \E e \in events : e.of = r

===============================================================================
