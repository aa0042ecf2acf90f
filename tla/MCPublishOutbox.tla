-------------------------- MODULE MCPublishOutbox --------------------------
(***************************************************************************)
(* The two outboxes of a tenant's object for TLC: that of publications,    *)
(* where a post refers to a photo, and that of module events.  A run stays *)
(* with the one it starts with, so that they add up.                       *)
(***************************************************************************)
EXTENDS PublishOutbox, ModuleEvents, TLC

CONSTANTS Post, Photo

MCAssetsOf == [r \in Record |-> IF r = Post THEN {Photo} \cap Record ELSE {}]

MCSymmetry == Permutations(Request) \cup Permutations(Reservations)

VARIABLE outbox

MCInit == Init /\ EventsInit /\ outbox \in {"publications", "events"}

MCNext ==
  \/ outbox = "publications" /\ Next /\ UNCHANGED <<eventVars, outbox>>
  \/ outbox = "events" /\ EventsNext /\ UNCHANGED <<vars, outbox>>

MCSpec == MCInit /\ [][MCNext]_<<vars, eventVars, outbox>>
=============================================================================
