---------------------------- MODULE PublicMirror ----------------------------
(***************************************************************************)
(* What the projection promises its readers.  A tenant issues publish and  *)
(* unpublish operations under ever larger numbers.  The public database    *)
(* shows, for each record, the outcome of one of its operations, and moves *)
(* only forward: a reader never sees an older publication after a newer    *)
(* one, nor a record again that an unpublish has removed.                  *)
(***************************************************************************)
EXTENDS Integers

CONSTANT Record

VARIABLES
  issued,  \* the operations of the tenant
  at,      \* number of the operation whose outcome a record shows
  visible  \* number of the publication a reader of the record sees, 0 for none

mirrorVars == <<issued, at, visible>>

MirrorInit ==
  /\ issued = {}
  /\ at = [r \in Record |-> 0]
  /\ visible = [r \in Record |-> 0]

Issue ==
  /\ issued \subseteq issued'
  /\ \A j \in issued' \ issued, k \in issued : k.seq < j.seq
  /\ UNCHANGED <<at, visible>>

Reflect(r) ==
  \E j \in issued :
    /\ j.rec = r /\ j.seq > at[r]
    /\ at' = [at EXCEPT ![r] = j.seq]
    /\ visible' = [visible EXCEPT ![r] = IF j.kind = "upsert" THEN j.seq ELSE 0]
    /\ UNCHANGED issued

MirrorNext == Issue \/ \E r \in Record : Reflect(r)

MirrorSpec == MirrorInit /\ [][MirrorNext]_mirrorVars
=============================================================================
