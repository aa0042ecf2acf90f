--------------------------- MODULE ProjectionJobs ---------------------------
(* The messages of PROJECTION_QUEUE, which are also the rows of the outbox. *)
EXTENDS Integers

CONSTANT Record  \* record ids of one tenant, assets included

Job == [kind : {"upsert", "delete"}, rec : Record, seq : Nat]

Upsert(r, s) == [kind |-> "upsert", rec |-> r, seq |-> s]
Delete(r, s) == [kind |-> "delete", rec |-> r, seq |-> s]
=============================================================================
