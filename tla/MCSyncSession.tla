--------------------------- MODULE MCSyncSession ----------------------------
(* Small instances of SyncSession, with edits of one record.               *)
EXTENDS SyncSession

CONSTANTS r1, r2, write, removal
MCEditOf == [c \in Change |-> [rec |-> r1, gone |-> c = removal]]
=============================================================================
