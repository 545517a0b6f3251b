---------------------------- MODULE MCAuditSpool ----------------------------
(***************************************************************************)
(* Instances of AuditSpool for TLC.  Two records are created at time 0, as *)
(* when an operation ends an old lease and authorises a new one; a third   *)
(* half a second later, which sorts before them as text; a fourth and a    *)
(* fifth in the next second.                                               *)
(***************************************************************************)
EXTENDS AuditSpool

MCRecords == 1 .. 5

MCCreatedAt == <<0, 0, 1, 2, 2>>

MCIdRank == [r \in Records |-> r]
=============================================================================
