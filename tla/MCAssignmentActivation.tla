----------------------- MODULE MCAssignmentActivation -----------------------
(***************************************************************************)
(* Instances of AssignmentActivation for TLC.  d1 assigns adapter ad1, d2  *)
(* no adapter, and d3 is a rollback that assigns ad2; d4 assigns both      *)
(* adapters, which is two artifacts of one type, and d5 fails              *)
(* verification.                                                           *)
(***************************************************************************)
EXTENDS AssignmentActivation

CONSTANTS d1, d2, d3, d4, d5

MCAdapters == {"ad1", "ad2"}

MCAdaptersOf == [d \in Digests |-> CASE d = d2 -> {}
                                     [] d = d3 -> {"ad2"}
                                     [] d = d4 -> {"ad1", "ad2"}
                                     [] OTHER  -> {"ad1"}]

\* d1 outlives the time modelled, the others do not.
MCExpiresAt == [d \in Digests |-> IF d = d1 THEN MaxTime + 1 ELSE MaxTime]

MCRollback == {d3} \cap Digests

MCInvalid == {d5} \cap Digests

MCDuplicated == {d4} \cap Digests
=============================================================================
