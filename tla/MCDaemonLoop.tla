---------------------------- MODULE MCDaemonLoop ----------------------------
(***************************************************************************)
(* Instances of DaemonLoop for TLC.  Of the seven tickers four are kept,   *)
(* one for each default interval on either side of the polling interval:   *)
(* decisions (5 s), polling and reconciliation (30 s) and the audit flush  *)
(* (60 s).  Heartbeats and adapter signals have reconciliation's default,  *)
(* status reports the audit flush's.                                       *)
(***************************************************************************)
EXTENDS DaemonLoop

MCTickers == {"poll", "decision", "reconcile", "audit"}

\* Intervals in units of 10 s, rounded up.
Defaults == [t \in MCTickers |-> CASE t = "decision" -> 1
                                   [] t = "audit"    -> 6
                                   [] OTHER          -> 3]

\* Two profiles that poll less often than they do anything else.
Relaxed ==
  {[t \in MCTickers |-> CASE t = "poll" -> 4 [] t = "decision" -> 1 [] OTHER -> 3],
   [t \in MCTickers |-> IF t = "poll" THEN 3 ELSE 2]}

DefaultProfiles == {Defaults}
=============================================================================
