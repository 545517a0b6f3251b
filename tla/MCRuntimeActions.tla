-------------------------- MODULE MCRuntimeActions --------------------------
(***************************************************************************)
(* Instances of RuntimeActions for TLC.  Actions a1 and a2 come from two   *)
(* decisions on one target and share the dedup key k1; a3 has a key of its *)
(* own on a second adapter.  The daemon has both adapters in its registry, *)
(* a command has the one adapter its flags name.                           *)
(***************************************************************************)
EXTENDS RuntimeActions, TLC

CONSTANTS a1, a2, a3

MCKeyOf == [a \in Actions |-> IF a = a3 THEN "k2" ELSE "k1"]

MCAdapterOf == [k \in Keys |-> IF k = "k2" THEN "ad2" ELSE "ad1"]

MCAdapterRank == [d \in Adapters |-> IF d = "ad1" THEN 1 ELSE 2]

MCRegistered == [p \in Procs |-> IF p = "daemon" THEN Adapters ELSE {"ad1"}]

\* The two actions of one dedup key are interchangeable.
ActionSymmetry == Permutations({a1, a2})

\* Adapter ad1, the first in order, may fail for ever; ad2 may not.
Responsive == {"ad2"}

LiveSpec == Spec /\ Fairness("daemon", Responsive)

\* The daemon ends the leases of a responsive adapter when their time is up,
\* although the other adapter may never answer.
DaemonEndsExpiredLeases == ExpiredLeasesEnd("daemon", Responsive)
=============================================================================
