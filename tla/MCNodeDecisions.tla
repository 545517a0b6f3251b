-------------------------- MODULE MCNodeDecisions --------------------------
(***************************************************************************)
(* The nodes NodeDecisions is checked for.  Two only learn baselines: one  *)
(* entity with two metrics, and two entities.  One takes a decision whose  *)
(* action follows from the risk.  Others take a request with one defect    *)
(* and then one without, of the same decision key; one is loaded a bundle  *)
(* by a command in between, and next to one `kliq execute-action' runs.    *)
(***************************************************************************)
EXTENDS NodeDecisions

CONSTANTS e1, e2, m1, m2

MCEntities == {e1, e2}

MCMetrics == {m1, m2}

MCValues == {0, 12, 40}

MCRegistered == {"klshield", "other"}

Good ==
  [complete |-> TRUE, adapter |-> "klshield", capability |-> "rate_limit",
   grant |-> "g1", mode |-> "required", ttl |-> None, scope |-> None,
   target |-> "t", action |-> "rate_limit_source", riskType |-> None,
   provenance |-> None]

Derived == [Good EXCEPT !.action = None, !.riskType = "runtime_anomaly"]

\* No defect, but another target.
Elsewhere == [Good EXCEPT !.target = "t2"]

Defective ==
  {[Good EXCEPT !.complete = FALSE],   [Good EXCEPT !.mode = "optional"],
   [Good EXCEPT !.ttl = 3],            [Good EXCEPT !.scope = "cluster"],
   [Good EXCEPT !.target = None],      [Good EXCEPT !.action = "notify"],
   [Good EXCEPT !.grant = "g2"],       [Good EXCEPT !.adapter = "other"],
   [Good EXCEPT !.provenance = "p2"],  [Good EXCEPT !.action = None],
   [Derived EXCEPT !.riskType = "identity"]}

Grant ==
  [id |-> "g1", adapter |-> "klshield", capability |-> "rate_limit",
   action |-> "rate_limit_source", scopes |-> {"local_node"}, maxTTL |-> 2,
   expiresAt |-> None, provenance |-> "p1"]

\* Acts on a critical risk; the second grant ends before the assignment.
Routed ==
  [envelopeExpiresAt |-> 2, expiresAt |-> 2, runtimeAllowed |-> TRUE, maxTTL |-> 2,
   maxScope |-> "local_node", actions |-> {"rate_limit_source"},
   grants |-> {Grant, [Grant EXCEPT !.id = "g2", !.expiresAt = 1]},
   behavior |-> <<[riskType |-> "runtime_anomaly", tier |-> "critical",
                   effect |-> "rate_limit"]>>,
   routes |-> {"klshield"}, fallback |-> [audit |-> TRUE, deny |-> TRUE]]

\* Acts on an unknown risk as well, written as a tier nobody knows.
Eager ==
  [Routed EXCEPT !.expiresAt = 1,
                 !.behavior = <<[riskType |-> "runtime_anomaly", tier |-> "severe",
                                 effect |-> "rate_limit"],
                                [riskType |-> "runtime_anomaly", tier |-> "critical",
                                 effect |-> "alert"]>>,
                 !.routes = None, !.fallback = None]

\* The samples of one metric, and of both.
Samples(values) == {{<<m1, x>>} : x \in values}

BothMetrics == Samples({0}) \cup {{<<m1, 0>>, <<m2, 40>>}, {<<m1, 40>>, <<m2, 0>>}}

Learning(signals, v, r) ==
  [source |-> <<>>, commands |-> {}, signals |-> signals, assignments |-> {}, horizon |-> 0,
   restarts |-> r, versions |-> v, loads |-> 0]

\* A node that takes decisions and learns nothing.
Deciding(requests, assignments, horizon, r) ==
  [source |-> requests, commands |-> {}, signals |-> {}, assignments |-> assignments,
   horizon |-> horizon, restarts |-> r, versions |-> 0, loads |-> 0]

MCNodes ==
  {Learning({e1} \X BothMetrics, 1, 0), Learning(MCEntities \X Samples({0, 40}), 2, 0),
   Learning({e1} \X Samples({0, 40}), 2, 1)}
    \cup {[source |-> <<Derived>>, commands |-> {}, signals |-> {e1} \X Samples({0, x}),
           assignments |-> {Routed, Eager}, horizon |-> 1, restarts |-> 0,
           versions |-> 1, loads |-> 0] : x \in {12, 40}}
    \cup {Deciding(<<r, Good>>, {Routed, Eager}, 2, 1) : r \in Defective}
    \cup {[Deciding(<<Elsewhere, Good>>, {Routed, Eager}, 1, 0) EXCEPT !.loads = 1],
          [Deciding(<<Good, Good>>, {Eager}, 1, 1) EXCEPT !.commands = {Good}]}

\* A node that learns one metric from windows of the default size.
MCSpreadValues == {40, 52, 64}

MCSpreadNodes == {Learning({e1} \X Samples(MCSpreadValues), 1, 0)}

=============================================================================
