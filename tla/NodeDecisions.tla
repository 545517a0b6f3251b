---------------------------- MODULE NodeDecisions ----------------------------
(***************************************************************************)
(* The decisions of a node: how the daemon takes one request after the     *)
(* other from its decision source and plans it (processRuntimeDecisions of *)
(* cmd/kliq/run.go, ExecuteAction and planFromRequest of                   *)
(* internal/kliq/runtime/manager.go), over the cached bundle, the active   *)
(* assignment and the risk that Baseline caches.  Each call on the store   *)
(* is a step of its own; commands on the same state file load bundles and  *)
(* promote baselines between them.  The daemon has one thread: it handles  *)
(* a signal or a decision, never both at once.                             *)
(*                                                                         *)
(* What follows the plan (executePlannedAction) is the module              *)
(* RuntimeActions; here it is one step with all of its outcomes: a live    *)
(* lease is reused, or the adapter is called, and its answer, the readback *)
(* or a write of the store may fail.  Assignments, bundles and requests    *)
(* are records; an absent field is None.  The four provenance fields are   *)
(* one value.                                                              *)
(***************************************************************************)
EXTENDS Baseline

CONSTANTS
  Nodes,        \* what is around a node: its decision file (a sequence of
                \* requests), the requests that `kliq execute-action' is
                \* called with, the signals of its adapters, its
                \* assignments, and the bounds on the time, the restarts,
                \* the learned versions and the loads by commands it is
                \* looked at for
  Registered    \* the adapters in the daemon's registry

ASSUME DecisionsAssumption ==
  \A n \in Nodes : /\ Len(n.source) \in Nat
                    /\ DOMAIN n.source = 1 .. Len(n.source)
                    /\ n.horizon \in 0 .. MaxTime
                    /\ n.restarts \in 0 .. MaxRestarts
                    /\ n.versions \in 0 .. MaxVersions
                    /\ n.loads \in Nat
                    /\ n.signals \subseteq Entities \X SampleSets
                    /\ None \notin n.assignments

VARIABLES
  node,         \* the node: its surroundings do not change
  taken,        \* fileRuntimeDecisionSource.index
  plan,         \* the daemon's progress through a decision
  bundle,       \* table bundle_cache: one row
  assignment,   \* kliq_management_state and kliq_active_artifacts
  loads,        \* the loads by commands so far
  lease,        \* the runtime actions with a live lease
  effect,       \* the runtime actions that the adapter ever put in force
  journal       \* table runtime_decision_journal: status and runtime
                \* action, by request

decisionVars ==
  <<node, taken, plan, bundle, assignment, loads, lease, effect,
    journal>>

vars == <<baselineVars, decisionVars>>

\* `read', `checked', `assessed' and `granted' are the times of the steps,
\* `loads' is the number of loads by commands when the bundle was read.
PlanIdle ==
  [pc |-> "idle", i |-> 0, bundle |-> None, assignment |-> None, action |-> None,
   risk |-> None, status |-> "none", activated |-> None, loads |-> 0,
   read |-> 0, checked |-> 0, assessed |-> 0, granted |-> 0]

NoRecord == [status |-> "none", activated |-> None]

PlanAt(pc) == plan.pc = pc

\* fileRuntimeDecisionSource.requests.
source == node.source

Request == source[plan.i]

Init ==
  /\ BaselineInit
  /\ node \in Nodes
  /\ taken = 0
  /\ plan = PlanIdle
  /\ bundle = None
  /\ assignment = None
  /\ loads = 0
  /\ lease = {}
  /\ effect = {}
  /\ journal = [i \in DOMAIN source |-> NoRecord]

-----------------------------------------------------------------------------
(* Bundles.                                                                *)

\* LoadManagedBundle: bundle, state and artifacts in one transaction.
LoadManagedBundle(a) ==
  /\ bundle' = a
  /\ assignment' = a
  /\ UNCHANGED <<node, taken, plan, lease, effect, journal>>

DaemonLoads(a) ==
  /\ SignalAt("idle") /\ PlanAt("idle")
  /\ LoadManagedBundle(a)
  /\ UNCHANGED <<baselineVars, loads>>

\* `kliq load-managed-bundle', or `kliq load-bundle' which leaves the
\* assignment alone.
CommandLoads(a) ==
  /\ loads < node.loads
  /\ loads' = loads + 1
  /\ \/ LoadManagedBundle(a)
     \/ /\ bundle' = a
        /\ UNCHANGED <<node, taken, plan, assignment, lease, effect,
                       journal>>
  /\ UNCHANGED baselineVars

-----------------------------------------------------------------------------
(* planFromRequest.                                                        *)

\* The plan goes on to s; everything else stays.
PlanTo(s) ==
  /\ plan' = s
  /\ UNCHANGED <<baselineVars, node, taken, bundle, assignment, loads,
                 lease, effect, journal>>

\* Decision id, adapter, capability, grant, mode, reason and audit id are there.
WellFormed(r) ==
  /\ r.complete
  /\ r.adapter # None /\ r.capability # None /\ r.grant # None
  /\ r.mode \in {"required", "optional", "fallback", "any_of"}

FaultyNextDecision ==
  /\ SignalAt("idle") /\ PlanAt("idle")
  /\ taken < Len(source)
  /\ LET i == taken + 1
     IN  IF WellFormed(source[i])
         THEN taken' = i /\ plan' = [PlanIdle EXCEPT !.pc = "bundle", !.i = i]
         ELSE UNCHANGED <<taken, plan>>
  /\ UNCHANGED <<baselineVars, node, bundle, assignment, loads, lease,
                 effect, journal>>

\* NextDecision: the index moves on before the request is looked at.  An error
\* ends the cycle; the next one goes on with the next request.
NextDecision ==
  /\ SignalAt("idle") /\ PlanAt("idle")
  /\ taken < Len(source)
  /\ taken' = taken + 1
  /\ plan' = IF WellFormed(source[taken + 1])
             THEN [PlanIdle EXCEPT !.pc = "bundle", !.i = taken + 1]
             ELSE PlanIdle
  /\ UNCHANGED <<baselineVars, node, bundle, assignment, loads, lease,
                 effect, journal>>

\* A cached bundle is verified again.  What may have changed since it was
\* loaded is whether its envelope has run out.
VerifySignedRuntimeBundle(b) == now < b.envelopeExpiresAt

CachedBundle ==
  /\ PlanAt("bundle")
  /\ PlanTo(IF bundle # None /\ VerifySignedRuntimeBundle(bundle)
            THEN [plan EXCEPT !.pc = "assignment", !.bundle = bundle, !.read = now,
                              !.loads = loads]
            ELSE PlanIdle)

FaultyAssignmentAllows(a) == TRUE

\* Without a credential or a management state nothing is checked.
AssignmentAllows(a) == a # None => now < a.expiresAt

EnsureAssignment ==
  /\ PlanAt("assignment")
  /\ PlanTo(IF AssignmentAllows(assignment)
            THEN [plan EXCEPT !.pc = "route", !.assignment = assignment,
                              !.checked = now]
            ELSE PlanIdle)

RouteAllows(a, r) ==
  a # None /\ a.routes # None => a.routes \cap {"*", r.adapter, r.capability} # {}

\* The limits of the bundle: an absent ttl or scope is the bundle's own.
TTLOf(r, b) == IF r.ttl = None THEN b.maxTTL ELSE r.ttl

ScopeOf(r, b) == IF r.scope = None THEN b.maxScope ELSE r.scope

WithinBundle(r, b) ==
  /\ b.runtimeAllowed
  /\ TTLOf(r, b) > 0 /\ b.maxTTL > 0 /\ TTLOf(r, b) <= b.maxTTL
  /\ ScopeOf(r, b) # None
  /\ b.maxScope # None => ScopeOf(r, b) = b.maxScope
  /\ r.target # None

EnsureRoute ==
  /\ PlanAt("route")
  /\ PlanTo(IF RouteAllows(assignment, Request) /\ WithinBundle(Request, plan.bundle)
            THEN [plan EXCEPT !.pc = IF Request.action = None THEN "risk" ELSE "grant",
                              !.action = Request.action]
            ELSE PlanIdle)

NormalizeTier(tier) ==
  IF tier \in Tiers THEN tier ELSE "unknown"

\* MatchBehavior: the first behaviour of the policy for the risk type and tier.
Matching(b, riskType, tier) ==
  {k \in DOMAIN b.behavior : /\ b.behavior[k].riskType = riskType
                             /\ NormalizeTier(b.behavior[k].tier) = tier
                             /\ \A l \in 1 .. k - 1 :
                                  \/ b.behavior[l].riskType # riskType
                                  \/ NormalizeTier(b.behavior[l].tier) # tier}

RuntimeActionForEffect(e) ==
  CASE e = "rate_limit" -> "rate_limit_source"
    [] e = "deny_temporarily" -> "deny_temporarily_source"
    [] OTHER -> None

\* The tier in the cache is that of runtime_anomaly, no other type is evaluated.
TierOf(riskType) ==
  IF riskType = "runtime_anomaly" THEN RiskTier(now) ELSE "unknown"

\* actionFromRiskCache; an effect that is no runtime action is recorded.
ActionFromRisk ==
  /\ PlanAt("risk")
  /\ LET r == Request
         k == Matching(plan.bundle, r.riskType, TierOf(r.riskType))
         s == [plan EXCEPT !.risk = IF TierOf(r.riskType) = "unknown" THEN None
                                    ELSE risk,
                           !.assessed = now]
         noAction == [s EXCEPT !.pc = "record", !.status = "no_action"]
     IN  PlanTo(IF r.riskType = None THEN PlanIdle
                ELSE IF k = {} THEN noAction
                ELSE LET a == RuntimeActionForEffect(
                                plan.bundle.behavior[CHOOSE x \in k : TRUE].effect)
                     IN  IF a = None THEN noAction
                         ELSE [s EXCEPT !.pc = "grant", !.action = a])

\* validateCapabilityGrant.
GrantAllows(g, r, b, action) ==
  /\ g.id = r.grant
  /\ g.adapter = r.adapter /\ g.capability = r.capability /\ g.action = action
  /\ ScopeOf(r, b) \in g.scopes
  /\ g.maxTTL # None => g.maxTTL > 0 /\ TTLOf(r, b) <= g.maxTTL
  /\ g.expiresAt # None => now < g.expiresAt
  /\ g.provenance # None

ProvenanceMatches(g, r) == r.provenance = None \/ r.provenance = g.provenance

\* The first grant with the requested id is the only one looked at (ids are
\* unique in a bundle).  ExecutePlan then wants the mode required and a
\* registered adapter.
ValidateGrant ==
  /\ PlanAt("grant")
  /\ LET r == Request
         b == plan.bundle
     IN  PlanTo(IF /\ plan.action \in b.actions
                   /\ \E g \in b.grants : /\ GrantAllows(g, r, b, plan.action)
                                          /\ ProvenanceMatches(g, r)
                   /\ r.mode = "required"
                   /\ r.adapter \in Registered
                THEN [plan EXCEPT !.pc = "fallback", !.granted = now]
                ELSE PlanIdle)

\* ensureActiveFallbackAllowsExecution; degraded: an upload of a pending audit
\* record has failed.
FallbackAllows(a, degraded) ==
  a # None /\ a.fallback # None => a.fallback.audit /\ ~(a.fallback.deny /\ degraded)

EnsureFallback ==
  /\ PlanAt("fallback")
  /\ \E degraded \in BOOLEAN :
       PlanTo(IF FallbackAllows(assignment, degraded)
              THEN [plan EXCEPT !.pc = "execute"] ELSE PlanIdle)

\* leaseFromPlannedAction: the runtime action id is made from the decision, the
\* bundle and the dedup key.
RuntimeAction(decision, r, b, action) ==
  [decision |-> decision, bundle |-> b,
   key |-> [adapter |-> r.adapter, capability |-> r.capability, action |-> action,
            scope |-> ScopeOf(r, b), target |-> r.target]]

\* runtimeDecisionRecord: a result with Applied is executed, every other one
\* with a message is deduplicated.
ResultIs(status, a) ==
  plan' = [plan EXCEPT !.pc = "record", !.status = status, !.activated = a]

FaultyActivate(a) ==
  /\ effect' \in {effect, effect \cup {a}}
  /\ lease' = lease \cup {a}
  /\ ResultIs("executed", a)

\* The adapter puts the action in force or not, and its answer may be lost.
\* recoverAfterExecuteError asks for the state, which is active or expired only
\* of an action that was in force; expired is a result without Applied.  With
\* any other answer, or if the lease or what follows it cannot be written, the
\* decision fails, with a live lease or without.
Activate(a) ==
  /\ effect' \in {effect, effect \cup {a}}
  /\ \/ a \in effect' /\ lease' = lease \cup {a} /\ ResultIs("executed", a)
     \/ a \in effect' /\ lease' = lease /\ ResultIs("deduplicated", a)
     \/ a \in effect' /\ lease' = lease \cup {a} /\ plan' = PlanIdle
     \/ lease' = lease /\ plan' = PlanIdle

\* executePlannedAction (RuntimeActions): a live lease of the dedup key is
\* reused, whoever made it.
Execute ==
  /\ PlanAt("execute")
  /\ LET a == RuntimeAction(plan.i, Request, plan.bundle, plan.action)
     IN  \/ \E l \in lease : /\ l.key = a.key
                             /\ ResultIs("deduplicated", l)
                             /\ UNCHANGED <<lease, effect>>
         \/ (\A l \in lease : l.key # a.key) /\ Activate(a)
  /\ UNCHANGED <<baselineVars, node, taken, bundle, assignment, loads,
                 journal>>

\* AppendRuntimeDecision: the record replaces an earlier one of the decision.
RecordDecision ==
  /\ PlanAt("record")
  /\ journal' = [journal EXCEPT ![plan.i] =
                   [status |-> plan.status, activated |-> plan.activated]]
  /\ plan' = PlanIdle
  /\ UNCHANGED <<baselineVars, node, taken, bundle, assignment, loads,
                 lease, effect>>

\* A call on the store or on the adapter fails, and with it the decision.
PlanFails == ~PlanAt("idle") /\ PlanTo(PlanIdle)

-----------------------------------------------------------------------------
(* The environment.                                                        *)

LeaseEnds(l) ==
  /\ l \in lease
  /\ lease' = lease \ {l}
  /\ UNCHANGED <<baselineVars, node, taken, plan, bundle, assignment, loads,
                 effect, journal>>

\* `kliq execute-action' on the same state file, with a decision id of its own
\* (0): the whole of ExecuteAction in one step, of which only a call that the
\* adapter obeys leaves anything here.
CommandExecutes(r) ==
  /\ WellFormed(r) /\ r.mode = "required"
  /\ bundle # None /\ VerifySignedRuntimeBundle(bundle)
  /\ AssignmentAllows(assignment) /\ RouteAllows(assignment, r)
  /\ WithinBundle(r, bundle) /\ r.action \in bundle.actions
  /\ \E g \in bundle.grants :
       GrantAllows(g, r, bundle, r.action) /\ ProvenanceMatches(g, r)
  /\ \E degraded \in BOOLEAN : FallbackAllows(assignment, degraded)
  /\ LET a == RuntimeAction(0, r, bundle, r.action)
     IN  /\ \A l \in lease : l.key # a.key
         /\ effect' = effect \cup {a}
         /\ lease' \in {lease, lease \cup {a}}
  /\ UNCHANGED <<baselineVars, node, taken, plan, bundle, assignment, loads,
                 journal>>

\* The daemon reads its decision file from the beginning.
Restart ==
  /\ restarts < node.restarts
  /\ BaselineRestart
  /\ taken' = 0
  /\ plan' = PlanIdle
  /\ UNCHANGED <<node, bundle, assignment, loads, lease, effect,
                 journal>>

PlanStep ==
  \/ CachedBundle \/ EnsureAssignment \/ EnsureRoute \/ ActionFromRisk
  \/ ValidateGrant \/ EnsureFallback \/ Execute \/ RecordDecision
  \/ PlanFails

Next ==
  \/ \E s \in node.signals :
       PlanAt("idle") /\ ReadSignal(s[1], s[2]) /\ UNCHANGED decisionVars
  \/ SignalStep /\ Len(version') <= node.versions /\ UNCHANGED decisionVars
  \/ OperatorStep /\ UNCHANGED decisionVars
  \/ now < node.horizon /\ Tick /\ UNCHANGED decisionVars
  \/ \E a \in node.assignments : DaemonLoads(a) \/ CommandLoads(a)
  \/ \E r \in node.commands : CommandExecutes(r)
  \/ NextDecision
  \/ PlanStep
  \/ \E l \in lease : LeaseEnds(l)
  \/ Restart

Spec == Init /\ [][Next]_vars

(***************************************************************************)
(* Fairness: the daemon goes on with the signal or the decision at hand,   *)
(* which means that no call hangs, and it comes back to its decisions (see *)
(* FrequentTasksRun of DaemonLoop).                                        *)
(***************************************************************************)
FairSpec ==
  /\ Spec
  /\ WF_vars(PlanStep)
  /\ WF_vars(SignalStep /\ Len(version') <= node.versions /\ UNCHANGED decisionVars)
  /\ SF_vars(NextDecision)

-----------------------------------------------------------------------------
(* Properties.                                                             *)

\* When the adapter is called, the signed bundle was valid when it was read and
\* holds an unexpired grant for the action, and the assignment was unexpired.
\* Both are still the active ones, unless a command loaded another between the
\* separate reads of planFromRequest, and they belong together, unless a command
\* ever loaded a bundle without its assignment.
ActsUnderAuthority ==
  PlanAt("execute") =>
    LET b == plan.bundle
        a == plan.assignment
    IN  /\ plan.read < b.envelopeExpiresAt
        /\ a # None => plan.checked < a.expiresAt
        /\ \E g \in b.grants : /\ g.id = Request.grant /\ g.action = plan.action
                               /\ g.expiresAt # None => plan.granted < g.expiresAt
        /\ loads = plan.loads => bundle = b /\ assignment = a
        /\ loads = 0 => a = b

\* An action that was derived from the cached risk rests on a risk that had not
\* run out when it was read, and this on a recorded deviation from a baseline
\* version that an operator approved: live learning does not lead to
\* enforcement.  The exception is a policy that acts on an unknown risk.
DerivedActionRestsOnApproval ==
  PlanAt("execute") /\ Request.action = None =>
    \/ /\ plan.risk # None
       /\ plan.assessed < plan.risk.validUntil
       /\ plan.risk.version \in deviation
       /\ Approved(plan.risk.version)
    \/ /\ plan.risk = None
       /\ Matching(plan.bundle, Request.riskType, "unknown") # {}

\* A runtime action is what the request asks for; what the request leaves open
\* follows from the bundle and from the risk.
AsksFor(r, a) ==
  /\ a.key.adapter = r.adapter /\ a.key.capability = r.capability
  /\ a.key.target = r.target
  /\ r.action # None => a.key.action = r.action
  /\ r.scope # None => a.key.scope = r.scope

\* The journal does not claim what did not happen.  Executed: the runtime action
\* it names is the decision's own and was put in force, although the answer may
\* have been lost.  Deduplicated: it names one that was put in force and is
\* what the decision asks for, by whatever decision or command; it is the
\* decision's own only if that ended before its lost answer could be recovered,
\* so that no lease of it is live.  And the journal does not hide what happened:
\* until a restart, after which a decision is taken again, a recorded decision
\* that put an action in force has a record that names it.
JournalMatchesEffects ==
  \A i \in DOMAIN source :
    LET j == journal[i]
    IN  /\ j.status \in {"executed", "deduplicated"} =>
             j.activated \in effect /\ AsksFor(source[i], j.activated)
        /\ j.status = "executed" => j.activated.decision = i
        /\ restarts = 0 /\ j.status = "deduplicated" /\ j.activated.decision = i =>
             j.activated \notin lease
        /\ restarts = 0 /\ j.status # "none" =>
             \A e \in effect : e.decision = i => j.activated = e

\* Every decision of the file is taken, although those before it are malformed
\* or fail: an error ends the cycle and not the source.
EveryDecisionIsTaken ==
  \A i \in 1 .. 3 : [](i \in DOMAIN source => <>(taken >= i))

=============================================================================
