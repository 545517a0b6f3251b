------------------------ MODULE NodeDecisionsProofs ------------------------
(***************************************************************************)
(* Theorems about NodeDecisions and the Baseline it extends, for any       *)
(* nodes, signals, policies, limits and restarts.                          *)
(*                                                                         *)
(* The signals and the decisions of the daemon use what they read some     *)
(* steps ago.  The invariants carry what was checked at each step to the   *)
(* step where it matters: approvals and deviations are never withdrawn, so *)
(* a version that was promoted when it was read stays an approved one; the *)
(* daemon loads a bundle only between two decisions.  For the journal they *)
(* add that what a plan is about to record is true, and that until the     *)
(* first restart each decision is planned once, with nothing in force for  *)
(* it before it is executed.                                               *)
(***************************************************************************)
EXTENDS NodeDecisions, TLAPS

IsSeq(s) == \E S : s \in Seq(S)

IsSignal(s) ==
  \E p, e, t, c, a : s = [pc |-> p, entity |-> e, todo |-> t, cur |-> c, active |-> a]

\* A version that the signal at hand compares with was approved, and its
\* deviation is stored before the risk.
ActiveIsApproved ==
  SignalAt("stats") \/ SignalAt("deviation") \/ SignalAt("risk") =>
    /\ signal.active \in DOMAIN version
    /\ Approved(signal.active)
    /\ SignalAt("risk") => signal.active \in deviation

BaselineInv ==
  /\ IsSeq(version) /\ IsSeq(approval) /\ IsSignal(signal)
  /\ OneApprovedBaseline
  /\ ActiveIsApproved
  /\ RiskRestsOnApproval

-----------------------------------------------------------------------------
(* Sequences that grow.                                                    *)

\* What appending does, to versions and to decisions.
LEMMA AppendGrows ==
  ASSUME NEW s, IsSeq(s), NEW x, NEW u, u = Append(s, x)
  PROVE  /\ IsSeq(u)
         /\ DOMAIN u = DOMAIN s \cup {Len(s) + 1}
         /\ Len(s) + 1 \notin DOMAIN s
         /\ Len(u) = Len(s) + 1
         /\ \A i \in DOMAIN s : u[i] = s[i]
         /\ u[Len(s) + 1] = x
<1>1. PICK S : s \in Seq(S)
  BY DEF IsSeq
<1>2. PICK T : T = S \cup {x}
  OBVIOUS
<1>3. s \in Seq(T) /\ x \in T
  BY <1>1, <1>2
<1>4. u \in Seq(T)
  BY <1>3
<1>5. IsSeq(u)
  BY <1>4 DEF IsSeq
<1> QED BY <1>3, <1>5

\* Decisions are only added.
LEMMA ApprovalsGrow ==
  ASSUME BaselineInv,
         UNCHANGED approval \/ \E v, action : Decide(v, action)
  PROVE  /\ IsSeq(approval)'
         /\ \A v : Approved(v) => Approved(v)'
<1>1. CASE UNCHANGED approval
  BY <1>1 DEF BaselineInv, Approved, IsSeq
<1>2. ASSUME NEW v, NEW action, Decide(v, action)
      PROVE  IsSeq(approval)' /\ \A w : Approved(w) => Approved(w)'
  <2>1. PICK x : approval' = Append(approval, x)
    BY <1>2 DEF Decide
  <2>2. /\ IsSeq(approval') /\ DOMAIN approval \subseteq DOMAIN approval'
        /\ \A i \in DOMAIN approval : approval'[i] = approval[i]
    <3>1. IsSeq(approval)
      BY DEF BaselineInv
    <3>2. IsSeq(approval')
      BY <2>1, <3>1, AppendGrows
    <3>3. DOMAIN approval \subseteq DOMAIN approval'
      BY <2>1, <3>1, AppendGrows
    <3>4. \A i \in DOMAIN approval : approval'[i] = approval[i]
      BY <2>1, <3>1, AppendGrows
    <3> QED BY <3>2, <3>3, <3>4
  <2> QED BY <2>2 DEF Approved, IsSeq
<1> QED BY <1>1, <1>2

-----------------------------------------------------------------------------
(* The invariant of the baseline.                                          *)

BaselineStep ==
  \/ \E e \in Entities, s \in SampleSets : ReadSignal(e, s)
  \/ SignalStep
  \/ OperatorStep
  \/ Tick
  \/ BaselineRestart
  \/ UNCHANGED baselineVars

\* Every step of the node is one of the baseline's, or leaves it alone.
LEMMA StepOfBaseline ==
  ASSUME [Next]_vars, node \in Nodes
  PROVE  BaselineStep
<1>1. \A s \in node.signals : s[1] \in Entities /\ s[2] \in SampleSets
  BY DecisionsAssumption
<1>2. CASE PlanStep \/ NextDecision
  BY <1>2 DEF PlanStep, NextDecision, CachedBundle, VerifySignedRuntimeBundle,
              EnsureAssignment, EnsureRoute,
              ActionFromRisk, ValidateGrant, EnsureFallback, Execute, RecordDecision,
              PlanFails, PlanTo, BaselineStep
<1>3. CASE \E a \in node.assignments : DaemonLoads(a) \/ CommandLoads(a)
  BY <1>3 DEF DaemonLoads, CommandLoads, BaselineStep
<1>4. CASE (\E l \in lease : LeaseEnds(l)) \/ \E r \in node.commands : CommandExecutes(r)
  BY <1>4 DEF LeaseEnds, CommandExecutes, BaselineStep
<1>6. CASE Restart
  BY <1>6 DEF Restart, BaselineStep
<1>5. CASE UNCHANGED vars
  BY <1>5 DEF vars, BaselineStep
<1> QED BY <1>1, <1>2, <1>3, <1>4, <1>5, <1>6 DEF Next, BaselineStep

\* Nothing is learned or approved at the start.
LEMMA BaselineInvInit == Init => BaselineInv
<1> SUFFICES ASSUME Init PROVE BaselineInv
  OBVIOUS
<1>1. version = <<>> /\ approval = <<>> /\ promoted = {} /\ risk = None
      /\ signal = SignalIdle
  BY DEF Init, BaselineInit
<1>2. <<>> \in Seq({})
  OBVIOUS
<1>3. IsSeq(version) /\ IsSeq(approval)
  BY <1>1, <1>2 DEF IsSeq
<1>4. IsSignal(signal) /\ signal.pc = "idle"
  BY <1>1 DEF IsSignal, SignalIdle
<1> QED BY <1>1, <1>3, <1>4
    DEF BaselineInv, OneApprovedBaseline, ActiveIsApproved, RiskRestsOnApproval, SignalAt

\* A step that changes the signal at most, to one that compares with nothing.
LEMMA SignalMoves ==
  ASSUME BaselineInv, IsSignal(signal'),
         signal'.pc \notin {"stats", "deviation", "risk"},
         UNCHANGED <<version, promoted, approval, deviation, risk>>
  PROVE  BaselineInv'
BY DEF BaselineInv, OneApprovedBaseline, ActiveIsApproved, RiskRestsOnApproval, SignalAt,
       Approved, IsSeq, IsSignal

\* Every step preserves the invariant.
LEMMA BaselineInvStep == BaselineInv /\ BaselineStep => BaselineInv'
<1> SUFFICES ASSUME BaselineInv, BaselineStep PROVE BaselineInv'
  OBVIOUS
<1>a. PICK p, e, t, c, a :
        signal = [pc |-> p, entity |-> e, todo |-> t, cur |-> c, active |-> a]
  BY DEF BaselineInv, IsSignal
<1>b. IsSignal(SignalIdle) /\ SignalIdle.pc = "idle"
  BY DEF IsSignal, SignalIdle
<1>1. ASSUME NEW f, NEW s, ReadSignal(f, s) PROVE BaselineInv'
  <2>1. signal' = [pc |-> "next", entity |-> f, todo |-> s, cur |-> None, active |-> None]
    BY <1>1 DEF ReadSignal, SignalIdle
  <2> QED BY <1>1, <2>1, SignalMoves DEF ReadSignal, IsSignal
<1>2. ASSUME NEW x, FindActive(x) PROVE BaselineInv'
  <2>1. UNCHANGED <<version, promoted, approval, deviation, risk>>
    BY <1>2 DEF FindActive
  <2>2. CASE signal' = [pc |-> "learn", entity |-> e, todo |-> t \ {x}, cur |-> x,
                        active |-> a]
    BY <2>1, <2>2, SignalMoves DEF IsSignal
  <2>3. ASSUME NEW v \in promoted,
               signal' = [pc |-> "stats", entity |-> e, todo |-> t \ {x}, cur |-> x,
                          active |-> v]
        PROVE  BaselineInv'
    <3>1. v \in DOMAIN version /\ Approved(v)
      BY DEF BaselineInv, OneApprovedBaseline
    <3>2. IsSignal(signal)' /\ ActiveIsApproved'
      BY <2>1, <2>3, <3>1 DEF IsSignal, ActiveIsApproved, SignalAt, Approved
    <3> QED BY <2>1, <3>2
        DEF BaselineInv, OneApprovedBaseline, RiskRestsOnApproval, Approved, IsSeq
  <2> QED BY <1>2, <1>a, <2>2, <2>3 DEF FindActive
<1>3. CASE Evaluate
  <2>1. UNCHANGED <<version, promoted, approval, deviation, risk>> /\ p = "stats"
    BY <1>3, <1>a DEF Evaluate, SignalAt
  <2>2. CASE signal' = SignalIdle
    BY <1>b, <2>1, <2>2, SignalMoves
  <2>3. CASE signal' = [signal EXCEPT !.pc = "learn"]
    <3>1. signal' = [pc |-> "learn", entity |-> e, todo |-> t, cur |-> c, active |-> a]
      BY <1>a, <2>3
    <3> QED BY <2>1, <3>1, SignalMoves DEF IsSignal
  <2>4. CASE signal' = [signal EXCEPT !.pc = "deviation"]
    <3>1. signal' = [pc |-> "deviation", entity |-> e, todo |-> t, cur |-> c, active |-> a]
      BY <1>a, <2>4
    <3>2. a \in DOMAIN version /\ Approved(a)
      BY <1>a, <2>1 DEF BaselineInv, ActiveIsApproved, SignalAt
    <3>3. IsSignal(signal)' /\ ActiveIsApproved'
      BY <2>1, <3>1, <3>2 DEF IsSignal, ActiveIsApproved, SignalAt, Approved
    <3> QED BY <2>1, <3>3
        DEF BaselineInv, OneApprovedBaseline, RiskRestsOnApproval, Approved, IsSeq
  <2> QED BY <1>3, <2>2, <2>3, <2>4 DEF Evaluate
<1>4. CASE SaveDeviation
  <2>1. /\ p = "deviation" /\ deviation' = deviation \cup {a}
        /\ UNCHANGED <<version, promoted, approval, risk>>
    BY <1>4, <1>a DEF SaveDeviation, SignalAt
  <2>2. signal' = [pc |-> "risk", entity |-> e, todo |-> t, cur |-> c, active |-> a]
    BY <1>4, <1>a DEF SaveDeviation
  <2>3. a \in DOMAIN version /\ Approved(a)
    BY <1>a, <2>1 DEF BaselineInv, ActiveIsApproved, SignalAt
  <2>4. IsSignal(signal)' /\ ActiveIsApproved'
    BY <2>1, <2>2, <2>3 DEF IsSignal, ActiveIsApproved, SignalAt, Approved
  <2> QED BY <2>1, <2>4
      DEF BaselineInv, OneApprovedBaseline, RiskRestsOnApproval, Approved, IsSeq
<1>5. CASE SaveRisk
  <2>1. p = "risk" /\ UNCHANGED <<version, promoted, approval, deviation>>
    BY <1>5, <1>a DEF SaveRisk, SignalAt
  <2>2. signal' = [pc |-> "learn", entity |-> e, todo |-> t, cur |-> c, active |-> a]
    BY <1>5, <1>a DEF SaveRisk
  <2>3. a \in DOMAIN version /\ Approved(a) /\ a \in deviation
    BY <1>a, <2>1 DEF BaselineInv, ActiveIsApproved, SignalAt
  <2>4. risk'.version = a
    BY <1>5, <1>a DEF SaveRisk
  <2>5. RiskRestsOnApproval'
    BY <2>1, <2>3, <2>4 DEF RiskRestsOnApproval, Approved
  <2>6. IsSignal(signal)' /\ ActiveIsApproved'
    BY <2>2 DEF IsSignal, ActiveIsApproved, SignalAt
  <2> QED BY <2>1, <2>5, <2>6
      DEF BaselineInv, OneApprovedBaseline, Approved, IsSeq
<1>6. CASE Learn \/ Freeze
  <2>1. /\ UNCHANGED <<promoted, approval, deviation, risk>>
        /\ UNCHANGED version \/ \E x : version' = Append(version, x)
    BY <1>6 DEF Learn, Freeze, LearnWindow
  <2>2. IsSignal(signal') /\ signal'.pc \notin {"stats", "deviation", "risk"}
    <3>1. IsSignal(NextSample(signal))
          /\ NextSample(signal).pc \notin {"stats", "deviation", "risk"}
      BY <1>a, <1>b DEF NextSample, IsSignal
    <3>2. PICK s : s = [signal EXCEPT !.pc = "freeze"]
      OBVIOUS
    <3>3. s = [pc |-> "freeze", entity |-> e, todo |-> t, cur |-> c, active |-> a]
      BY <1>a, <3>2
    <3>4. IsSignal(s) /\ s.pc \notin {"stats", "deviation", "risk"}
      BY <3>3 DEF IsSignal
    <3> QED BY <1>6, <3>1, <3>2, <3>4 DEF Learn, Freeze, LearnWindow
  <2>3. CASE UNCHANGED version
    BY <2>1, <2>2, <2>3, SignalMoves
  <2>4. ASSUME NEW x, version' = Append(version, x) PROVE BaselineInv'
    <3>1. /\ IsSeq(version') /\ DOMAIN version \subseteq DOMAIN version'
          /\ \A v \in DOMAIN version : version'[v] = version[v]
      <4>1. IsSeq(version)
        BY DEF BaselineInv
      <4>2. IsSeq(version')
        BY <2>4, <4>1, AppendGrows
      <4>3. DOMAIN version \subseteq DOMAIN version'
        BY <2>4, <4>1, AppendGrows
      <4>4. \A v \in DOMAIN version : version'[v] = version[v]
        BY <2>4, <4>1, AppendGrows
      <4> QED BY <4>2, <4>3, <4>4
    <3>2. OneApprovedBaseline'
      BY <2>1, <3>1 DEF BaselineInv, OneApprovedBaseline, Approved
    <3>3. RiskRestsOnApproval'
      BY <2>1, <3>1 DEF BaselineInv, RiskRestsOnApproval, Approved
    <3> QED BY <2>1, <2>2, <3>1, <3>2, <3>3
        DEF BaselineInv, ActiveIsApproved, SignalAt, IsSeq, IsSignal
  <2> QED BY <2>1, <2>3, <2>4
<1>7. CASE SignalFails \/ BaselineRestart
  BY <1>7, <1>b, SignalMoves DEF SignalFails, BaselineRestart
<1>8. ASSUME NEW v \in DOMAIN version, Promote(v) PROVE BaselineInv'
  <2>1. /\ promoted' = (promoted \ SameEntity(v)) \cup {v} /\ Decide(v, "promote")
        /\ UNCHANGED <<version, deviation, risk, signal>>
    BY <1>8 DEF Promote
  <2>2. IsSeq(approval)' /\ \A w : Approved(w) => Approved(w)'
    BY <2>1, ApprovalsGrow
  <2>3. Approved(v)'
    <3>1. approval' = Append(approval, [version |-> v, action |-> "promote"])
      BY <2>1 DEF Decide
    <3>2. /\ Len(approval) + 1 \in DOMAIN approval'
          /\ approval'[Len(approval) + 1] = [version |-> v, action |-> "promote"]
      BY <3>1, AppendGrows DEF BaselineInv
    <3> QED BY <3>2 DEF Approved
  <2>4. OneApprovedBaseline'
    BY <2>1, <2>2, <2>3 DEF BaselineInv, OneApprovedBaseline, SameEntity
  <2>5. RiskRestsOnApproval' /\ ActiveIsApproved'
    BY <2>1, <2>2 DEF BaselineInv, RiskRestsOnApproval, ActiveIsApproved, SignalAt
  <2> QED BY <2>1, <2>2, <2>4, <2>5 DEF BaselineInv, IsSeq, IsSignal
<1>9. ASSUME NEW v \in DOMAIN version, Reject(v) PROVE BaselineInv'
  <2>1. UNCHANGED <<version, promoted, deviation, risk, signal>> /\ Decide(v, "reject")
    BY <1>9 DEF Reject
  <2>2. IsSeq(approval)' /\ \A w : Approved(w) => Approved(w)'
    BY <2>1, ApprovalsGrow
  <2> QED BY <2>1, <2>2
      DEF BaselineInv, OneApprovedBaseline, RiskRestsOnApproval, ActiveIsApproved,
          SignalAt, IsSeq, IsSignal
<1>10. CASE Tick \/ UNCHANGED baselineVars
  BY <1>10 DEF Tick, baselineVars, BaselineInv, OneApprovedBaseline, ActiveIsApproved,
               RiskRestsOnApproval, SignalAt, Approved, IsSeq, IsSignal
<1> QED BY <1>1, <1>2, <1>3, <1>4, <1>5, <1>6, <1>7, <1>8, <1>9, <1>10
    DEF BaselineStep, SignalStep, OperatorStep

-----------------------------------------------------------------------------
(* Plans and what they were checked against.                               *)

PlanOf(c, i, b, a, x, r, s, d, l, t1, t2, t3, t4) ==
  [pc |-> c, i |-> i, bundle |-> b, assignment |-> a, action |-> x, risk |-> r,
   status |-> s, activated |-> d, loads |-> l,
   read |-> t1, checked |-> t2, assessed |-> t3, granted |-> t4]

USE DEF PlanOf

IsPlan(p) ==
  \E c, i, b, a, x, r, s, d, l, t1, t2, t3, t4 :
    p = PlanOf(c, i, b, a, x, r, s, d, l, t1, t2, t3, t4)

AfterGrant == {"fallback", "execute"}

AfterRisk == {"grant"} \cup AfterGrant

AfterAssignment == {"route", "risk"} \cup AfterRisk

AfterBundle == {"assignment"} \cup AfterAssignment

\* What the plan p used was valid when it was read, and its action is the one
\* requested, if any.
Authorized(p) ==
  /\ p.pc = "risk" => source[p.i].action = None
  /\ p.pc \in AfterRisk /\ source[p.i].action # None => p.action = source[p.i].action
  /\ p.pc \in AfterBundle => p.read < p.bundle.envelopeExpiresAt
  /\ p.pc \in AfterAssignment /\ p.assignment # None =>
       p.checked < p.assignment.expiresAt
  /\ p.pc \in AfterGrant =>
       \E g \in p.bundle.grants :
         /\ g.id = source[p.i].grant /\ g.action = p.action
         /\ g.expiresAt # None => p.granted < g.expiresAt

\* Unless a command has loaded a bundle since, it still is what the node has.
Current(p) ==
  /\ p.pc \in AfterBundle => p.loads \in 0 .. loads
  /\ p.loads = loads => /\ p.pc \in AfterBundle => p.bundle = bundle
                        /\ p.pc \in AfterAssignment => p.assignment = assignment

\* A derived action rests on an approved baseline, or on an unknown risk.
RiskBacked(p) ==
  p.pc \in AfterRisk /\ source[p.i].action = None =>
    \/ /\ p.risk # None
       /\ p.assessed < p.risk.validUntil
       /\ p.risk.version \in deviation
       /\ Approved(p.risk.version)
    \/ /\ p.risk = None
       /\ Matching(p.bundle, source[p.i].riskType, "unknown") # {}

PlanInv ==
  /\ node \in Nodes
  /\ IsPlan(plan)
  /\ loads \in Nat
  /\ loads = 0 => bundle = assignment
  /\ Authorized(plan) /\ Current(plan) /\ RiskBacked(plan)

\* A plan that is not beyond reading the bundle has nothing to show.
LEMMA EarlyPlan ==
  ASSUME NEW p, p.pc \notin AfterBundle
  PROVE  Authorized(p) /\ Current(p) /\ RiskBacked(p)
BY DEF Authorized, Current, RiskBacked, AfterBundle, AfterAssignment, AfterRisk, AfterGrant

\* The idle plan.
LEMMA IdlePlan == IsPlan(PlanIdle) /\ PlanIdle.pc = "idle" /\ PlanIdle.pc \notin AfterBundle
<1>1. IsPlan(PlanIdle)
  BY DEF IsPlan, PlanIdle
<1>2. PlanIdle.pc = "idle"
  BY DEF PlanIdle
<1> QED BY <1>1, <1>2 DEF AfterBundle, AfterAssignment, AfterRisk, AfterGrant

\* A step of the plan to p, which leaves alone what it was checked against.
LEMMA PlanGoesTo ==
  ASSUME PlanInv, NEW p, plan' = p, IsPlan(p), Authorized(p), Current(p), RiskBacked(p),
         UNCHANGED <<node, loads, bundle, assignment, deviation, approval>>
  PROVE  PlanInv'
<1>1. IsPlan(plan)'
  <2>1. IsPlan(plan')
    OBVIOUS
  <2> QED BY <2>1 DEF IsPlan
<1>2. Authorized(plan)'
  BY DEF Authorized, source
<1>3. Current(plan)' /\ (loads' = 0 => bundle' = assignment')
  BY DEF PlanInv, Current
<1>4. RiskBacked(plan)'
  BY DEF RiskBacked, source, Matching, Approved
<1> QED BY <1>1, <1>2, <1>3, <1>4 DEF PlanInv

\* A step that leaves the plan alone; approvals and deviations are only added.
LEMMA PlanStays ==
  ASSUME PlanInv, UNCHANGED <<plan, node>>,
         UNCHANGED <<loads, bundle, assignment>> \/ loads' = loads + 1,
         deviation \subseteq deviation', \A v : Approved(v) => Approved(v)'
  PROVE  PlanInv'
<1>0. IsPlan(plan)'
  <2>1. IsPlan(plan)
    BY DEF PlanInv
  <2>2. IsPlan(plan')
    BY <2>1
  <2> QED BY <2>2 DEF IsPlan
<1>1. Authorized(plan)'
  BY DEF PlanInv, Authorized, source
<1>2. Current(plan)' /\ loads' \in Nat /\ (loads' = 0 => bundle' = assignment')
  <2>0. /\ loads \in Nat /\ (loads = 0 => bundle = assignment) /\ Current(plan)
        /\ AfterAssignment \subseteq AfterBundle
    BY DEF PlanInv, AfterBundle
  <2>1. CASE UNCHANGED <<loads, bundle, assignment>>
    BY <2>0, <2>1 DEF Current
  <2>2. CASE loads' = loads + 1
    BY <2>0, <2>2 DEF Current
  <2> QED BY <2>1, <2>2
<1>3. RiskBacked(plan)'
  BY DEF PlanInv, RiskBacked, source, Matching
<1> QED BY <1>0, <1>1, <1>2, <1>3 DEF PlanInv

\* No step of the baseline withdraws an approval or a deviation.
LEMMA BaselineGrows ==
  ASSUME BaselineInv, BaselineStep
  PROVE  deviation \subseteq deviation' /\ \A v : Approved(v) => Approved(v)'
<1>1. /\ deviation \subseteq deviation'
      /\ UNCHANGED approval \/ \E v, action : Decide(v, action)
  <2>1. CASE \E e \in Entities, s \in SampleSets : ReadSignal(e, s)
    BY <2>1 DEF ReadSignal
  <2>2. CASE \E p \in Metrics \X Values : FindActive(p)
    BY <2>2 DEF FindActive
  <2>3. CASE Evaluate \/ SaveDeviation \/ SaveRisk \/ Learn
    BY <2>3 DEF Evaluate, SaveDeviation, SaveRisk, Learn
  <2>4. CASE Freeze
    BY <2>4 DEF Freeze, LearnWindow
  <2>6. CASE SignalFails \/ Tick
    BY <2>6 DEF SignalFails, Tick
  <2>7. CASE BaselineRestart \/ UNCHANGED baselineVars
    BY <2>7 DEF BaselineRestart, baselineVars
  <2>5. ASSUME NEW v, Promote(v) \/ Reject(v)
        PROVE  /\ deviation \subseteq deviation'
               /\ UNCHANGED approval \/ \E w, action : Decide(w, action)
    BY <2>5 DEF Promote, Reject
  <2> QED BY <2>1, <2>2, <2>3, <2>4, <2>5, <2>6, <2>7
      DEF BaselineStep, SignalStep, OperatorStep
<1> QED BY <1>1, ApprovalsGrow

\* There is no plan at the start.
LEMMA PlanInvInit == Init => PlanInv
BY IdlePlan, EarlyPlan DEF Init, PlanInv

\* What ActionFromRisk takes from the cache.
LEMMA RiskIsBacked ==
  ASSUME BaselineInv, NEW t
  PROVE  TierOf(t) # "unknown" =>
           /\ risk # None /\ now < risk.validUntil
           /\ risk.version \in deviation /\ Approved(risk.version)
<1>1. SUFFICES ASSUME TierOf(t) # "unknown"
               PROVE  /\ risk # None /\ now < risk.validUntil
                      /\ risk.version \in deviation /\ Approved(risk.version)
  OBVIOUS
<1>2. risk # None /\ now < risk.validUntil
  BY <1>1 DEF TierOf, RiskTier
<1> QED BY <1>2 DEF BaselineInv, RiskRestsOnApproval

\* Every step of a plan preserves the invariant.
LEMMA PlanStepInv ==
  ASSUME PlanInv, BaselineInv, PlanStep \/ NextDecision
  PROVE  PlanInv'
<1>a. PICK c, i, b, a, x, r, s, d, l, t1, t2, t3, t4 :
        plan = PlanOf(c, i, b, a, x, r, s, d, l, t1, t2, t3, t4)
  BY DEF PlanInv, IsPlan
<1>q. PICK q : q = plan
  OBVIOUS
<1>l. q = PlanOf(c, i, b, a, x, r, s, d, l, t1, t2, t3, t4)
  BY <1>a, <1>q
<1>b. UNCHANGED <<node, loads, bundle, assignment, deviation, approval>>
  BY DEF PlanStep, NextDecision, CachedBundle, VerifySignedRuntimeBundle,
         EnsureAssignment, EnsureRoute,
         ActionFromRisk, ValidateGrant, EnsureFallback, Execute, RecordDecision,
         PlanFails, PlanTo, baselineVars
<1>c. Authorized(plan) /\ Current(plan) /\ RiskBacked(plan)
  BY DEF PlanInv
<1>d. ASSUME NEW p, plan' = p, IsPlan(p), p.pc \notin AfterBundle PROVE PlanInv'
  BY <1>b, <1>d, EarlyPlan, PlanGoesTo
<1>e. CASE plan' = PlanIdle
  BY <1>d, <1>e, IdlePlan
<1> USE DEF AfterBundle, AfterAssignment, AfterRisk, AfterGrant
<1>1. CASE NextDecision
  <2>1. CASE plan' = [PlanIdle EXCEPT !.pc = "bundle", !.i = taken + 1]
    <3>1. PICK p : p = [PlanIdle EXCEPT !.pc = "bundle", !.i = taken + 1]
      OBVIOUS
    <3>2. PICK q0 : q0 = PlanIdle
      OBVIOUS
    <3>4. q0 = PlanOf("idle", 0, None, None, None, None, "none", None, 0, 0, 0, 0, 0)
      BY <3>2 DEF PlanIdle
    <3>5. p = [q0 EXCEPT !.pc = "bundle", !.i = taken + 1]
      BY <3>1, <3>2
    <3>6. p = PlanOf("bundle", taken + 1, None, None, None, None, "none", None, 0, 0, 0, 0, 0)
      BY <3>4, <3>5
    <3>3. IsPlan(p) /\ p.pc \notin AfterBundle
      BY <3>6 DEF IsPlan
    <3> QED BY <1>d, <2>1, <3>1, <3>3
  <2> QED BY <1>1, <1>e, <2>1 DEF NextDecision
<1>2. CASE CachedBundle
  <2>1. CASE bundle # None /\ now < bundle.envelopeExpiresAt
    <3>0. PICK p : p = [q EXCEPT !.pc = "assignment", !.bundle = bundle, !.read = now,
                                 !.loads = loads]
      OBVIOUS
    <3>1. p = PlanOf("assignment", i, bundle, a, x, r, s, d, loads, now, t2, t3, t4)
      BY <1>l, <3>0
    <3>2. plan' = p
      BY <1>2, <1>q, <2>1, <3>0 DEF CachedBundle, VerifySignedRuntimeBundle, PlanTo
    <3>3. /\ IsPlan(p) /\ p.pc = "assignment" /\ p.read = now /\ p.bundle = bundle
          /\ p.loads = loads
      BY <3>1 DEF IsPlan
    <3>4. p.pc \notin AfterAssignment /\ p.pc \notin AfterRisk /\ p.pc \notin AfterGrant
      BY <3>3
    <3>5. Authorized(p) /\ RiskBacked(p)
      BY <2>1, <3>3, <3>4 DEF Authorized, RiskBacked
    <3>6. Current(p)
      BY <3>3, <3>4 DEF PlanInv, Current
    <3> QED BY <1>b, <3>2, <3>3, <3>5, <3>6, PlanGoesTo
  <2> QED BY <1>2, <1>e, <2>1 DEF CachedBundle, VerifySignedRuntimeBundle, PlanTo
<1>3. CASE EnsureAssignment
  <2>1. CASE AssignmentAllows(assignment)
    <3>0. PICK p : p = [q EXCEPT !.pc = "route", !.assignment = assignment,
                                 !.checked = now]
      OBVIOUS
    <3>1. p = PlanOf("route", i, b, assignment, x, r, s, d, l, t1, now, t3, t4)
      BY <1>l, <3>0
    <3>2. plan' = p /\ plan.pc = "assignment"
      BY <1>3, <1>q, <2>1, <3>0 DEF EnsureAssignment, PlanTo, PlanAt
    <3>3. /\ IsPlan(p) /\ p.pc = "route" /\ p.read = plan.read /\ p.bundle = plan.bundle
          /\ p.loads = plan.loads /\ p.assignment = assignment /\ p.checked = now
      BY <1>a, <3>1 DEF IsPlan
    <3>4. Authorized(p) /\ Current(p) /\ RiskBacked(p)
      BY <1>a, <1>c, <2>1, <3>2, <3>3
      DEF Authorized, Current, RiskBacked, AssignmentAllows
    <3> QED BY <1>b, <3>2, <3>3, <3>4, PlanGoesTo
  <2> QED BY <1>3, <1>e, <2>1 DEF EnsureAssignment, PlanTo
<1>4. CASE EnsureRoute
  <2>1. CASE RouteAllows(assignment, Request) /\ WithinBundle(Request, plan.bundle)
    <3>0. PICK p : p = [q EXCEPT !.pc = IF Request.action = None THEN "risk" ELSE "grant",
                                 !.action = Request.action]
      OBVIOUS
    <3>1. p = PlanOf(IF Request.action = None THEN "risk" ELSE "grant", i, b, a,
                     Request.action, r, s, d, l, t1, t2, t3, t4)
      BY <1>l, <3>0
    <3>2. plan' = p /\ plan.pc = "route"
      BY <1>4, <1>q, <2>1, <3>0 DEF EnsureRoute, PlanTo, PlanAt
    <3>3. /\ IsPlan(p) /\ p.read = plan.read /\ p.bundle = plan.bundle /\ p.i = plan.i
          /\ p.loads = plan.loads /\ p.assignment = plan.assignment /\ p.checked = plan.checked
          /\ p.pc = IF source[p.i].action = None THEN "risk" ELSE "grant"
          /\ p.action = source[p.i].action
      <4>1. PICK v, w : v = (IF Request.action = None THEN "risk" ELSE "grant")
                        /\ w = Request.action
        OBVIOUS
      <4>2. p = PlanOf(v, i, b, a, w, r, s, d, l, t1, t2, t3, t4)
        BY <3>1, <4>1
      <4>3. IsPlan(p)
        BY <4>2 DEF IsPlan
      <4>4. /\ p.read = q.read /\ p.bundle = q.bundle /\ p.i = q.i /\ p.loads = q.loads
            /\ p.assignment = q.assignment /\ p.checked = q.checked
            /\ p.pc = v /\ p.action = w
        BY <1>l, <4>2
      <4> QED BY <1>q, <4>1, <4>3, <4>4 DEF Request
    <3>4. Authorized(p) /\ Current(p) /\ RiskBacked(p)
      BY <1>a, <1>c, <3>2, <3>3 DEF Authorized, Current, RiskBacked
    <3> QED BY <1>b, <3>2, <3>3, <3>4, PlanGoesTo
  <2> QED BY <1>4, <1>e, <2>1 DEF EnsureRoute, PlanTo
<1>5. CASE ActionFromRisk
  <2> DEFINE tier == TierOf(Request.riskType)
             found == IF tier = "unknown" THEN None ELSE risk
  <2>1. c = "risk"
    BY <1>5, <1>a DEF ActionFromRisk, PlanAt
  <2>2. CASE plan' = PlanOf("record", i, b, a, x, found, "no_action", d, l, t1, t2, now, t4)
    <3>1. PICK p : p = plan'
      OBVIOUS
    <3>2. IsPlan(p) /\ p.pc = "record"
      BY <2>2, <3>1 DEF IsPlan
    <3> QED BY <1>d, <3>1, <3>2
  <2>3. ASSUME NEW y,
               plan' = PlanOf("grant", i, b, a, y, found, s, d, l, t1, t2, now, t4),
               Matching(plan.bundle, Request.riskType, tier) # {}
        PROVE  PlanInv'
    <3>1. PICK p : p = plan'
      OBVIOUS
    <3>2. /\ IsPlan(p) /\ p.pc = "grant" /\ p.i = plan.i /\ p.bundle = plan.bundle
          /\ p.loads = plan.loads /\ p.assignment = plan.assignment /\ p.read = plan.read
          /\ p.checked = plan.checked /\ p.risk = found /\ p.assessed = now
      BY <1>a, <2>3, <3>1 DEF IsPlan
    <3>3. RiskBacked(p)
      BY <2>3, <3>2, RiskIsBacked DEF RiskBacked, Request
    <3>4. Authorized(p) /\ Current(p)
      BY <1>a, <1>c, <2>1, <3>2 DEF Authorized, Current, Request
    <3> QED BY <1>b, <3>1, <3>2, <3>3, <3>4, PlanGoesTo
  <2>4. \/ plan' = PlanIdle
        \/ plan' = PlanOf("record", i, b, a, x, found, "no_action", d, l, t1, t2, now, t4)
        \/ /\ Matching(plan.bundle, Request.riskType, tier) # {}
           /\ \E y : plan' = PlanOf("grant", i, b, a, y, found, s, d, l, t1, t2, now, t4)
    <3>1. PICK v : v = found
      OBVIOUS
    <3>2. PICK u : u = [q EXCEPT !.risk = v, !.assessed = now]
      OBVIOUS
    <3>3. u = PlanOf(c, i, b, a, x, v, s, d, l, t1, t2, now, t4)
      BY <1>l, <3>2
    <3>4. \/ plan' = PlanIdle
          \/ plan' = [u EXCEPT !.pc = "record", !.status = "no_action"]
          \/ /\ Matching(plan.bundle, Request.riskType, tier) # {}
             /\ \E y : plan' = [u EXCEPT !.pc = "grant", !.action = y]
      BY <1>5, <1>q, <3>1, <3>2 DEF ActionFromRisk, PlanTo
    <3>5. ASSUME NEW p, p = [u EXCEPT !.pc = "record", !.status = "no_action"]
          PROVE  p = PlanOf("record", i, b, a, x, v, "no_action", d, l, t1, t2, now, t4)
      BY <3>3, <3>5
    <3>6. ASSUME NEW p, NEW y, p = [u EXCEPT !.pc = "grant", !.action = y]
          PROVE  p = PlanOf("grant", i, b, a, y, v, s, d, l, t1, t2, now, t4)
      BY <3>3, <3>6
    <3> QED BY <3>1, <3>4, <3>5, <3>6
  <2> QED BY <1>e, <2>2, <2>3, <2>4
<1>6. CASE ValidateGrant
  <2>1. CASE plan' = [plan EXCEPT !.pc = "fallback", !.granted = now]
    <3>0. PICK p : p = [q EXCEPT !.pc = "fallback", !.granted = now]
      OBVIOUS
    <3>1. p = PlanOf("fallback", i, b, a, x, r, s, d, l, t1, t2, t3, now)
      BY <1>l, <3>0
    <3>2. plan' = p /\ plan.pc = "grant"
      BY <1>6, <1>q, <2>1, <3>0 DEF ValidateGrant, PlanAt
    <3>3. /\ IsPlan(p) /\ p.pc = "fallback" /\ p.i = plan.i /\ p.bundle = plan.bundle
          /\ p.loads = plan.loads /\ p.assignment = plan.assignment /\ p.read = plan.read
          /\ p.checked = plan.checked /\ p.risk = plan.risk /\ p.action = plan.action
          /\ p.assessed = plan.assessed /\ p.granted = now
      BY <1>a, <3>1 DEF IsPlan
    <3>4. \E g \in plan.bundle.grants : GrantAllows(g, Request, plan.bundle, plan.action)
      <4>1. plan' # PlanIdle
        BY <3>2, <3>3, IdlePlan
      <4> QED BY <1>6, <4>1 DEF ValidateGrant, PlanTo
    <3>5. \E g \in p.bundle.grants :
            /\ g.id = source[p.i].grant /\ g.action = p.action
            /\ g.expiresAt # None => p.granted < g.expiresAt
      BY <3>3, <3>4 DEF GrantAllows, Request
    <3>6. /\ {plan.pc, p.pc} \subseteq AfterRisk
          /\ {plan.pc, p.pc} \subseteq AfterAssignment
          /\ {plan.pc, p.pc} \subseteq AfterBundle /\ p.pc # "risk"
      BY <3>2, <3>3
    <3> HIDE DEF AfterBundle, AfterAssignment, AfterRisk, AfterGrant
    <3>7. Authorized(p)
      BY <1>c, <3>3, <3>5, <3>6 DEF Authorized
    <3>8. Current(p)
      BY <1>c, <3>3, <3>6 DEF Current
    <3>9. RiskBacked(p)
      BY <1>c, <3>3, <3>6 DEF RiskBacked
    <3> QED BY <1>b, <3>2, <3>3, <3>7, <3>8, <3>9, PlanGoesTo
  <2> QED BY <1>6, <1>e, <2>1 DEF ValidateGrant, PlanTo
<1>7. CASE EnsureFallback
  <2>1. CASE plan' = [plan EXCEPT !.pc = "execute"]
    <3>1. PICK p : p = PlanOf("execute", i, b, a, x, r, s, d, l, t1, t2, t3, t4)
      OBVIOUS
    <3>2. plan' = p /\ c = "fallback"
      BY <1>7, <1>a, <2>1, <3>1 DEF EnsureFallback, PlanAt
    <3>3. /\ IsPlan(p) /\ p.pc = "execute" /\ p.i = plan.i /\ p.bundle = plan.bundle
          /\ p.loads = plan.loads /\ p.assignment = plan.assignment /\ p.read = plan.read
          /\ p.checked = plan.checked /\ p.risk = plan.risk /\ p.action = plan.action
          /\ p.assessed = plan.assessed /\ p.granted = plan.granted
      BY <1>a, <3>1 DEF IsPlan
    <3>4. plan.pc \in AfterGrant /\ p.pc \in AfterGrant
      BY <1>a, <3>2, <3>3 DEF AfterGrant
    <3>5. /\ {plan.pc, p.pc} \subseteq AfterRisk
          /\ {plan.pc, p.pc} \subseteq AfterAssignment
          /\ {plan.pc, p.pc} \subseteq AfterBundle
      BY <3>4 DEF AfterRisk, AfterAssignment, AfterBundle
    <3>6. Authorized(p)
      BY <1>c, <3>3, <3>4, <3>5 DEF Authorized
    <3>7. Current(p)
      BY <1>c, <3>3, <3>5 DEF Current
    <3>8. RiskBacked(p)
      BY <1>c, <3>3, <3>5 DEF RiskBacked
    <3> QED BY <1>b, <3>2, <3>3, <3>6, <3>7, <3>8, PlanGoesTo
  <2> QED BY <1>7, <1>e, <2>1 DEF EnsureFallback, PlanTo
<1>8. CASE Execute
  <2>0. CASE plan' = PlanIdle
    BY <1>e, <2>0
  <2>1. SUFFICES ASSUME NEW st, NEW dd,
                        plan' = [plan EXCEPT !.pc = "record", !.status = st, !.activated = dd]
                 PROVE  PlanInv'
    BY <1>8, <2>0 DEF Execute, Activate, ResultIs
  <2>2. PICK p : p = [q EXCEPT !.pc = "record", !.status = st, !.activated = dd]
    OBVIOUS
  <2>3. p = PlanOf("record", i, b, a, x, r, st, dd, l, t1, t2, t3, t4)
    BY <1>l, <2>2
  <2>4. IsPlan(p) /\ p.pc = "record" /\ plan' = p
    BY <1>q, <2>1, <2>2, <2>3 DEF IsPlan
  <2> QED BY <1>d, <2>4
<1>9. CASE RecordDecision \/ PlanFails
  BY <1>9, <1>e DEF RecordDecision, PlanFails, PlanTo
<1> QED BY <1>1, <1>2, <1>3, <1>4, <1>5, <1>6, <1>7, <1>8, <1>9 DEF PlanStep

\* The invariants of the baseline and of the plans together.
NodeInv == BaselineInv /\ PlanInv

\* Both invariants hold at the start.
LEMMA NodeInvInit == Init => NodeInv
BY BaselineInvInit, PlanInvInit DEF NodeInv

\* Every step of the node preserves them.
LEMMA NodeInvStep == NodeInv /\ [Next]_vars => NodeInv'
<1> SUFFICES ASSUME NodeInv, [Next]_vars PROVE NodeInv'
  OBVIOUS
<1>1. BaselineInv /\ PlanInv /\ node \in Nodes /\ loads \in Nat
  BY DEF NodeInv, PlanInv
<1>2. BaselineStep
  BY <1>1, StepOfBaseline
<1>3. BaselineInv'
  BY <1>1, <1>2, BaselineInvStep
<1>4. deviation \subseteq deviation' /\ \A v : Approved(v) => Approved(v)'
  BY <1>1, <1>2, BaselineGrows
<1>5. CASE PlanStep \/ NextDecision
  BY <1>1, <1>3, <1>5, PlanStepInv DEF NodeInv
<1>6. CASE UNCHANGED decisionVars
  BY <1>1, <1>3, <1>4, <1>6, PlanStays DEF NodeInv, decisionVars
<1>7. ASSUME NEW a \in node.assignments, DaemonLoads(a) PROVE NodeInv'
  <2>1. /\ plan.pc = "idle" /\ UNCHANGED <<node, loads, plan>>
        /\ bundle' = a /\ assignment' = a
    BY <1>7 DEF DaemonLoads, LoadManagedBundle, PlanAt
  <2>2. Authorized(plan)'
    BY <2>1 DEF Authorized, AfterBundle, AfterAssignment, AfterRisk, AfterGrant
  <2>3. Current(plan)'
    BY <2>1 DEF Current, AfterBundle, AfterAssignment, AfterRisk, AfterGrant
  <2>4. RiskBacked(plan)'
    BY <2>1 DEF RiskBacked, AfterRisk, AfterGrant
  <2>5. IsPlan(plan)'
    <3>1. IsPlan(plan)
      BY <1>1 DEF PlanInv
    <3>2. IsPlan(plan')
      BY <2>1, <3>1
    <3> QED BY <3>2 DEF IsPlan
  <2> QED BY <1>1, <1>3, <2>1, <2>2, <2>3, <2>4, <2>5 DEF NodeInv, PlanInv
<1>8. ASSUME NEW a \in node.assignments, CommandLoads(a) PROVE NodeInv'
  <2>1. loads' = loads + 1 /\ UNCHANGED <<node, plan>>
    BY <1>8 DEF CommandLoads, LoadManagedBundle
  <2> QED BY <1>1, <1>3, <1>4, <2>1, PlanStays DEF NodeInv
<1>9. CASE (\E l \in lease : LeaseEnds(l)) \/ \E r \in node.commands : CommandExecutes(r)
  BY <1>1, <1>3, <1>4, <1>9, PlanStays DEF NodeInv, LeaseEnds, CommandExecutes
<1>10. CASE Restart
  <2>1. /\ UNCHANGED <<node, loads, bundle, assignment, deviation, approval>>
        /\ plan' = PlanIdle
    BY <1>10 DEF Restart, BaselineRestart
  <2>2. PICK p : p = PlanIdle
    OBVIOUS
  <2>3. IsPlan(p) /\ Authorized(p) /\ Current(p) /\ RiskBacked(p)
    BY <2>2, IdlePlan, EarlyPlan
  <2> QED BY <1>1, <1>3, <2>1, <2>2, <2>3, PlanGoesTo DEF NodeInv
<1>11. CASE UNCHANGED vars
  BY <1>6, <1>11 DEF vars, decisionVars
<1> QED BY <1>5, <1>6, <1>7, <1>8, <1>9, <1>10, <1>11 DEF Next

\* So they hold in every behaviour.
LEMMA NodeInvariance == Spec => []NodeInv
<1>1. Init => NodeInv
  BY NodeInvInit
<1>2. NodeInv /\ [Next]_vars => NodeInv'
  BY NodeInvStep
<1> QED BY <1>1, <1>2, PTL DEF Spec

-----------------------------------------------------------------------------
(* The journal and the effects.                                            *)

\* Decision i has an effect in E.
InForce(E, i) == \E e \in E : e.decision = i

\* What a record with this status and runtime action claims of the decision i,
\* the request r, is true of the effects in E ...
Truthful(E, r, i, status, a) ==
  /\ status \in {"executed", "deduplicated"} => a \in E /\ AsksFor(r, a)
  /\ status = "executed" => a.decision = i

\* ... and it hides nothing of them and of the live leases in L.
Open(E, L, i, status, a) ==
  /\ status = "deduplicated" /\ a.decision = i => a \notin L
  /\ \A e \in E : e.decision = i => a = e

\* Until the first restart a decision is planned once: nothing is known of it
\* before, and nothing is in force for it until it is executed.
FirstRun ==
  /\ plan.pc # "idle" => plan.i = taken /\ journal[plan.i].status = "none"
  /\ \A e \in effect : e.decision \in 0 .. taken
  /\ \A i \in DOMAIN source : i > taken => journal[i].status = "none"
  /\ plan.pc \notin {"idle", "record"} => ~InForce(effect, plan.i)
  /\ plan.pc = "record" => Open(effect, lease, plan.i, plan.status, plan.activated)

JournalInv ==
  /\ taken \in Nat /\ restarts \in Nat
  /\ journal = [i \in DOMAIN source |-> journal[i]]
  /\ plan.pc # "idle" => plan.i \in DOMAIN source
  /\ plan.pc = "record" =>
       Truthful(effect, source[plan.i], plan.i, plan.status, plan.activated)
  /\ lease \subseteq effect
  /\ JournalMatchesEffects
  /\ restarts = 0 => FirstRun

\* The property, record by record.
LEMMA JournalRecords ==
  JournalMatchesEffects <=>
    \A i \in DOMAIN source :
      /\ Truthful(effect, source[i], i, journal[i].status, journal[i].activated)
      /\ restarts = 0 /\ journal[i].status # "none" =>
           Open(effect, lease, i, journal[i].status, journal[i].activated)
BY DEF JournalMatchesEffects, Truthful, Open

\* A plan goes on under way, finds nothing to do, or is given up.
LEMMA PlanGoesOn ==
  ASSUME IsPlan(plan), PlanStep, ~Execute, ~RecordDecision
  PROVE  /\ UNCHANGED <<restarts, node, taken, lease, effect, journal>>
         /\ plan.pc # "idle"
         /\ \/ plan' = PlanIdle
            \/ /\ plan.pc # "record" /\ plan'.i = plan.i
               /\ \/ plan'.pc \notin {"idle", "record"}
                  \/ plan'.pc = "record" /\ plan'.status = "no_action"
<1>q. PICK q : q = plan
  OBVIOUS
<1>p. PICK p : p = plan'
  OBVIOUS
<1> SUFFICES /\ UNCHANGED <<restarts, node, taken, lease, effect, journal>>
             /\ q.pc # "idle"
             /\ \/ p = PlanIdle
                \/ /\ q.pc # "record" /\ p.i = q.i
                   /\ \/ p.pc \notin {"idle", "record"}
                      \/ p.pc = "record" /\ p.status = "no_action"
  BY <1>p, <1>q
<1>a. PICK c, i, b, a, x, r, s, d, l, t1, t2, t3, t4 :
        q = PlanOf(c, i, b, a, x, r, s, d, l, t1, t2, t3, t4)
  <2>1. IsPlan(q)
    BY <1>q
  <2> QED BY <2>1 DEF IsPlan
<1>u. UNCHANGED <<restarts, node, taken, lease, effect, journal>>
  BY DEF PlanStep, CachedBundle, VerifySignedRuntimeBundle, EnsureAssignment,
         EnsureRoute, ActionFromRisk,
         ValidateGrant, EnsureFallback, PlanFails, PlanTo, baselineVars
<1>1. CASE CachedBundle
  <2>1. /\ q.pc = "bundle"
        /\ \/ p = PlanIdle
           \/ p = [q EXCEPT !.pc = "assignment", !.bundle = bundle, !.read = now,
                            !.loads = loads]
    BY <1>1, <1>p, <1>q DEF CachedBundle, VerifySignedRuntimeBundle, PlanTo, PlanAt
  <2>2. ASSUME p = [q EXCEPT !.pc = "assignment", !.bundle = bundle, !.read = now,
                             !.loads = loads]
        PROVE  p.pc = "assignment" /\ p.i = q.i
    BY <1>a, <2>2
  <2> QED BY <1>u, <2>1, <2>2
<1>2. CASE EnsureAssignment
  <2>1. /\ q.pc = "assignment"
        /\ \/ p = PlanIdle
           \/ p = [q EXCEPT !.pc = "route", !.assignment = assignment, !.checked = now]
    BY <1>2, <1>p, <1>q DEF EnsureAssignment, PlanTo, PlanAt
  <2>2. ASSUME p = [q EXCEPT !.pc = "route", !.assignment = assignment, !.checked = now]
        PROVE  p.pc = "route" /\ p.i = q.i
    BY <1>a, <2>2
  <2> QED BY <1>u, <2>1, <2>2
<1>3. CASE EnsureRoute
  <2>1. /\ q.pc = "route"
        /\ \/ p = PlanIdle
           \/ \E v \in {"risk", "grant"} : p = [q EXCEPT !.pc = v, !.action = Request.action]
    BY <1>3, <1>p, <1>q DEF EnsureRoute, PlanTo, PlanAt
  <2>2. ASSUME NEW v, p = [q EXCEPT !.pc = v, !.action = Request.action]
        PROVE  p.pc = v /\ p.i = q.i
    BY <1>a, <2>2
  <2> QED BY <1>u, <2>1, <2>2
<1>4. CASE ActionFromRisk
  <2>1. PICK v : v = IF TierOf(Request.riskType) = "unknown" THEN None ELSE risk
    OBVIOUS
  <2>2. PICK u : u = [q EXCEPT !.risk = v, !.assessed = now]
    OBVIOUS
  <2>3. u = PlanOf(c, i, b, a, x, v, s, d, l, t1, t2, now, t4)
    BY <1>a, <2>2
  <2>4. /\ q.pc = "risk"
        /\ \/ p = PlanIdle
           \/ p = [u EXCEPT !.pc = "record", !.status = "no_action"]
           \/ \E y : p = [u EXCEPT !.pc = "grant", !.action = y]
    BY <1>4, <1>p, <1>q, <2>1, <2>2 DEF ActionFromRisk, PlanTo, PlanAt
  <2>5. ASSUME p = [u EXCEPT !.pc = "record", !.status = "no_action"]
        PROVE  p.pc = "record" /\ p.status = "no_action" /\ p.i = q.i
    BY <1>a, <2>3, <2>5
  <2>6. ASSUME NEW y, p = [u EXCEPT !.pc = "grant", !.action = y]
        PROVE  p.pc = "grant" /\ p.i = q.i
    BY <1>a, <2>3, <2>6
  <2> QED BY <1>u, <2>4, <2>5, <2>6
<1>5. CASE ValidateGrant
  <2>1. /\ q.pc = "grant"
        /\ p = PlanIdle \/ p = [q EXCEPT !.pc = "fallback", !.granted = now]
    BY <1>5, <1>p, <1>q DEF ValidateGrant, PlanTo, PlanAt
  <2>2. ASSUME p = [q EXCEPT !.pc = "fallback", !.granted = now]
        PROVE  p.pc = "fallback" /\ p.i = q.i
    BY <1>a, <2>2
  <2> QED BY <1>u, <2>1, <2>2
<1>6. CASE EnsureFallback
  <2>1. /\ q.pc = "fallback"
        /\ p = PlanIdle \/ p = [q EXCEPT !.pc = "execute"]
    BY <1>6, <1>p, <1>q DEF EnsureFallback, PlanTo, PlanAt
  <2>2. ASSUME p = [q EXCEPT !.pc = "execute"]
        PROVE  p.pc = "execute" /\ p.i = q.i
    BY <1>a, <2>2
  <2> QED BY <1>u, <2>1, <2>2
<1>7. CASE PlanFails
  BY <1>7, <1>p, <1>q, <1>u DEF PlanFails, PlanTo, PlanAt
<1> QED BY <1>1, <1>2, <1>3, <1>4, <1>5, <1>6, <1>7 DEF PlanStep

\* The journal is empty at the start.
LEMMA JournalInvInit == Init => JournalInv
<1> SUFFICES ASSUME Init PROVE JournalInv
  OBVIOUS
<1>1. /\ taken = 0 /\ restarts = 0 /\ lease = {} /\ effect = {}
      /\ journal = [i \in DOMAIN source |-> NoRecord] /\ plan = PlanIdle
  BY DEF Init, BaselineInit
<1>2. plan.pc = "idle" /\ \A i \in DOMAIN source : journal[i] = NoRecord
  BY <1>1, IdlePlan
<1>3. NoRecord.status = "none"
  BY DEF NoRecord
<1>4. JournalMatchesEffects
  BY <1>1, <1>2, <1>3 DEF JournalMatchesEffects
<1>5. FirstRun
  BY <1>1, <1>2, <1>3 DEF FirstRun
<1>6. journal = [i \in DOMAIN source |-> journal[i]]
  BY <1>1
<1> QED BY <1>1, <1>2, <1>4, <1>5, <1>6 DEF JournalInv

\* Effects and leases of commands are no decision's, and refute no record.
LEMMA RecordStays ==
  ASSUME NEW E, NEW F, E \subseteq F, \A e \in F \ E : e.decision = 0,
         NEW L, NEW M, \A l \in M \ L : l.decision = 0,
         NEW r, NEW i, NEW status, NEW a, i # 0
  PROVE  /\ Truthful(E, r, i, status, a) => Truthful(F, r, i, status, a)
         /\ Open(E, L, i, status, a) => Open(F, M, i, status, a)
         /\ InForce(F, i) => InForce(E, i)
BY DEF Truthful, Open, InForce

\* A step that goes on with the plan at hand, or gives it up.
LEMMA JournalStays ==
  ASSUME JournalInv, node \in Nodes, UNCHANGED <<restarts, node, taken, journal>>,
         effect \subseteq effect', \A e \in effect' \ effect : e.decision = 0,
         lease' \subseteq effect', \A l \in lease' \ lease : l.decision = 0,
         plan'.pc # "idle" => plan.pc # "idle" /\ plan'.i = plan.i,
         plan'.pc \notin {"idle", "record"} => plan.pc # "record",
         plan'.pc = "record" =>
           \/ /\ plan.pc = "record" /\ plan'.status = plan.status
              /\ plan'.activated = plan.activated
           \/ plan.pc # "record" /\ plan'.status = "no_action"
  PROVE  JournalInv'
<1>1. source' = source /\ \A i \in DOMAIN source : i # 0
  <2>1. source' = source
    BY DEF source
  <2>2. DOMAIN source = 1 .. Len(source) /\ Len(source) \in Nat
    BY DecisionsAssumption DEF source
  <2> QED BY <2>1, <2>2
<1>r. ASSUME NEW i, NEW status, NEW a, i # 0
      PROVE  /\ Truthful(effect, source[i], i, status, a) =>
                  Truthful(effect', source[i], i, status, a)
             /\ Open(effect, lease, i, status, a) => Open(effect', lease', i, status, a)
             /\ InForce(effect', i) => InForce(effect, i)
  <2>1. PICK E, F, L, M : E = effect /\ F = effect' /\ L = lease /\ M = lease'
    OBVIOUS
  <2>2. PICK r : r = source[i]
    OBVIOUS
  <2>3. /\ E \subseteq F /\ (\A e \in F \ E : e.decision = 0)
        /\ \A l \in M \ L : l.decision = 0
    BY <2>1
  <2>4. /\ Truthful(E, r, i, status, a) => Truthful(F, r, i, status, a)
        /\ Open(E, L, i, status, a) => Open(F, M, i, status, a)
        /\ InForce(F, i) => InForce(E, i)
    BY <1>r, <2>3, RecordStays
  <2> QED BY <2>1, <2>2, <2>4
<1>2. JournalMatchesEffects'
  <2>1. \A i \in DOMAIN source :
          /\ Truthful(effect', source[i], i, journal[i].status, journal[i].activated)
          /\ restarts = 0 /\ journal[i].status # "none" =>
               Open(effect', lease', i, journal[i].status, journal[i].activated)
    BY <1>1, <1>r, JournalRecords DEF JournalInv
  <2> QED BY <1>1, <2>1 DEF JournalMatchesEffects, Truthful, Open
<1>3. plan'.pc # "idle" => plan'.i \in DOMAIN source /\ plan'.i # 0
  BY <1>1 DEF JournalInv
<1>4. restarts' = 0 => FirstRun'
  <2> SUFFICES ASSUME restarts = 0 PROVE FirstRun'
    OBVIOUS
  <2>0. FirstRun
    BY DEF JournalInv
  <2>1. plan'.pc # "idle" => plan'.i = taken' /\ journal'[plan'.i].status = "none"
    BY <2>0 DEF FirstRun
  <2>2. plan'.pc \notin {"idle", "record"} => ~InForce(effect', plan'.i)
    BY <1>3, <1>r, <2>0 DEF FirstRun
  <2>3. plan'.pc = "record" => Open(effect', lease', plan'.i, plan'.status, plan'.activated)
    <3>1. CASE plan.pc = "record"
      BY <1>3, <1>r, <2>0, <3>1 DEF FirstRun
    <3>2. CASE plan.pc # "record"
      <4>1. plan'.pc = "record" => ~InForce(effect', plan'.i) /\ plan'.status = "no_action"
        BY <1>3, <1>r, <2>0, <3>2 DEF FirstRun
      <4> QED BY <4>1 DEF Open, InForce
    <3> QED BY <3>1, <3>2
  <2>4. \A e \in effect' : e.decision \in 0 .. taken'
    <3>1. 0 \in 0 .. taken
      BY DEF JournalInv
    <3> QED BY <2>0, <3>1 DEF FirstRun
  <2>5. \A i \in DOMAIN source' : i > taken' => journal'[i].status = "none"
    BY <1>1, <2>0 DEF FirstRun
  <2> QED BY <2>1, <2>2, <2>3, <2>4, <2>5 DEF FirstRun
<1>5. plan'.pc = "record" =>
        Truthful(effect', source'[plan'.i], plan'.i, plan'.status, plan'.activated)
  <2>1. CASE plan.pc = "record"
    BY <1>1, <1>3, <1>r, <2>1 DEF JournalInv
  <2>2. CASE plan.pc # "record"
    BY <2>2 DEF Truthful
  <2> QED BY <2>1, <2>2
<1>6. /\ taken' \in Nat /\ restarts' \in Nat
      /\ journal' = [i \in DOMAIN source' |-> journal'[i]]
      /\ plan'.pc # "idle" => plan'.i \in DOMAIN source'
  BY <1>1, <1>3 DEF JournalInv
<1> QED BY <1>2, <1>4, <1>5, <1>6 DEF JournalInv

\* The outcomes of executePlannedAction: the live lease of another action with
\* the same aim, or the decision's own action, in force if it is recorded.
LEMMA ExecuteMoves ==
  ASSUME PlanInv, Execute
  PROVE  \E a :
           /\ a.decision = plan.i
           /\ UNCHANGED <<restarts, node, taken, journal>> /\ plan.pc = "execute"
           /\ plan'.pc # "idle" =>
                /\ plan'.pc = "record" /\ plan'.i = plan.i
                /\ AsksFor(Request, plan'.activated)
           /\ \/ /\ UNCHANGED <<lease, effect>> /\ plan'.pc = "record"
                 /\ plan'.status = "deduplicated" /\ plan'.activated \in lease
              \/ /\ effect' \in {effect, effect \cup {a}}
                 /\ lease' = lease \/ (lease' = lease \cup {a} /\ a \in effect')
                 /\ plan'.pc # "idle" =>
                      /\ plan'.activated = a /\ a \in effect'
                      /\ \/ plan'.status = "executed"
                         \/ plan'.status = "deduplicated" /\ lease' = lease
<1>q. PICK q : q = plan
  OBVIOUS
<1>p. PICK p : p = plan'
  OBVIOUS
<1>r. PICK r : r = Request
  OBVIOUS
<1>a. PICK k : k = [adapter |-> r.adapter, capability |-> r.capability,
                    action |-> plan.action, scope |-> ScopeOf(r, plan.bundle),
                    target |-> r.target]
  OBVIOUS
<1>b. PICK a : a = [decision |-> plan.i, bundle |-> plan.bundle, key |-> k]
  OBVIOUS
<1>c. a = RuntimeAction(plan.i, Request, plan.bundle, plan.action)
  BY <1>r, <1>a, <1>b DEF RuntimeAction
<1>1. a.decision = plan.i /\ a.key = k
  BY <1>b
<1>2. plan.pc = "execute" /\ (r.action # None => plan.action = r.action)
  BY <1>r DEF Execute, PlanAt, PlanInv, Authorized, Request, AfterRisk, AfterGrant
<1>3. ASSUME NEW l, l.key = k PROVE AsksFor(r, l)
  <2>1. /\ k.adapter = r.adapter /\ k.capability = r.capability /\ k.target = r.target
        /\ k.action = plan.action /\ k.scope = ScopeOf(r, plan.bundle)
    BY <1>a
  <2>2. r.scope # None => k.scope = r.scope
    BY <2>1 DEF ScopeOf
  <2> QED BY <1>2, <1>3, <2>1, <2>2 DEF AsksFor
<1>4. UNCHANGED <<restarts, node, taken, journal>>
  BY DEF Execute, baselineVars
<1>5. ASSUME NEW status, NEW d, ResultIs(status, d)
      PROVE  plan'.pc = "record" /\ plan'.i = plan.i /\ plan'.status = status
             /\ plan'.activated = d
  <2>1. PICK c, i, b, y, x, z, s, e, n, t1, t2, t3, t4 :
          q = PlanOf(c, i, b, y, x, z, s, e, n, t1, t2, t3, t4)
    <3>1. IsPlan(q)
      BY <1>q DEF PlanInv
    <3> QED BY <3>1 DEF IsPlan
  <2>2. p = [q EXCEPT !.pc = "record", !.status = status, !.activated = d]
    BY <1>5, <1>p, <1>q DEF ResultIs
  <2>3. p.pc = "record" /\ p.i = q.i /\ p.status = status /\ p.activated = d
    BY <2>1, <2>2
  <2> QED BY <1>p, <1>q, <2>3
<1>6. CASE \E l \in lease : /\ l.key = a.key
                            /\ ResultIs("deduplicated", l)
                            /\ UNCHANGED <<lease, effect>>
  <2>1. PICK l \in lease : l.key = k /\ ResultIs("deduplicated", l)
    BY <1>1, <1>6
  <2>2. /\ plan'.pc = "record" /\ plan'.i = plan.i /\ plan'.status = "deduplicated"
        /\ plan'.activated = l
    BY <1>5, <2>1
  <2>3. AsksFor(Request, l)
    BY <1>3, <1>r, <2>1
  <2> QED BY <1>1, <1>2, <1>4, <1>6, <2>1, <2>2, <2>3
<1>7. CASE Activate(a)
  <2>0. AsksFor(Request, a)
    BY <1>1, <1>3, <1>r
  <2>1. effect' \in {effect, effect \cup {a}}
    BY <1>7 DEF Activate
  <2>2. CASE a \in effect' /\ lease' = lease \cup {a} /\ ResultIs("executed", a)
    <3>1. /\ plan'.pc = "record" /\ plan'.i = plan.i /\ plan'.status = "executed"
          /\ plan'.activated = a
      BY <1>5, <2>2
    <3> QED BY <1>1, <1>2, <1>4, <2>0, <2>1, <2>2, <3>1
  <2>3. CASE a \in effect' /\ lease' = lease /\ ResultIs("deduplicated", a)
    <3>1. /\ plan'.pc = "record" /\ plan'.i = plan.i /\ plan'.status = "deduplicated"
          /\ plan'.activated = a
      BY <1>5, <2>3
    <3> QED BY <1>1, <1>2, <1>4, <2>0, <2>1, <2>3, <3>1
  <2>4. CASE /\ plan' = PlanIdle
             /\ lease' = lease \/ (lease' = lease \cup {a} /\ a \in effect')
    <3>1. plan'.pc = "idle"
      BY <2>4, IdlePlan
    <3> QED BY <1>1, <1>2, <1>4, <2>1, <2>4, <3>1
  <2> QED BY <1>7, <2>2, <2>3, <2>4 DEF Activate
<1> QED BY <1>6, <1>7, <1>c DEF Execute

\* Every step of the node preserves the invariant.
LEMMA JournalInvStep == NodeInv /\ JournalInv /\ [Next]_vars => JournalInv'
<1> SUFFICES ASSUME NodeInv, JournalInv, [Next]_vars PROVE JournalInv'
  OBVIOUS
<1>0. /\ IsPlan(plan) /\ node \in Nodes /\ taken \in Nat /\ restarts \in Nat
      /\ Len(source) \in Nat /\ DOMAIN source = 1 .. Len(source)
      /\ lease \subseteq effect /\ PlanInv
  BY DecisionsAssumption DEF NodeInv, PlanInv, JournalInv, source
<1>1. CASE PlanStep /\ ~Execute /\ ~RecordDecision
  <2>1. /\ UNCHANGED <<restarts, node, taken, lease, effect, journal>>
        /\ plan.pc # "idle"
        /\ \/ plan'.pc = "idle"
           \/ /\ plan.pc # "record" /\ plan'.i = plan.i
              /\ \/ plan'.pc \notin {"idle", "record"}
                 \/ plan'.pc = "record" /\ plan'.status = "no_action"
    BY <1>0, <1>1, PlanGoesOn, IdlePlan
  <2> QED BY <1>0, <2>1, JournalStays
<1>2. CASE NextDecision
  <2>1. /\ UNCHANGED <<restarts, node, lease, effect, journal>> /\ plan.pc = "idle"
        /\ taken' = taken + 1 /\ taken < Len(source)
        /\ plan' = PlanIdle \/ plan' = [PlanIdle EXCEPT !.pc = "bundle", !.i = taken + 1]
    BY <1>2 DEF NextDecision, PlanAt, baselineVars
  <2>2. plan'.pc = "idle" \/ (plan'.pc = "bundle" /\ plan'.i = taken + 1)
    <3>1. PICK q : q = PlanIdle
      OBVIOUS
    <3>2. PICK p : p = plan'
      OBVIOUS
    <3>3. q = PlanOf("idle", 0, None, None, None, None, "none", None, 0, 0, 0, 0, 0)
      BY <3>1 DEF PlanIdle
    <3>4. p = q \/ p = [q EXCEPT !.pc = "bundle", !.i = taken + 1]
      BY <2>1, <3>1, <3>2
    <3>5. CASE p = [q EXCEPT !.pc = "bundle", !.i = taken + 1]
      <4>1. p.pc = "bundle" /\ p.i = taken + 1
        BY <3>3, <3>5
      <4> QED BY <3>2, <4>1
    <3>6. CASE p = q
      <4>1. q.pc = "idle"
        BY <3>3
      <4> QED BY <3>2, <3>6, <4>1
    <3> QED BY <3>4, <3>5, <3>6
  <2>3. source' = source /\ taken + 1 \in DOMAIN source /\ taken' \in Nat
    BY <1>0, <2>1 DEF source
  <2>4. JournalMatchesEffects'
    BY <2>1, <2>3 DEF JournalInv, JournalMatchesEffects
  <2>5. restarts' = 0 => FirstRun'
    <3> SUFFICES ASSUME restarts = 0 PROVE FirstRun'
      BY <2>1
    <3>1. FirstRun
      BY DEF JournalInv
    <3>2. \A e \in effect' : e.decision \in 0 .. taken' /\ e.decision # taken + 1
      BY <1>0, <2>1, <3>1 DEF FirstRun
    <3>3. \A i \in DOMAIN source : i >= taken + 1 => journal'[i].status = "none"
      BY <1>0, <2>1, <3>1 DEF FirstRun
    <3>4. plan'.pc # "idle" => plan'.i = taken' /\ journal'[plan'.i].status = "none"
      BY <1>0, <2>1, <2>2, <2>3, <3>3
    <3>5. \A i \in DOMAIN source' : i > taken' => journal'[i].status = "none"
      BY <1>0, <2>1, <2>3, <3>3
    <3> QED BY <2>2, <3>2, <3>4, <3>5 DEF FirstRun, InForce
  <2>6. journal' = [i \in DOMAIN source' |-> journal'[i]]
    BY <2>1, <2>3 DEF JournalInv
  <2> QED BY <1>0, <2>1, <2>2, <2>3, <2>4, <2>5, <2>6 DEF JournalInv
<1>3. CASE Execute
  <2>1. PICK a :
          /\ a.decision = plan.i
          /\ UNCHANGED <<restarts, node, taken, journal>> /\ plan.pc = "execute"
          /\ plan'.pc # "idle" =>
               /\ plan'.pc = "record" /\ plan'.i = plan.i
               /\ AsksFor(Request, plan'.activated)
          /\ \/ /\ UNCHANGED <<lease, effect>> /\ plan'.pc = "record"
                /\ plan'.status = "deduplicated" /\ plan'.activated \in lease
             \/ /\ effect' \in {effect, effect \cup {a}}
                /\ lease' = lease \/ (lease' = lease \cup {a} /\ a \in effect')
                /\ plan'.pc # "idle" =>
                     /\ plan'.activated = a /\ a \in effect'
                     /\ \/ plan'.status = "executed"
                        \/ plan'.status = "deduplicated" /\ lease' = lease
    BY <1>0, <1>3, ExecuteMoves
  <2>2. /\ source' = source /\ plan.i \in DOMAIN source
        /\ plan'.pc # "idle" => AsksFor(source[plan.i], plan'.activated)
    BY <2>1 DEF JournalInv, source, Request
  <2>3. /\ effect \subseteq effect' /\ lease' \subseteq effect'
        /\ \A e \in effect' \ effect : e.decision = plan.i
        /\ \A l \in lease' \ lease : l.decision = plan.i
    BY <1>0, <2>1
  <2>4. plan'.pc = "record" =>
          Truthful(effect', source'[plan'.i], plan'.i, plan'.status, plan'.activated)
    BY <1>0, <2>1, <2>2 DEF Truthful
  <2>5. restarts = 0 =>
          /\ plan.i = taken /\ journal[plan.i].status = "none"
          /\ \A e \in effect : e.decision \in 0 .. taken
          /\ \A i \in DOMAIN source : i > taken => journal[i].status = "none"
          /\ ~InForce(effect, plan.i)
    BY <2>1 DEF JournalInv, FirstRun
  <2>6. JournalMatchesEffects'
    <3>1. ASSUME NEW i \in DOMAIN source
          PROVE  /\ Truthful(effect', source[i], i, journal[i].status, journal[i].activated)
                 /\ restarts = 0 /\ journal[i].status # "none" =>
                      Open(effect', lease', i, journal[i].status, journal[i].activated)
      <4>1. /\ Truthful(effect, source[i], i, journal[i].status, journal[i].activated)
            /\ restarts = 0 /\ journal[i].status # "none" =>
                 Open(effect, lease, i, journal[i].status, journal[i].activated)
        BY JournalRecords DEF JournalInv
      <4>2. Truthful(effect', source[i], i, journal[i].status, journal[i].activated)
        BY <2>3, <4>1 DEF Truthful
      <4>3. restarts = 0 /\ journal[i].status # "none" => i # plan.i
        BY <2>5
      <4> QED BY <2>3, <4>1, <4>2, <4>3 DEF Open
    <3> QED BY <2>1, <2>2, <3>1 DEF JournalMatchesEffects, Truthful, Open
  <2>7. restarts' = 0 => FirstRun'
    <3> SUFFICES ASSUME restarts = 0 PROVE FirstRun'
      BY <2>1
    <3>1. \A e \in effect' : e.decision \in 0 .. taken'
      <4>1. taken \in 0 .. taken
        BY <1>0
      <4> QED BY <2>1, <2>3, <2>5, <4>1
    <3>2. plan'.pc = "record" => Open(effect', lease', plan'.i, plan'.status, plan'.activated)
      <4> SUFFICES ASSUME plan'.pc = "record"
                   PROVE  Open(effect', lease', plan.i, plan'.status, plan'.activated)
        BY <2>1
      <4>1. \A e \in effect : e.decision # plan.i
        BY <2>5 DEF InForce
      <4>2. CASE UNCHANGED <<lease, effect>> /\ plan'.activated \in lease
        BY <1>0, <4>1, <4>2 DEF Open
      <4>3. CASE /\ effect' \in {effect, effect \cup {a}} /\ plan'.activated = a
                 /\ \/ plan'.status = "executed"
                    \/ plan'.status = "deduplicated" /\ lease' = lease
        <5>1. a \notin lease
          BY <1>0, <2>1, <4>1
        <5> QED BY <4>1, <4>3, <5>1 DEF Open
      <4> QED BY <2>1, <4>2, <4>3
    <3>3. plan'.pc # "idle" => plan'.i = taken' /\ journal'[plan'.i].status = "none"
      BY <2>1, <2>5
    <3>4. \A i \in DOMAIN source' : i > taken' => journal'[i].status = "none"
      BY <2>1, <2>2, <2>5
    <3> QED BY <2>1, <3>1, <3>2, <3>3, <3>4 DEF FirstRun
  <2>8. /\ taken' \in Nat /\ restarts' \in Nat /\ (plan'.pc # "idle" => plan'.i \in DOMAIN source')
        /\ journal' = [i \in DOMAIN source' |-> journal'[i]]
    BY <1>0, <2>1, <2>2 DEF JournalInv
  <2> QED BY <2>3, <2>4, <2>6, <2>7, <2>8 DEF JournalInv
<1>4. CASE RecordDecision
  <2>0. PICK w : w = [status |-> plan.status, activated |-> plan.activated]
    OBVIOUS
  <2>1. /\ UNCHANGED <<restarts, node, taken, lease, effect>> /\ plan.pc = "record"
        /\ journal' = [journal EXCEPT ![plan.i] = w]
        /\ plan'.pc = "idle" /\ source' = source
    BY <1>4, <2>0, IdlePlan DEF RecordDecision, PlanAt, baselineVars, source
  <2>2. /\ plan.i \in DOMAIN source
        /\ Truthful(effect, source[plan.i], plan.i, plan.status, plan.activated)
    BY <2>1 DEF JournalInv
  <2>3. /\ journal' = [i \in DOMAIN source |-> journal'[i]]
        /\ \A i \in DOMAIN source : journal'[i] = IF i = plan.i THEN w ELSE journal[i]
        /\ w.status = plan.status /\ w.activated = plan.activated
    BY <2>0, <2>1, <2>2 DEF JournalInv
  <2>4. restarts = 0 =>
          /\ plan.i = taken
          /\ \A e \in effect : e.decision \in 0 .. taken
          /\ \A i \in DOMAIN source : i > taken => journal[i].status = "none"
          /\ Open(effect, lease, plan.i, plan.status, plan.activated)
    BY <2>1 DEF JournalInv, FirstRun
  <2>5. JournalMatchesEffects'
    <3>1. ASSUME NEW i \in DOMAIN source
          PROVE  /\ Truthful(effect, source[i], i, journal'[i].status, journal'[i].activated)
                 /\ restarts = 0 /\ journal'[i].status # "none" =>
                      Open(effect, lease, i, journal'[i].status, journal'[i].activated)
      <4>1. CASE i = plan.i
        BY <2>2, <2>3, <2>4, <4>1
      <4>2. CASE i # plan.i
        BY <2>3, <4>2, JournalRecords DEF JournalInv
      <4> QED BY <4>1, <4>2
    <3> QED BY <2>1, <3>1 DEF JournalMatchesEffects, Truthful, Open
  <2>6. restarts' = 0 => FirstRun'
    <3> SUFFICES ASSUME restarts = 0 PROVE FirstRun'
      BY <2>1
    <3>1. plan.i = taken /\ taken \in Nat
      BY <1>0, <2>4
    <3>2. \A e \in effect' : e.decision \in 0 .. taken'
      BY <2>1, <2>4
    <3>3. \A i \in DOMAIN source : i > taken => journal'[i].status = "none"
      BY <2>3, <2>4, <3>1
    <3> QED BY <2>1, <3>2, <3>3 DEF FirstRun
  <2> QED BY <1>0, <2>1, <2>3, <2>5, <2>6 DEF JournalInv
<1>5. CASE Restart
  <2>1. /\ restarts' = restarts + 1 /\ taken' = 0 /\ plan'.pc = "idle"
        /\ UNCHANGED <<node, lease, effect, journal>> /\ source' = source
    BY <1>5, IdlePlan DEF Restart, BaselineRestart, source
  <2>2. restarts' \in Nat /\ restarts' > 0 /\ restarts' # 0
    BY <1>0, <2>1
  <2>3. JournalMatchesEffects'
    BY <2>1, <2>2 DEF JournalInv, JournalMatchesEffects
  <2>4. journal' = [i \in DOMAIN source' |-> journal'[i]]
    BY <2>1 DEF JournalInv
  <2> QED BY <1>0, <2>1, <2>2, <2>3, <2>4 DEF JournalInv
<1>6. ASSUME UNCHANGED <<restarts, node, taken, plan, effect, journal>>, lease' \subseteq lease
      PROVE  JournalInv'
  BY <1>0, <1>6, JournalStays
<1>7. CASE (\E l \in lease : LeaseEnds(l)) \/ UNCHANGED vars
  BY <1>6, <1>7 DEF LeaseEnds, baselineVars, vars, decisionVars
<1>8. CASE \E a \in node.assignments : DaemonLoads(a) \/ CommandLoads(a)
  BY <1>6, <1>8 DEF DaemonLoads, CommandLoads, LoadManagedBundle, baselineVars
<1>9. CASE SignalStep /\ UNCHANGED decisionVars
  BY <1>6, <1>9 DEF SignalStep, decisionVars, FindActive, Evaluate, SaveDeviation,
                    SaveRisk, Learn, Freeze, LearnWindow, SignalFails
<1>10. CASE UNCHANGED decisionVars /\ \/ OperatorStep \/ Tick
                                      \/ \E e, s : ReadSignal(e, s)
  BY <1>6, <1>10 DEF OperatorStep, Promote, Reject, Tick, ReadSignal, decisionVars
<1>11. ASSUME NEW r, CommandExecutes(r) PROVE JournalInv'
  <2>1. PICK a : /\ a = RuntimeAction(0, r, bundle, r.action)
                 /\ effect' = effect \cup {a} /\ lease' \in {lease, lease \cup {a}}
                 /\ UNCHANGED <<restarts, node, taken, plan, journal>>
    BY <1>11 DEF CommandExecutes, baselineVars
  <2>2. a.decision = 0
    BY <2>1 DEF RuntimeAction
  <2>3. /\ effect \subseteq effect' /\ lease' \subseteq effect'
        /\ \A e \in effect' \ effect : e.decision = 0
        /\ \A l \in lease' \ lease : l.decision = 0
    BY <1>0, <2>1, <2>2
  <2> QED BY <1>0, <2>1, <2>3, JournalStays
<1> QED BY <1>1, <1>2, <1>3, <1>4, <1>5, <1>7, <1>8, <1>9, <1>10, <1>11 DEF Next

-----------------------------------------------------------------------------
(* What follows for every file of decisions, every policy and every        *)
(* sequence of signals.                                                    *)

\* At most one version of an entity is in force, by a recorded decision
\* (PromoteBaselineVersion).
THEOREM BaselinesAreApproved == Spec => []OneApprovedBaseline
<1>1. NodeInv => OneApprovedBaseline
  BY DEF NodeInv, BaselineInv
<1> QED BY <1>1, NodeInvariance, PTL

\* The risk in the cache rests on a deviation from an approved version.
THEOREM RiskIsApproved == Spec => []RiskRestsOnApproval
<1>1. NodeInv => RiskRestsOnApproval
  BY DEF NodeInv, BaselineInv
<1> QED BY <1>1, NodeInvariance, PTL

\* planFromRequest reads bundle, assignment, risk and grant one after the other
\* and still calls the adapter only under a bundle, an assignment and a grant
\* that were valid when they were read; bundle and assignment belong together
\* and are the active ones unless a command loaded others.
THEOREM ActionsAreAuthorized == Spec => []ActsUnderAuthority
<1>1. NodeInv => ActsUnderAuthority
  <2> SUFFICES ASSUME PlanInv, plan.pc = "execute" PROVE ActsUnderAuthority
    BY DEF NodeInv, ActsUnderAuthority, PlanAt
  <2>1. /\ plan.pc \in AfterBundle /\ plan.pc \in AfterAssignment
        /\ plan.pc \in AfterGrant
    BY DEF AfterBundle, AfterAssignment, AfterRisk, AfterGrant
  <2>2. /\ plan.read < plan.bundle.envelopeExpiresAt
        /\ plan.assignment # None => plan.checked < plan.assignment.expiresAt
        /\ \E g \in plan.bundle.grants :
             /\ g.id = Request.grant /\ g.action = plan.action
             /\ g.expiresAt # None => plan.granted < g.expiresAt
    BY <2>1 DEF PlanInv, Authorized, Request
  <2>3. /\ loads = plan.loads => bundle = plan.bundle /\ assignment = plan.assignment
        /\ plan.loads \in 0 .. loads /\ loads \in Nat /\ (loads = 0 => bundle = assignment)
    BY <2>1 DEF PlanInv, Current
  <2>4. loads = 0 => plan.loads = 0
    BY <2>3
  <2>5. loads = 0 => plan.assignment = plan.bundle
    BY <2>3, <2>4
  <2> QED BY <2>2, <2>3, <2>5 DEF ActsUnderAuthority
<1> QED BY <1>1, NodeInvariance, PTL

\* Live learning does not lead to enforcement: an action that was derived from
\* the cached risk rests on a version that was approved.
THEOREM DerivedActionsAreApproved == Spec => []DerivedActionRestsOnApproval
<1>1. NodeInv => DerivedActionRestsOnApproval
  BY DEF NodeInv, PlanInv, RiskBacked, DerivedActionRestsOnApproval, PlanAt, Request,
         AfterRisk, AfterGrant
<1> QED BY <1>1, NodeInvariance, PTL

\* AppendRuntimeDecision follows the action: a decision that the journal calls
\* executed put its own action in force, one that it calls deduplicated names an
\* action that was in force and is what it asks for, and until a restart no
\* record hides an action that its decision put in force.
THEOREM JournalIsTrue == Spec => []JournalMatchesEffects
<1>1. JournalInv => JournalMatchesEffects
  BY DEF JournalInv
<1>2. Spec => []JournalInv
  BY JournalInvInit, JournalInvStep, NodeInvariance, PTL DEF Spec
<1> QED BY <1>1, <1>2, PTL

\* A frozen version is neither changed nor put in force by anything but a
\* recorded decision (SaveBaselineVersion, PromoteBaselineVersion).
THEOREM FrozenStaysFrozen == Spec => FrozenUntilDecided
<1>1. NodeInv /\ [Next]_vars => [OnlyDecided]_baselineVars
  <2> SUFFICES ASSUME NodeInv, [Next]_vars PROVE OnlyDecided \/ UNCHANGED baselineVars
    OBVIOUS
  <2>1. IsSeq(version) /\ IsSeq(approval) /\ BaselineStep
    BY StepOfBaseline DEF NodeInv, PlanInv, BaselineInv
  <2>2. CASE UNCHANGED <<version, promoted>>
    BY <2>2 DEF OnlyDecided
  <2>3. CASE Freeze
    <3>1. UNCHANGED promoted /\ \E x : version' = Append(version, x)
      BY <2>3 DEF Freeze, LearnWindow
    <3>2. \A v \in DOMAIN version : v \in DOMAIN version' /\ version'[v] = version[v]
      BY <2>1, <3>1, AppendGrows
    <3> QED BY <3>1, <3>2 DEF OnlyDecided
  <2>4. ASSUME NEW v \in DOMAIN version, Promote(v) PROVE OnlyDecided
    <3>1. /\ UNCHANGED version /\ promoted' = (promoted \ SameEntity(v)) \cup {v}
          /\ approval' = Append(approval, [version |-> v, action |-> "promote"])
      BY <2>4 DEF Promote, Decide
    <3>2. /\ Len(approval') = Len(approval) + 1
          /\ approval'[Len(approval) + 1] = [version |-> v, action |-> "promote"]
      <4>1. PICK x : x = [version |-> v, action |-> "promote"]
        OBVIOUS
      <4>2. PICK u : u = approval' /\ u = Append(approval, x)
        BY <3>1, <4>1
      <4>3. Len(u) = Len(approval) + 1 /\ u[Len(approval) + 1] = x
        BY <2>1, <4>2, AppendGrows
      <4> QED BY <4>1, <4>2, <4>3
    <3>3. /\ promoted' \ promoted \subseteq {v}
          /\ promoted \ promoted' \subseteq SameEntity(v)
      BY <3>1
    <3>4. PICK r : r = [version |-> v, action |-> "promote"]
      OBVIOUS
    <3>5. r.action = "promote" /\ r.version = v
      BY <3>4
    <3>6. /\ promoted' \ promoted \subseteq {r.version}
          /\ promoted \ promoted' \subseteq SameEntity(r.version)
      BY <3>3, <3>5
    <3>7. \A w \in DOMAIN version : w \in DOMAIN version' /\ version'[w] = version[w]
      BY <3>1
    <3> QED BY <3>2, <3>4, <3>5, <3>6, <3>7 DEF OnlyDecided
  <2>5. CASE \E e \in Entities, s \in SampleSets : ReadSignal(e, s)
    BY <2>2, <2>5 DEF ReadSignal
  <2>6. CASE \E p \in Metrics \X Values : FindActive(p)
    BY <2>2, <2>6 DEF FindActive
  <2>7. CASE Evaluate \/ SaveDeviation \/ SaveRisk \/ Learn \/ SignalFails
    BY <2>2, <2>7 DEF Evaluate, SaveDeviation, SaveRisk, Learn, SignalFails
  <2>8. CASE Tick \/ BaselineRestart \/ \E v \in DOMAIN version : Reject(v)
    BY <2>2, <2>8 DEF Tick, BaselineRestart, Reject
  <2> QED BY <2>1, <2>3, <2>4, <2>5, <2>6, <2>7, <2>8
      DEF BaselineStep, SignalStep, OperatorStep
<1> QED BY <1>1, NodeInvariance, PTL DEF Spec, FrozenUntilDecided

=============================================================================
