------------------------------ MODULE Baseline ------------------------------
(***************************************************************************)
(* Baselines and local risk of a node: how the daemon turns the signals of *)
(* the adapters into samples, compares them with the promoted baseline,    *)
(* caches a risk when they deviate and learns new baseline versions        *)
(* (cmd/kliq/run.go, internal/kliq/baseline, internal/kliq/localrisk,      *)
(* internal/kliq/signals/projector over internal/kliq/actionstate), while  *)
(* an operator promotes or rejects versions with kernloomctl.              *)
(*                                                                         *)
(* A call on the store is one step and may fail.  Learned windows are      *)
(* write-only and left out.  A version id is a hash of the metric and the  *)
(* nanosecond it was learned in, so every learned version has an id of its *)
(* own: here its place in the sequence of versions.  The version in a risk *)
(* is that of the deviation it was evaluated for.  Quantities are counted  *)
(* in quarters (Unit), so that the medians below are whole numbers.  The   *)
(* operators named Faulty... are not part of the model: each is the        *)
(* definition that follows it with a plausible mistake, and a property is  *)
(* violated when it takes that definition's place.                         *)
(***************************************************************************)
EXTENDS Integers, Sequences, TLC

CONSTANTS
  Entities,     \* what a signal is about
  Metrics,      \* the names of the metrics
  Values,       \* the values of the samples
  MaxVersions,  \* bound on the learned versions
  MaxApprovals, \* bound on the decisions of the operator
  MinSamples,   \* the samples of a window, 5 by default
  MaxAge,       \* how long a cached risk is valid, 2m
  MaxTime,      \* bound on the clock
  MaxRestarts,  \* bound on the restarts of the daemon
  None          \* no version, no risk

Unit == 4

ASSUME BaselineAssumption ==
  /\ Values \subseteq {Unit * n : n \in 0 .. 1000}
  /\ MinSamples \in Nat \ {0}
  /\ MaxAge \in Nat \ {0}
  /\ MaxTime \in Nat
  /\ MaxRestarts \in Nat
  /\ MaxVersions \in Nat
  /\ MaxApprovals \in Nat
  /\ None \notin Nat

VARIABLES
  now,          \* the clock
  restarts,     \* the restarts of the daemon so far
  buffer,       \* d.baselineSamples, by entity and metric
  version,      \* tables baseline_versions and baseline_stats
  promoted,     \* the versions whose promoted_at is set
  approval,     \* table baseline_promotion_decisions
  deviation,    \* the versions with rows in baseline_deviation_events
  risk,         \* table risk_cache: its row for runtime_anomaly, local
  signal        \* the daemon's progress through a signal

baselineVars ==
  <<now, restarts, buffer, version, promoted, approval, deviation, risk, signal>>

Tiers == {"low", "medium", "high", "critical", "unknown"}

\* `todo' holds the samples still to process, `cur' the one at hand.
SignalIdle == [pc |-> "idle", entity |-> None, todo |-> {}, cur |-> None,
               active |-> None]

BaselineInit ==
  /\ now = 0
  /\ restarts = 0
  /\ buffer = [e \in Entities, m \in Metrics |-> <<>>]
  /\ version = <<>>
  /\ promoted = {}
  /\ approval = <<>>
  /\ deviation = {}
  /\ risk = None
  /\ signal = SignalIdle

-----------------------------------------------------------------------------
(* MedianMADEstimator, EvaluateSample and the risk recipe.                 *)

Distance(x, y) == IF x < y THEN y - x ELSE x - y

\* The middle of a sequence as it is ordered.
median(s) ==
  LET mid == Len(s) \div 2
  IN  IF s = <<>> THEN 0
      ELSE IF Len(s) % 2 = 1 THEN s[mid + 1] ELSE (s[mid] + s[mid + 1]) \div 2

Sorted(s) == SortSeq(s, <)

EstimateCenter(s) == median(Sorted(s))

\* The deviations keep the order of the sorted values.
EstimateSpread(s) ==
  LET center == EstimateCenter(s)
      deviations == [i \in DOMAIN s |-> Distance(Sorted(s)[i], center)]
      spread == median(deviations)
  IN  IF spread = 0 THEN Unit ELSE spread

\* EvaluateSample: the score |value - center| / spread is at least 3.
Deviates(v, x) == Distance(x, version[v].center) >= 3 * version[v].spread

\* deviationScore and tierForScore with the thresholds of the recipe
\* runtime_anomaly.standard; the score is 25 times the distance in spreads.
TierFor(v, x) ==
  LET atLeast(min) ==
        25 * Distance(x, version[v].center) >= min * version[v].spread
  IN  CASE atLeast(90) -> "critical"
        [] atLeast(70) -> "high"
        [] atLeast(30) -> "medium"
        [] OTHER       -> "low"

\* Percent: the confidence of a deviation and the recipe's minimum.
EventConfidence == 80

MinimumConfidence == 70

FaultyRiskTier(t) == IF risk = None THEN "unknown" ELSE risk.tier

\* RiskContext: the tier a reader gets; a missing or stale risk is unknown.
RiskTier(t) ==
  IF risk = None \/ ~(t < risk.validUntil) THEN "unknown" ELSE risk.tier

-----------------------------------------------------------------------------
(* processAdapterSignal: the samples of a signal in any order.             *)

SignalAt(pc) == signal.pc = pc

\* Metrics come from a map: each has one value.
SampleSets == {s \in SUBSET (Metrics \X Values) :
                 s # {} /\ \A p, q \in s : p[1] = q[1] => p = q}

\* ReadSignals and Project.
ReadSignal(e, s) ==
  /\ SignalAt("idle")
  /\ signal' = [SignalIdle EXCEPT !.pc = "next", !.entity = e, !.todo = s]
  /\ UNCHANGED <<now, restarts, buffer, version, promoted, approval, deviation,
                 risk>>

\* ActiveBaselineVersion for the next sample: without one it is only learned.
FindActive(p) ==
  /\ SignalAt("next")
  /\ p \in signal.todo
  /\ LET s == [signal EXCEPT !.cur = p, !.todo = @ \ {p}]
         found == {v \in promoted : version[v].entity = s.entity}
     IN  \/ found = {} /\ signal' = [s EXCEPT !.pc = "learn"]
         \/ \E v \in found : signal' = [s EXCEPT !.pc = "stats", !.active = v]
  /\ UNCHANGED <<now, restarts, buffer, version, promoted, approval, deviation,
                 risk>>

\* BaselineStats and EvaluateSample.  A version has statistics for one metric;
\* for another one the error ends the signal and its other samples are lost.
Evaluate ==
  /\ SignalAt("stats")
  /\ LET v == signal.active
     IN  signal' = IF version[v].metric # signal.cur[1] THEN SignalIdle
                   ELSE IF Deviates(v, signal.cur[2])
                        THEN [signal EXCEPT !.pc = "deviation"]
                        ELSE [signal EXCEPT !.pc = "learn"]
  /\ UNCHANGED <<now, restarts, buffer, version, promoted, approval, deviation,
                 risk>>

SaveDeviation ==
  /\ SignalAt("deviation")
  /\ deviation' = deviation \cup {signal.active}
  /\ signal' = [signal EXCEPT !.pc = "risk"]
  /\ UNCHANGED <<now, restarts, buffer, version, promoted, approval, risk>>

\* EvaluateDeviation: the risk replaces the cached one, whatever it was about.
SaveRisk ==
  /\ SignalAt("risk")
  /\ LET confident == EventConfidence >= MinimumConfidence
     IN  risk' = [tier |-> IF confident THEN TierFor(signal.active, signal.cur[2])
                           ELSE "unknown",
                  validUntil |-> IF confident THEN now + MaxAge ELSE now,
                  version |-> signal.active]
  /\ signal' = [signal EXCEPT !.pc = "learn"]
  /\ UNCHANGED <<now, restarts, buffer, version, promoted, approval, deviation>>

\* The next sample, or the end of the signal.
NextSample(s) ==
  IF s.todo = {} THEN SignalIdle
  ELSE [s EXCEPT !.pc = "next", !.cur = None, !.active = None]

\* learnBaselineSample: a full buffer is to become a version.
Learn ==
  /\ SignalAt("learn")
  /\ LET key == <<signal.entity, signal.cur[1]>>
         samples == Append(buffer[key], signal.cur[2])
     IN  IF Len(samples) < MinSamples
         THEN /\ buffer' = [buffer EXCEPT ![key] = samples]
              /\ signal' = NextSample(signal)
         ELSE /\ signal' = [signal EXCEPT !.pc = "freeze"]
              /\ UNCHANGED buffer
  /\ UNCHANGED <<now, restarts, version, promoted, approval, deviation, risk>>

\* LearnWindow: the version a full buffer is frozen to.
LearnWindow(key, samples) ==
  [entity |-> key[1], metric |-> key[2],
   center |-> EstimateCenter(samples), spread |-> EstimateSpread(samples)]

FaultyFreeze ==
  /\ SignalAt("freeze")
  /\ Len(version) < MaxVersions
  /\ LET key == <<signal.entity, signal.cur[1]>>
         samples == Append(buffer[key], signal.cur[2])
     IN  /\ version' = Append(version, LearnWindow(key, samples))
         /\ buffer' = [buffer EXCEPT ![key] = <<>>]
  /\ promoted' = promoted \cup {Len(version) + 1}
  /\ signal' = NextSample(signal)
  /\ UNCHANGED <<now, restarts, approval, deviation, risk>>

\* SaveBaselineVersion, never as promoted.
Freeze ==
  /\ SignalAt("freeze")
  /\ Len(version) < MaxVersions
  /\ LET key == <<signal.entity, signal.cur[1]>>
         samples == Append(buffer[key], signal.cur[2])
     IN  /\ version' = Append(version, LearnWindow(key, samples))
         /\ buffer' = [buffer EXCEPT ![key] = <<>>]
  /\ signal' = NextSample(signal)
  /\ UNCHANGED <<now, restarts, promoted, approval, deviation, risk>>

\* A store call fails: the finding is recorded and the signal is given up.
SignalFails ==
  /\ signal.pc \in {"next", "stats", "deviation", "risk", "freeze"}
  /\ signal' = SignalIdle
  /\ UNCHANGED <<now, restarts, buffer, version, promoted, approval, deviation,
                 risk>>

-----------------------------------------------------------------------------
(* kernloomctl baseline promote.                                           *)

SameEntity(v) == {w \in DOMAIN version : version[w].entity = version[v].entity}

\* The decision needs an id of its own: a used one undoes the transaction.
\* A rollback is a promotion with another label.
Decide(v, action) ==
  /\ Len(approval) < MaxApprovals
  /\ approval' = Append(approval, [version |-> v, action |-> action])

FaultyPromote(v) ==
  /\ Decide(v, "promote")
  /\ promoted' = promoted \cup {v}
  /\ UNCHANGED <<now, restarts, buffer, version, deviation, risk, signal>>

\* PromoteBaselineVersion, one transaction.
Promote(v) ==
  /\ Decide(v, "promote")
  /\ promoted' = (promoted \ SameEntity(v)) \cup {v}
  /\ UNCHANGED <<now, restarts, buffer, version, deviation, risk, signal>>

\* RejectBaselineVersion: a version that is promoted stays so.
Reject(v) ==
  /\ Decide(v, "reject")
  /\ UNCHANGED <<now, restarts, buffer, version, promoted, deviation, risk,
                 signal>>

-----------------------------------------------------------------------------

SignalStep ==
  \/ \E p \in Metrics \X Values : FindActive(p)
  \/ Evaluate
  \/ SaveDeviation
  \/ SaveRisk
  \/ Learn
  \/ Freeze
  \/ SignalFails

OperatorStep ==
  \E v \in DOMAIN version : Promote(v) \/ Reject(v)

Tick ==
  /\ now < MaxTime
  /\ now' = now + 1
  /\ UNCHANGED <<restarts, buffer, version, promoted, approval, deviation, risk,
                 signal>>

\* The daemon starts anew: what it had not saved is gone.
BaselineRestart ==
  /\ restarts < MaxRestarts
  /\ restarts' = restarts + 1
  /\ buffer' = [e \in Entities, m \in Metrics |-> <<>>]
  /\ signal' = SignalIdle
  /\ UNCHANGED <<now, version, promoted, approval, deviation, risk>>

-----------------------------------------------------------------------------
(* Properties.                                                             *)

\* Some decision put the version in force.
Approved(v) ==
  \E i \in DOMAIN approval : approval[i] = [version |-> v, action |-> "promote"]

\* What PromoteBaselineVersion promises of the table: samples of an entity are
\* compared with one version, so at most one of its versions is promoted, each
\* by a recorded decision to promote it or to roll back to it.
OneApprovedBaseline ==
  /\ promoted \subseteq DOMAIN version
  /\ \A v, w \in promoted : version[v].entity = version[w].entity => v = w
  /\ \A v \in promoted : Approved(v)

\* Live learning does not influence enforcement: a cached risk rests on a
\* recorded deviation from a version that was frozen and approved before.
RiskRestsOnApproval ==
  risk # None =>
    /\ risk.version \in DOMAIN version
    /\ risk.version \in deviation
    /\ Approved(risk.version)

\* No version changes, and the ones in force do so by a decision.
OnlyDecided ==
  /\ \A v \in DOMAIN version : v \in DOMAIN version' /\ version'[v] = version[v]
  /\ promoted' # promoted =>
       LET a == approval'[Len(approval) + 1]
       IN  /\ Len(approval') = Len(approval) + 1
           /\ a.action = "promote"
           /\ promoted' \ promoted \subseteq {a.version}
           /\ promoted \ promoted' \subseteq SameEntity(a.version)

\* A frozen version keeps its statistics, and is put in force or taken out of
\* it only by a decision that is recorded in the same step: learning another
\* version, a rejection or a restart never does.
FrozenUntilDecided == [][OnlyDecided]_baselineVars

\* What the comparison of samples relies on ("Median+MAD threshold"): the
\* spread of a version about to be frozen is the median of the distances of
\* its samples from their median, or 1 if that is 0.  Estimate takes the middle
\* one of the distances without sorting them.
SpreadIsMAD ==
  SignalAt("freeze") =>
    LET samples == Append(buffer[<<signal.entity, signal.cur[1]>>], signal.cur[2])
        center == median(Sorted(samples))
        mad == median(Sorted([i \in DOMAIN samples |-> Distance(samples[i], center)]))
    IN  EstimateSpread(samples) = IF mad = 0 THEN Unit ELSE mad

=============================================================================
