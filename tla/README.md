# Kernloom core: TLA+ models and proofs

Kernloom core is two long-running programs. **Forge** is the control plane: it
compiles policies, plans *assignments* for nodes, signs them and serves them over
HTTP, and stores what nodes report. **KLIQ** is the daemon on a node: it polls Forge
for its assignment, verifies and activates it, decides on runtime actions, carries
them out through *adapters* (separate gRPC services, not in this repository) and
reports back. A node keeps its state in one SQLite file, which the daemon shares with
the `kliq` commands.

This directory holds TLA+ modules for the parts of the system whose correctness
depends on the order of things, the TLC configurations that check them on small
instances, and TLAPS proofs of the main safety properties for every instance.
`PROJECT.json` lists the components, the runs, which lines each definition
translates, the hazards and the theorems.

    tlc -workers 2 -config AssignmentActivation.cfg MCAssignmentActivation
    tlapm AssignmentActivationProofs.tla

## 1. Inventory

What the system consists of, where its state is, and what is hard about it.

| Part | State | Operations that change it | Hard behaviour |
|---|---|---|---|
| KLIQ runtime actions (`internal/kliq/runtime/manager.go`, `adapter_executor.go`) | leases (SQLite), the adapter's own state | `ExecutePlan`/`executePlannedAction`, `recoverAfterExecuteError`, `Reconcile`, `expireLease` | check-then-act over separate statements, lost answers of the adapter, crashes between adapter and store, stale snapshot of leases |
| KLIQ audit spool (`actionstate/sqlite.go`) | table `audit_spool`, a hash chain | `AppendAudit` | three statements without a transaction; order by text timestamps |
| KLIQ audit upload (`cmd/kliq/run.go`, `forge/api/kliq_management.go`) | rows' status and retry count; Forge's audit events | `flushAuditSpool`, `MarkAuditUploaded`, `MarkAuditFailed`, `recordKLIQAuditUpload` | lost requests and acknowledgements, backoff, crash before the mark, revocation |
| KLIQ daemon loop (`cmd/kliq/run.go`) | tickers | `loop`, `resetTicker` | starvation of a task by the reset |
| KLIQ assignments (`runtime/manager.go`, `bundle/managed_source.go`, `core/domain/assignment.go`, `cmd/kliq/run.go`) | active assignment and artifacts (SQLite), adapter registry (memory) | `LoadManagedBundle`, `SaveManagedBundleActivation`, `activateManagedArtifacts` | version read before the network call and used after; store and registry updated in two steps; restart of either side |
| Forge assignments (`forge/management`, `forge/api/kliq_management.go`) | `kliq_assignments` | `SaveAssignment`, `RevokeAssignment`, `LatestAssignment`, planning | concurrent planners take the same version; revocation races an answer under way; the in-memory store forgets |
| Forge enrollment and trust (`forge/management`, `cmd/forge/main.go`) | tokens, registrations, trust bundles | issue, use, revoke a token; register, revoke a node; seed, save, rotate, revoke a key | read-validate-write without a lock, a token used up before registration fails, servers that start while keys are rotated |
| Forge jobs (`forge/jobs`, `cmd/forge-worker`, `storage/artifactstore`) | queue, job records, artifact files | `createSimulationJob`, `Enqueue`, `RunOnce`, `Put` | a worker dies between dequeue and the final save; Redis commands fail before or after their effect; a file is created and written in two calls |
| KLIQ decisions (`runtime/manager.go`, `cmd/kliq/run.go`) | decision source, cached bundle, risk cache, journal | `processRuntimeDecisions`, `ExecuteAction`, `planFromRequest`, `ExecutePlan` | one plan from many reads, each of which may be out of date at the next; malformed and failing decisions; the file replayed at a restart |
| KLIQ baseline and local risk (`kliq/baseline`, `kliq/localrisk`, `core/risk`) | buffers, versions, promotions, deviations, cached risk | `processAdapterSignal`, `learnBaselineSample`, `EvaluateDeviation`; promote, roll back, reject | what is learned must not be enforced before it is approved; estimators at small sample sizes |
| Forge builds (`forge/compiler`, `core/registry`) | artifact store, signed files, build manifests | `Compile` | artifacts one by one without undoing any; runs that share a directory; files edited meanwhile |
| Forge CI validation (`forge/validation/ci.go`, `forge/bindings`) | none of its own | `ValidateCI` | the checks and the compilation read the workspace separately |
| Intents, signing, authn/z, tools | mostly none | parsing, cryptography, I/O | out of reach of a model of states |

The properties that make each modelled part correct are in section 3; hazards that no
property covers yet are in `PROJECT.json` with the reason.

## 2. Order of the work

Most important behaviour first.

1. `RuntimeActions` with its abstract specification `ActionLifecycle`: what KLIQ does
   to the outside world. Proved.
2. `AuditSpool`: the record of what was done. Proved.
3. `AuditUpload`: the record reaches Forge. Proved but for its liveness.
4. `DaemonLoop`: the scheduling that the liveness properties of the others assume.
5. `AssignmentActivation`: what a node is allowed to act on, with Forge as its other
   half. Proved.
6. `ForgeManagement`: enrollment tokens, registrations, approved builds and the
   allocation of versions by concurrent planners over the Postgres store. Proved.
7. `TrustBundles`: the life of the keys. Proved.
8. `ForgeJobs`: queue, job record, artifact and workers that die. Proved but for its
   liveness.
9. `Baseline` and `NodeDecisions`: from signals to risk to a planned action, with the
   gates in between. Proved but for its liveness.
10. `Registry`, `PolicyCompiler`, `Bindings`, `CIValidation`: what a build contains, that
    a node can take it, and what a passed validation means. Proved.
11. `ManagedNode`: a node and the Forge that manages it, shown to implement
    `AssignmentActivation`. Proved.

## 3. Modules

Each component module has its state as variables, one action per call on the store,
the network or the adapter, and its properties at the end. An `MC` module gives the
constants of a small instance. Operators named `Faulty...` are mistaken variants of
the definition that follows them, used to show that a property can fail; no
specification refers to them.

### RuntimeActions, ActionLifecycle, RuntimeActionsProofs

Source: `executePlannedAction`, `recoverAfterExecuteError`, `recordFailedExecute`,
`Reconcile`, `reconcileActiveLease` and `expireLease` of
`internal/kliq/runtime/manager.go`, the lease statements of `actionstate/sqlite.go`,
`adapter_executor.go`.

| Variable | Code |
|---|---|
| `lease` | table `runtime_action_leases`; status `none` is a missing row |
| `adapter` | the adapter's runtime actions (external), with the attempt that put each in force |
| `authorized` | activation records in the audit spool, by action and attempt |
| `proc` | program counter and locals of each process that shares the state file |
| `now`, `crashes` | node clock; crash bound |

Actions follow the calls: `BeginExecute`, `Lookup` (`LeaseByDedupKey`),
`AuditActivation`, `Execute`, `Readback`; `BeginReconcile`, `Snapshot`
(`ActiveLeases`), `Visit`, `ReconcileState`; `CleanupDone`/`CleanupFailed`
(`executor.Cleanup`), `WriteDone`/`WriteFailed` (`UpsertLease`, `ExpireLease`),
`Report`; and the environment's `Crash`, `AdapterEnds`, `Tick`. A store call is one
SQL statement, hence atomic, and may fail. An adapter call may fail before or after it
took effect.

Abstractions: the lease journal is write-only and left out; so is
`last_reconciled_at`. The decision journal is in `NodeDecisions`. The conformance audit follows the rule of the activation audit.
The branch of `reconcileActiveLease` for an executor without state readback is not
reachable with the adapter executor. `ReconcileDryRun` only reads.

`ActionLifecycle` is the promise without the mechanism: an action is authorised, then
in force, then in the book, in this order; one live entry per key; expiries are fixed.

### AuditSpool

Source: `AppendAudit`, `latestAuditRecordHash`, `formatTime`. `AppendAudit`, `Link` and
`Insert` are the three statements of `AppendAudit`; `Begin` is the `m.now()` whose
value every record of one operation gets as `created_at`. `formatTime` is modelled by
what it does to the order: time is in half seconds and `TextRank` is the order of the
resulting texts ("10.5Z" sorts before "10Z"). A hash is the record it identifies.

### AuditUpload

Source: `flushAuditSpool`, `auditRetryDue`, `postManagedJSONResponse`,
`PendingAudits`, `MarkAuditUploaded`, `MarkAuditFailed`; at Forge
`recordKLIQAuditUpload` and the revocation of a registration. Times are ages that
saturate at the longest backoff, so the state space is finite without a bound on the
clock.

### DaemonLoop

Source: `loop` and `resetTicker`. `left` counts down to each tick, `ready` holds the
ticks not received yet, `serving` the task that runs. Reset discards a waiting tick,
as time.Ticker does since Go 1.23 (`go.mod` asks for 1.26).

### AssignmentActivation, AssignmentActivationProofs

Source: `LoadManagedBundle`, the managed source (`Load`, `verifyAssignment`,
`validateManagedAssignmentArtifacts`), `ValidateKLIQAssignmentActivation`,
`SaveManagedBundleActivation`, `pollManagedAssignment`, `activateManagedArtifacts`,
`managedPollFallback`; at Forge `SaveAssignment`, `RevokeAssignment`,
`LatestAssignment`.

| Variable | Code |
|---|---|
| `version`, `stored`, `revoked` | Forge's `kliq_assignments`: what is in the table, each with its version, and what is marked as revoked |
| `active` | `kliq_management_state`, `kliq_active_artifacts`, the last bundle: written in one transaction |
| `registry` | the daemon's adapter registry, in memory |
| `loader` | each process in `LoadManagedBundle`: what it read as active (`base`), what it fetched (`cur`) |

What an assignment says never changes, so its adapters, expiry, rollback approval and
whether it passes verification are constants over digests. Forge serves the newest
assignment in its table, or none if that one is revoked; any of them may be revoked. A
revoked registration shows to the node as a fetch that fails. `ForgeRestart` is Forge with the in-memory
store. The non-atomic branch of `LoadManagedBundle` (a store without
`SaveManagedBundleActivation`) is not reachable with SQLite; standalone bundles
(`kliq load-bundle`) are a step of `NodeDecisions`. A rotation of the trust key reaches the verifier of a
running daemon only at its restart; keys are part of `Invalid`.

### ForgeManagement, ForgeManagementProofs

Source: the handlers `approvePolicyBuildManifest`, `createEnrollmentToken`,
`enrollKLIQ`, `revokeEnrollmentToken`, `planKLIQAssignment`, `validateApprovedBuild`
with its checks, `latestKLIQAssignment`, `revokeKLIQAssignment` and
`revokeKLIQRegistration` of `internal/forge/api/kliq_management.go`, and the Postgres
store they call (`internal/forge/management/postgres.go`).

| Variable | Code |
|---|---|
| `token` | `kliq_enrollment_tokens`, by the `token_json` that decides |
| `registration` | `kliq_registrations` and `kliq_identities`, written together |
| `approvals` | approved manifests in the artifact store |
| `assigned` | `kliq_assignments` |
| `served` | the version a node was answered last (no counterpart in the code) |
| `request` | the request in each worker: the next store call, and what was read before |

Each call on the store is a step, so two requests interleave at every call.
`UseEnrollmentToken` locks the row; `RevokeEnrollmentToken` does not and may write
back a row that forgets a use. `SaveAssignment` is two steps, `CheckAssignment` and
`InsertAssignment`, the second guarded by the primary key alone. Reads that no
concurrent write can tell apart are merged: the two of `CheckAssignment`, and the read
and write of `RevokeKLIQ`, since nothing else updates a registration.

Abstractions: a request that is refused before it writes is no step. Expiry of tokens
and of approvals only refuses, so there is no clock. What a manifest says never
changes, so it is a constant: `ready` stands for the completeness and digest checks,
`traced` for the provenance of bindings and actions, `outputs` for the artifacts it
lists; a build has one adapter. `resolveAssignmentArtifacts` only refuses. Audit
events are write-only. `createDevKLIQAssignment` and the in-memory store, both for
development, are left out; so is `refreshKLIQServiceToken`, which stores nothing. A token is
used up before the node is registered: if the registration fails it is spent, and the
node needs another one; nothing promises more.

### ManagedNode

`ForgeManagement` with the processes of one node, which load and activate what its
handlers answer. The node's variables and steps are those of `AssignmentActivation`
(`NodeStep`), but for `Fetch`: the answer of `LatestAssignment` to a request of the node
reaches the process that asked. The digest of an assignment is what is signed, its
version, build and artifacts (`ContentsOf`). `View` maps the table to the Forge of
`AssignmentActivation`: the rows of the node are `stored`, those marked are `revoked`,
and a row gives its contents their version. `AssignmentActivation` publishes, revokes
and answers in one step each; here these are the interleaved calls of any number of
requests. A restart of the in-memory store has no counterpart.

### TrustBundles

Source: `SaveTrustBundle`, `RotateTrustBundle`, `RevokeTrustBundle` and `saveRevocation`
of `postgres.go`, `validateTrustBundleUpdate` and `validateNewTrustBundle` of
`store.go`, the handlers that call them, and `validateOrSeedManagementTrustBundle` of
`cmd/forge/main.go`. `trust` is the table, `revocation` the recorded revocations, `call`
the progress of each request or starting server; `successor` and `reseeded` are history.
Each statement is a step: `ValidateSave` and `WriteSave` are the two halves of
`SaveTrustBundle`, `CommitRotation` is the transaction whose `WHERE` clauses decide.
Public key, purpose and issuer are one record (`material`): a save must repeat all of it,
a rotation only the purpose. The in-memory store does each operation under one lock,
which is one of the interleavings.

### ForgeJobs

Source: `createSimulationJob` of `forge/api/server.go`, `forge/jobs`, the Redis client,
`cmd/forge-worker` and `FSStore.Put`. A Redis command may fail before or after it took
effect, so each step on the store has three forms. `Put` and `WriteArtifact` are the
exclusive creation of the file and the write that follows, which may fail and leave a
partial file. The path holds the hash of the content, so two jobs with the same content
share it. `lost` is history: jobs whose worker was hit by a fault.

### Baseline

Source: `processAdapterSignal`, `evaluateBaselineSample` and `learnBaselineSample` of
`cmd/kliq/run.go`, `LearnWindow`, `Estimate` and `EvaluateSample` of `kliq/baseline`,
`EvaluateDeviation` of `kliq/localrisk`, `Project` of the KLShield projector, and the
statements on baselines of `actionstate/sqlite.go`; the operator's `kernloomctl
baseline` commands.

| Variable | Code |
|---|---|
| `buffer` | `d.baselineSamples`, in memory |
| `version`, `approval` | `baseline_versions` with their statistics; promotion decisions |
| `deviation`, `risk` | recorded deviations; the row of `risk_cache` |
| `signal` | the daemon's progress through the samples of one signal |

`median`, `EstimateCenter` and `EstimateSpread` are the estimator as functions; values
are in quarters so that medians of even windows are whole numbers. Windows are saved
and never read again; they are left out. The id of a learned version contains the
nanosecond, so a version is never saved twice: the clearing of `promoted_at` by the
upsert of `SaveBaselineVersion` has no effect on an active one.

Two observations that are no properties: a sample deviates at 3 spreads, which already
scores 75, so that `tierForScore` never yields *medium* or *low*; and rejecting a version that is
promoted leaves it in force.

### NodeDecisions, NodeDecisionsProofs

Source: `processRuntimeDecisions`, the decision file, `ExecuteAction`,
`planFromRequest` with its gates (`CachedBundle`,
`ensureActiveAssignmentAllowsNewActions`, `ensureActiveContextRouteAllowsAction`,
`actionFromRiskCache`, `validateCapabilityGrant`, `validateRequestedProvenance`,
`ensureActiveFallbackAllowsExecution`), `ExecutePlan`, `executePlannedAction` with
`recoverAfterExecuteError`, and `AppendRuntimeDecision`; the daemon's poll and the
commands `load-managed-bundle`, `load-bundle` and `execute-action`.

`plan` holds how far the daemon is with the decision at hand and what it has read so far, with
the times of the reads; each read of the store is a step. `bundle` and `assignment` are
what is active; `CommandLoads` replaces them between two reads. `taken` is the index of
the decision file, which a restart sets back. A runtime action is named by decision,
bundle and dedup key, as `leaseFromPlannedAction` does; `lease` holds those with a live
lease, `effect` those that were ever put in force, `journal` the decision journal with the
action each record names. `Execute` reuses a live lease of the key or calls the adapter
(`Activate`): the answer may be lost, in which case the readback says active (the decision
counts as executed), expired (it is journalled as deduplicated, without a lease) or
anything else (it fails); and a write after the effect may fail, with the lease in the
store or not. `CommandExecutes` is `kliq execute-action`, whose leases the daemon may find.
The cached bundle is verified again at each
read: what can have changed is whether its envelope has expired
(`VerifySignedRuntimeBundle`). The four provenance fields are one value.

### Registry, PolicyCompiler, Bindings, CIValidation, MCBuilds

Source: `core/registry/registry.go`, `forge/compiler/compiler.go`,
`forge/bindings/bindings.go`, `forge/validation/ci.go`. `Registry` and `Bindings` have
no state: they are the checks and lookups over a *workspace* (the files on disk) as
operators. What one file must contain by itself is one Boolean of it; what relates two
files is modelled. `PolicyCompiler` has the state: the progress of each run, the artifact
store, the signed files, the build manifests. `Load` reads catalog and manifests,
`NextPolicy` reads the next policy, then each artifact goes through `StoreArtifact`,
`SignArtifact` and `StoreEnvelope`, the build manifest last; `Edit` changes the
workspace once, `CompileDies` is a failing write or a kill. `CIValidation` adds
`ValidateCI`, whose findings are one step and whose compilations follow as calls of
`Compile`.

`NodeActivates`, `NodeAccepts` and `RouteAdmits` are the node's checks applied to what
the compiler emits: those of `validateManagedAssignmentArtifacts`, those that
`planFromRequest` applies to a request under a grant (the gate `RuntimeAllowed`, the limits
of the bundle, the action, and `validateCapabilityGrant` as `NodeGrants`), and
`routeAllowsConsumer`. The checks of an adapter manifest are left out: the compiler's own
loader has already demanded what they ask for.

`ProjectsAssumption` says what the readers of the files guarantee of a workspace
(`WellRead`) and the callers of a run (`RunWellFormed`); the proofs use it, and TLC
evaluates it for the projects below. Files are numbered in the order of their paths, so
that the sort of `PolicyFiles` is `Ascending`.

`MCBuilds` lists the projects: one workspace in which all is well, about fifty that
differ in one thing, edits, requests and runs side by side.

### How the modules fit together

The modules share state in the code; each keeps what its properties tell apart.
`RuntimeActions` keeps of the audit spool which activations were authorised, and
`AuditSpool` how those records are linked; `AuditUpload` follows the same rows to
Forge. `Publish`, `RevokeAssignment` and `Fetch` of `AssignmentActivation` are the
planning, revocation and serving of `ForgeManagement` as one node sees them:
`ManagedNode` composes the two and states this as `ImplementsActivation`. The registry that `AssignmentActivation` builds is the constant `Registered`
of `RuntimeActions` and of `NodeDecisions`. `NodeDecisions` extends `Baseline`, whose risk
cache it reads, and takes the execution of a plan as one step, which `RuntimeActions`
takes apart. `CIValidation` extends `Bindings`, `PolicyCompiler` and `Registry`, since a
validation ends with compilations; a build that passes is what `ForgeManagement` starts
from (`Manifest`), and `NodeTakesBuilds` compares it with what `AssignmentActivation`
and `NodeDecisions` demand. The liveness properties of `RuntimeActions`, `AuditUpload`,
`AssignmentActivation` and `NodeDecisions` assume that the daemon returns to its tasks;
`DaemonLoop` shows when it does.

## 4. Runs

| Run | Instance | Checks |
|---|---|---|
| `actions_shared` | daemon and command, two actions of one dedup key | `OneLiveLeasePerKey`, `EffectWasAudited`, `LiveLeaseWasActivated`, `LeaseExpiryNeverMoves`, `ImplementsLifecycle` |
| `actions_daemon` | the daemon alone, two adapters of which one may fail for ever, one crash | `ExecutesOnlyWithoutLease`, `OnlyExecutionRevives`, `ExpiredOnlyAfterRevoke`, `DaemonEndsExpiredLeases` |
| `actions_ttl` | the daemon alone, one action | `ActivationGetsItsTTL`: violated |
| `background` | one of: two writers and five audit records with equal and out-of-order times; two records to upload, one that Forge refuses for ever, one crash; two profiles that poll least often; three jobs, two workers, one fault | `ChainIsWellFounded`, `AppendOnly`; `UploadedWasReceived`, `UploadedForGood`, `EveryRecordUploaded`; `LoopTasksRun`; `JobHasOneOwner`, `SucceededIsStored`, `AcceptedJobsEnd` |
| `spool_chain` | one writer | `LinkedChain`: violated |
| `loop_defaults` | the default intervals | `EveryTaskRuns`: violated |
| `assignment` | daemon and command; a plain assignment, a rollback, one that fails verification; one restart of the daemon or of Forge | `ActsOnVerified`, `RevokedStaysOut`, `NoDowngrade`, `NewestIsActivated`, `ServedAssignmentIsUsed` |
| `assignment_outage` | the daemon alone, Forge may stay out of reach | `AssignmentIsUsed`: violated |
| `forge_management` | one of: two requests at a time, two tokens, two nodes in two scopes, one build; an enrolled node whose daemon loads what two requests at a time plan, revoke and answer; three keys and two calls on trust bundles; the projects of `MCBuilds` | `TokenAdmitsOnce`, `RevocationIsFinal`, `VersionsGrowByOne`, `ActsOnApproved`; `ImplementsActivation`; `OneSuccessor`, `TrustOnlyShrinks`; `ManifestIsComplete`, `NodeTakesBuilds`, `FilesMatchManifests`, `PassedMeansEnforced` |
| `compiled_routes` | the projects of `MCBuilds` | `RoutesAdmitGrants`: violated |
| `node_decisions` | nodes that learn, a node that acts on risk, nodes with a defective decision before a good one, a node on which a command loads a bundle, one on which a command executes an action; two assignments, one restart | `ActsUnderAuthority`, `DerivedActionRestsOnApproval`, `JournalMatchesEffects`, `OneApprovedBaseline`, `FrozenUntilDecided`, `EveryDecisionIsTaken` |
| `baseline_spread` | a node that learns one metric from windows of the default size | `SpreadIsMAD`: violated |

Parts that share no state are checked in one run: the variable `part` of `MCBackground`
and `MCForgeManagement` says which of them a behaviour is about, and the others stay in
an initial state. Type invariants are proved, not checked in a run of their own.

### Bounds, and why they are enough

- *RuntimeActions.* `TTL = 1` and `MaxTime = 1` (2 for the TTL) let a lease be created,
  expire and be executed again. Two processes and two actions of one key give every
  race on the dedup index; a third action on a second adapter gives reconciliation
  something to go on to. The crash bound is 0 in the shared run, where a crash is
  like a process that never takes its next step (safety properties do not see the
  difference but for the process that starts over, which the other process stands in
  for; the theorems hold for every crash bound), and 1 in the daemon's run.
  `ActionSymmetry` swaps the two actions of one key, which no definition tells apart;
  that run checks no liveness property.
- *AuditSpool.* Five records over three half seconds: a tie, an inversion by text
  order, and records after it.
- *AuditUpload.* `MaxShift = 2` and `BackoffCap = 3` keep the shape of the backoff
  (doubling, then capped below the last power of two) at a small size; 8 and 300 in
  the code.
- *DaemonLoop.* Four of seven tickers, one for each default interval on either side
  of polling; the others have the same intervals. There is no bound: time is a
  countdown.
- *ForgeJobs.* Three jobs, two of which compile the same artifact, and two workers: two
  workers at one path, and a job waiting behind both. `MaxFaults = 1` is a command that
  fails before or after its effect, or a worker that dies; the theorems hold for any
  number.
- *AssignmentActivation.* Three assignments, two versions, one tick of the clock (at
  which all but one expire), one restart. Assignments without adapters and those the
  store refuses (`d2`, `d4` of the MC module) are covered by the proofs, which hold
  for every choice of these constants.
- *ForgeManagement.* Two workers give every race of a pair of requests; `MaxVersion = 2`
  lets two planners take the same version, as the first and as a later one, and lets a
  revoked newest assignment hide an older one. One token is bound to a scope, the other
  fits both; the build can be approved for one scope only, by one person. Pulls are left to
  the next part: they write only `served`, which no other request reads. Other
  manifests (not ready, without actions, without adapter) are covered by the proofs.
- *ManagedNode.* The node starts enrolled, its build approved: what leads there is the
  part before. Two workers and `MaxVersion = 2` as above; the daemon loads, with one
  restart. It is the only loader and nothing expires (`MaxTime = 0`): what a second
  loader and the clock add is in the run `assignment`, and the theorems hold for any
  number of both.
- *TrustBundles.* Three keys, so that two calls can rotate one key to different
  successors, or rotate a key and revoke it. One call brings a key that expires, as a
  seed does, the other a different key that does not, each with the right or the wrong
  purpose. `MCSymmetry` permutes the
  workers of `ForgeManagement` and the keys here, which no definition tells apart; the
  run checks no liveness property.
- *Builds.* At most two runs, two policies and two adapters: two runs that write the
  same directory, a second policy that fails after the first is complete, a second
  adapter that overwrites a signed file. One edit. Each check of the registry, of the
  bindings and of the validation has a workspace that only it refuses.
- *NodeDecisions.* Windows of two samples (five in `baseline_spread`, the default), at
  most two versions and two decisions of the operator: a promotion, and a second one or
  a rollback. `MaxTime = 2`: a grant or the assignment ends at 1, the bundle at 2; a
  risk is valid for one tick. Each defective request has one defect; the good one after
  it has the same dedup key. One restart replays the file. Commands load one bundle, or
  execute one action again and again, in the nodes where this matters.

### Deadlock

Deadlock is checked except where a part comes to an end: jobs end and are not created
anew (`background`); the decision file ends, versions and decisions of the operator are
bounded (`node_decisions`).

### Fairness

- *DaemonLoop*: time passes, ticks arrive, tasks end, and `select` picks at random among
  waiting ticks, hence strong fairness for a tick that waits again and again. Nothing is
  assumed about how a poll ends. That a task ends is an assumption: the HTTP client for
  Forge (`cmd/kliq/transport.go`) and the gRPC calls of adapters have no timeout of their
  own, so a peer that accepts a connection and never answers stops the loop.
- *RuntimeActions*: weak fairness of the running process; strong fairness of the
  return to reconciliation, which `LoopTasksRun` gives if its interval is below
  the poll interval or polls fail; the store does not fail for ever; only adapters in
  `Responsive` answer some time. No fairness for crashes or other processes.
- *AuditUpload*: the same for the flush; a request that is repeated for ever is
  acknowledged some time if Forge accepts the record.
- *AssignmentActivation*: polling is never starved (`LoopTasksRun`); store and
  activation do not fail for ever. `AvailableSpec` adds that Forge is reached some
  time while it serves an assignment; `OutageSpec` does not.
- *ForgeJobs*: a worker that has a job goes on unless it is killed, and `forge-worker`
  is started again and again. No fairness for requests: a job that was never put on the
  queue stays where it is.
- *NodeDecisions*: the daemon goes on with the signal or the decision at hand and comes
  back to its decisions, whose default interval is shorter than polling. None for
  operators, commands, signals and restarts.
- *AuditSpool*, *ForgeManagement*, *ManagedNode*, *TrustBundles* and the builds assume none: they have
  safety properties only.

Forge's own default profile (`defaultManagementProfile` in
`internal/forge/api/kliq_management.go`) polls once a minute, reconciles every 30 s
and flushes once a minute: there reconciliation is frequent in the sense above, while
the flush ties with polling.

## 5. Where code and documents disagree

Each is a run whose property, taken from a document or a test, TLC refutes; the
quotations are in `PROJECT.json`.

- `ActivationGetsItsTTL`. `UpsertLease` does not refresh `expires_at` of an existing
  row. A decision executed again after its lease ended activates the action with an
  expiry that has passed, and the next reconciliation ends it.
- `LinkedChain`. A new audit record is linked to the last record by text timestamp and
  id, not to the last inserted, so the chain forks with a single process.
- `EveryTaskRuns`. Every poll that returns no error resets all tickers, also those of
  tasks with a longer interval: with the default flags the audit flush and the status
  report never come due.
- `AssignmentIsUsed`. After a restart with Forge out of reach the daemon keeps the
  active assignment but does not rebuild its adapter registry from it.
- `SpreadIsMAD`. `Estimate` takes the middle of the deviations without sorting them, so
  the spread is not the median absolute deviation. With an odd number of samples (five
  by default) the middle one is that of the center itself: the spread is 0, replaced by
  1, whatever the samples are.
- `RoutesAdmitGrants`. The routes that the compiler emits name the target system and
  `forge-simulation` as consumers; the node looks for its adapter or capability. The
  compiler marks the pack as not enforced yet, the node enforces it: with the compiled
  pack active it refuses every action of the build.

## 6. Proofs

All for every value of the constants that satisfies the named assumption of the module,
which says no more than that the constants have their types, that `None`, `Absent` and
`NoJob` are not among the values they stand beside, that the daemon is one of the
loaders (`AssignmentActivation`), that nodes and workers are different things
(`ForgeManagement`), and what is said of projects under `BuildsProofs` below.

**RuntimeActionsProofs**: `TypeCorrect`, `DedupSafety` (`OneLiveLeasePerKey`),
`AuditBeforeEffect` (`EffectWasAudited`), `NoPhantomLease` (`LiveLeaseWasActivated`),
`ExpiryIsFixed` (`LeaseExpiryNeverMoves`) and `Refinement` (`ImplementsLifecycle`).
The invariants are not inductive by themselves because a process acts on what it
learnt some steps ago. `ProcessKnowledge` adds what it may still rely on: at the call
of `Execute` its attempt is in the spool; a live status it is about to write, and each
lease of its snapshot, belongs to an action that an adapter has activated. These facts
are stable whatever the others do. The refinement follows from the same invariant, one
step of `ActionLifecycle` or none for each action.

For a state file that one process uses (`OneProcess`): `ExecutionFindsNoLease`
(`ExecutesOnlyWithoutLease`), `ReconcileRevivesNothing` (`OnlyExecutionRevives`) and
`ExpiredWasRevoked` (`ExpiredOnlyAfterRevoke`). `ProcessRelies` adds what holds as
nobody else writes: from the lookup to the call of `Execute` no lease of the key is live,
or only the one being ended; the leases still to be visited are live; what is about to
be written as expired is not in force. With two processes the three fail, since one acts
between a read of the other and the write it leads to; the code does not promise them
there.

**BackgroundProofs**, on `AuditSpool`: `TypeCorrect`, `ChainSafety` (`ChainIsWellFounded`),
`HistoryIsFixed` (`AppendOnly`). The strengthening says that the predecessor a process
holds between its read and its insert is stored. An insert then adds a record that
nothing is linked to yet, so no set of records closed under "previous" arises.

**AssignmentActivationProofs**: `TypeCorrect`, `NodeActsOnVerified`
(`ActsOnVerified`), `RevokedIsNotActivated` (`RevokedStaysOut`),
`DowngradeOnlyWhenOvertaken` (`NoDowngrade`) and `DaemonNeverDowngrades`. The
strengthening: what a process holds was published, and what it saves was verified;
versions of published assignments do not change, so a comparison stays true. If the
daemon is the only loader, what it read as active still is, and the exception of
`NoDowngrade` cannot occur.

**ForgeManagementProofs**, on `ForgeManagement`: `TypeCorrect`, `SingleUse` (`TokenAdmitsOnce`),
`RevocationStands` (`RevocationIsFinal`), `PlannersDoNotCollide`
(`VersionsGrowByOne`), `OnlyApproved` (`PublishedIsApproved`, the first conjunct of
`ActsOnApproved`) and `AnswersMoveForward` (`AnswersNeverGoBack`: the versions that a node
is answered never decrease). The strengthening of the inductive invariant `IInv`:
- `TokensSpent`: a token that has admitted somebody is used or revoked. "Used" alone is
  not inductive, because a revocation may write back a row it read before the use; the
  row it writes is revoked, so the token stays unusable.
- `Dense`: the versions of a node are 1 to n for some n.
- `PlansStand`: what a planner validated is still approved, since approvals only grow,
  and the version it holds is at most n + 1. The primary key then leaves n + 1 as the
  only version that can be inserted.
- `ServedExists`: a version that was answered is in the table, so the newest is not
  below it.

**ForgeManagementProofs**, on `ManagedNode`: `ManagedNodeImplements`
(`ImplementsActivation`, and `View!Spec` itself). `ManagedInv` adds to `IInv` what the
refinement mapping needs of the table: an assignment that a planner is about to insert is
not revoked and within the bound (`Drafts`); no two rows of a node have one version
(`Keyed`), so a row is known by its contents and a revocation marks one of them. Then
each store call is seen as one step or none: `InsertAssignment` as `Publish`, since a
version that the primary key admits is above all others (`Dense`, `PlansStand`);
`MarkRevoked` as `RevokeAssignment`; an answer that arrives as `Fetch` of what is newest
and not revoked; all other steps of Forge change nothing the node can see.

The theorems of `AssignmentActivationProofs` hold for whatever implements its
specification, so they are taken over by instantiation:
- `NodeActsOnApproved` (`ActsOnApproved`): with `OnlyApproved`, whatever the node has
  active and whatever adapters its daemon runs come from an assignment that somebody
  other than the author of the build approved for the node's scope. No check of the node
  sees to this: it holds because of what planners validate and what can be answered.
- `RevocationReachesNode` (`RevokedStaysOut` of this node): once an operator has revoked an
  assignment, a node that has it neither active nor in an answer under way stays without
  it.
- `NodeFollowsForge`: if the daemon is the only loader, the version that is active only
  grows, but for approved rollbacks.

**BackgroundProofs**, on `AuditUpload`: `UploadTypeCorrect`, `NothingIsLost`
(`UploadedWasReceived`), `UploadIsFinal` (`UploadedForGood`). A flush works on rows it read before.
`HoldsPending` says that the rows it still has to visit, and the one at hand, are
pending and each is visited once; `AckIsReceived` that what it has an acknowledgement
for is stored at Forge. A mark therefore never meets a row that is uploaded already.

**ForgeManagementProofs**, on `TrustBundles`: `RotationsDoNotCollide` (`OneSuccessor`), `TrustNeverGrows`
(`TrustOnlyShrinks`). Calls write what they read some statements ago. `Sound` says what
a call may still rely on: the material it read is that of the table, and if the key is
active the whole bundle is. `Shrinks` is the relation of every step between the table
before and after; `Sound` survives it (`SoundStays`). Keys that a late seed has
overwritten are excepted throughout.

**BackgroundProofs**, on `ForgeJobs`: `OneWorkerPerJob` (`JobHasOneOwner`), `SuccessIsBacked`
(`SucceededIsStored`). `Owned` says that a job is with its request, on the queue once or
with one worker, and what its record says meanwhile; without the record a dequeued job
could be one that has ended. `ResultStored` says that a worker about to report success has
seen the complete artifact, and that only the worker that created a file writes it.

**NodeDecisionsProofs**: `BaselinesAreApproved` (`OneApprovedBaseline`),
`FrozenStaysFrozen` (`FrozenUntilDecided`), `RiskIsApproved` (`RiskRestsOnApproval`),
`ActionsAreAuthorized` (`ActsUnderAuthority`), `DerivedActionsAreApproved`
(`DerivedActionRestsOnApproval`), `JournalIsTrue` (`JournalMatchesEffects`). Three
invariants, each resting on the one before:
- `BaselineInv`: the version a signal compares with was promoted when it was read and
  is an approved one since, because decisions and deviations are never withdrawn.
- `PlanInv`: what a plan has passed so far was valid at the time noted in it; bundle and
  assignment are the active ones unless a command has loaded another since the bundle was
  read; the risk of a derived action had not run out and rests on an approved version.
- `JournalInv`: a lease is there only after an effect; what is recorded, and what is
  about to be, names an action that was put in force and that the decision asks for
  (`Truthful`), also if it is another decision's or a command's. Until the first restart
  (`FirstRun`) each decision is planned once, nothing is in force for it before it is
  executed, and decisions not taken have no record; this is what keeps a record from
  hiding an effect and from calling an action deduplicated that is the decision's own and
  has a live lease (`Open`). After a restart it may, and the property says so.

**BuildsProofs**: `ManifestsAreComplete` (`ManifestIsComplete`) and `BuildsAreTaken`
(`NodeTakesBuilds`); **SignedFilesProofs**, which extends it: `SignedFilesMatch`
(`FilesMatchManifests`); **CIValidationProofs**, which extends it too: `PassedIsEnforced`
(`PassedMeansEnforced`). All are for all projects that satisfy `ProjectsAssumption`: any
catalogs, manifests, bindings, policies, edits, requests and any number of runs. The
assumption has only what the code sees to: lists are finite and a policy has finitely
many runtime actions; a rule has a name (the pattern of `parser.go` takes no empty one);
a valid policy has an id, a target and a stage (`validateMetadata`); a valid catalog
entry has an id (`loadSupplementalCatalog`); a validation compiles without signing and
gets at most one snapshot. `UnsetAssumption` and `CodesAssumption` set `Unset` apart from
numbers and finding codes, `DurationsAssumption` says that a text the node can read as a
duration is a positive one. The effect of each action on the progress of a run is a lemma
of its own (`LoadEffect` ...). Three invariants:
- `BuildsInv`: the policy at hand was read from the workspace and resolves in the catalog
  that was loaded; the queue of artifacts ends with the build manifest (`Queue`); what the
  manifest needs is still queued or among the references collected, and these are stored
  (`Planned`). The manifest is therefore complete when its turn comes; that the node
  activates it follows from what `PolicyResolves` and `Grantable` have checked, and so
  does the grant of each action. `TakenFrom` is `NodeTakesBuilds` of one manifest with its
  workspace and policy: the grant passes every gate of the node but those that depend on
  what the policy says, whether runtime actions are allowed and the text of its `max_ttl`.
- `FilesInv`: a run's references are to artifacts of its own run and policy; each signed
  file is the last that was written under its name, and belongs to a manifest or to the
  policy at hand.
- `ValidationsInv`: the findings of a validation are those of the workspace it read; what
  is left of the policies is a suffix of the list, and all before it have a build
  manifest (`Progress`). `NothingFound` derives from the absence of findings that each
  sensitive action is enforced.

## 7. Only model-checked

Liveness (`DaemonEndsExpiredLeases`, `EveryRecordUploaded`, `LoopTasksRun`,
`AcceptedJobsEnd`, `NewestIsActivated`, `ServedAssignmentIsUsed`,
`EveryDecisionIsTaken`) is outside what TLAPS proves here. What the estimator computes
rests on a sort (`SortSeq` of the module TLC) that the provers cannot unfold; it is
checked on windows over three values. The properties that a document
states and the code refutes (section 5) are checked on instances.

## 8. Not modelled

`PROJECT.json` has the status of each part and the reason.

- *Heartbeats, status reports, findings.* Each is built from one pass over the store and
  replaces the last one at Forge, without a comparison of times; nothing reads it to
  decide. Findings are in memory and gone after a restart.
- *Enrollment on the node, credentials, service tokens.* A sequence of file and network
  calls of one command; Forge's side is in `ForgeManagement`.
- *Authentication and authorisation, signing.* Cryptography and comparison of claims. Its
  outcome appears as a constant or as a step that may fail.
- *Lab, production and bootstrap checks, adapter verification as a command, the command
  line, API routing, intent parsing, CEL.* Stateless readings of files and flags.
- *What one document must contain.* Schemas and required fields of registry, binding,
  policy and artifact files are one Boolean each.
- *Rendered reports of a build, and digests.* Nothing reads the reports back. Digests are
  taken to identify contents; that a file is edited between its parsing and the
  computation of its digest is not expressed.
- *The in-memory stores* of Forge but for the restart of one (`AssignmentActivation`):
  each operation holds one lock.
- *Clock skew* between Forge and a node: time is one clock per module.
