--------------------------- MODULE PolicyCompiler ---------------------------
(***************************************************************************)
(* Policy builds (internal/forge/compiler): Compile loads the registry and *)
(* the adapter manifests, then turns each policy into artifacts that it    *)
(* stores and signs one by one; the build manifest, which names them, is   *)
(* the last.  Nothing is undone when a later artifact or a later policy    *)
(* fails.                                                                  *)
(*                                                                         *)
(* Several runs may share an output directory, and the workspace may be    *)
(* edited while a run is at work: the catalog is read once, a policy when  *)
(* its turn comes.  Putting an artifact into the store is one step here    *)
(* (ForgeJobs takes it apart).  An artifact is identified by the run, the  *)
(* policy, its type and its adapter, as the time is part of its content.   *)
(* Reports and reviews, which nothing reads, are left out.                 *)
(***************************************************************************)
EXTENDS Registry

CONSTANTS
  Durations,    \* the positive durations, by the texts that
                \* time.ParseDuration takes for them
  Projects      \* a sequence of what is built: the workspace before and
                \* after an edit, and the runs, each with its kind (compile
                \* or ci), whether it signs, and its request

\* What the readers of the files see to: lists are sequences, a binding has a
\* field for its id, and the made one is not empty; a valid entry has an id
\* (loadSupplementalCatalog), a rule has a name (namedBlockRE), and a valid card
\* has an id, a target and a stage (validateMetadata).
WellRead(w) ==
  /\ w.policies \in Seq(ToSet(w.policies)) /\ w.bindings \in Seq(ToSet(w.bindings))
  /\ \A b \in ToSet(w.bindings) :
       "id" \in DOMAIN b /\ MadeID(b) # Unset
  /\ \A e \in w.entries : e.valid => e.id # Unset
  /\ \A card \in ToSet(w.policies) :
       /\ IsFiniteSet(card.actions) /\ card.allowed \in BOOLEAN
       /\ \A x \in card.rules : x.name # Unset
       /\ card.valid => Unset \notin {card.id, card.target, card.stage}

\* Of a run: a request has at most one snapshot, and ValidateCI compiles without
\* signing.
RunWellFormed(k) ==
  /\ k.signs \in BOOLEAN
  /\ k.kind = "ci" => ~k.signs
  /\ \A x, y \in k.request.snapshot : x = y /\ x.configs \in Seq(ToSet(x.configs))

ASSUME UnsetAssumption == Unset \notin Nat

ASSUME DurationsAssumption == \A d \in DOMAIN Durations : Durations[d] \in Nat \ {0}

ASSUME ProjectsAssumption ==
  \A i \in DOMAIN Projects :
    \A r \in DOMAIN Projects[i].runs :
      /\ RunWellFormed(Projects[i].runs[r])
      /\ WellRead(Projects[i].before) /\ WellRead(Projects[i].after)

VARIABLES
  project,      \* the member of Projects at hand: it does not change
  edited,       \* whether the workspace on disk has been edited
  run,          \* the progress of the runs
  stored,       \* the artifacts in the store
  signedFile,   \* the directory signed/ of the output: by policy and type
  manifest      \* the build manifests in the store, with what they name

buildVars == <<project, edited, run, stored, signedFile, manifest>>

-----------------------------------------------------------------------------
(* Adapter manifests.                                                      *)

\* LoadAdapterManifests: beside the repositories, or else in the fallbacks.
AdapterManifests(w) == IF w.manifests[1] # {} THEN w.manifests[1] ELSE w.manifests[2]

ManifestsLoad(w) ==
  /\ \A m \in AdapterManifests(w) :
       /\ m.valid
       /\ m.capabilities # {}
       /\ Unique(m.capabilities, LAMBDA c : c.id)
  /\ Unique(AdapterManifests(w), LAMBDA m : m.adapter)

\* A raw signal is in the catalog, or the adapter's own and projected.
RawSignalKnown(w, s) == CatalogEntry(w, "signal", s.id) \/ (s.own /\ s.projected)

\* ValidateAdapterManifests, for a capability of a manifest.
ManifestCapabilityValid(w, c) ==
  /\ CapabilityKnown(w, c.id)
  /\ LET spec == Capability(w, c.id)
     IN  /\ c.status = "implemented" =>
              spec.status # "planned" /\ spec.privileges \subseteq c.privileges
         /\ \A a \in c.actions : SupportsRuntimeAction(spec, a)
         /\ spec.granularities = {} \/ c.granularities \subseteq spec.granularities
         /\ \A p \in c.privileges : CatalogEntry(w, "privilege", p)
         /\ \A g \in c.granularities : CatalogEntry(w, "granularity", g)

ManifestsValid(w) ==
  \A m \in AdapterManifests(w) :
    /\ \A c \in m.capabilities : ManifestCapabilityValid(w, c)
    /\ \A s \in m.rawSignals : RawSignalKnown(w, s)
    /\ \A x \in m.refs : Known(w, x)

ManifestOf(w, adapter) == CHOOSE m \in AdapterManifests(w) : m.adapter = adapter

adapterManifestImplements(m, capability, action) ==
  \E c \in m.capabilities :
    c.id = capability /\ c.status = "implemented" /\ action \in c.actions

\* validateCatalogCEL.
CatalogCELValid(w) ==
  /\ \A v \in ToSet(w.values) : v.cel # "invalid"
  /\ \A r \in w.recipes : r.valid

-----------------------------------------------------------------------------
(* What a policy means.                                                    *)

\* The labels of a policy, with the kinds they may have.
Mentions(card) ==
  {<<card.type, {"policy_type"}>>, <<card.target, {"target_system"}>>,
   <<card.stage, {"stage"}>>}
  \cup UNION {{<<r.effect, {"effect"}>>, <<r.subject, {"subject"}>>,
               <<r.action, {"action"}>>, <<r.resource, {"resource"}>>}
              \cup {<<f, {"fact"}>> : f \in r.facts} : r \in card.rules}
  \cup UNION {{<<b.riskType, {"risk_type"}>>, <<b.tier, {"risk_tier"}>>,
               <<b.effect, {"effect"}>>} : b \in card.risk}
  \cup {<<o, {"prohibited_outcome"}>> : o \in card.prohibit}
  \cup {<<a, {"runtime_action"}>> : a \in card.actions}
  \cup UNION {{<<f, {"fact", "subject"}>> : f \in s.given}
              \cup {<<s.expect, {"effect"}>>} : s \in card.simulations}

\* The conditions of a rule are joined by &&, which takes Booleans only.
RuleCELValid(w, r) ==
  LET exprs == {f \in r.facts : Resolve(w, f, {"fact"}).cel # Unset}
  IN  Cardinality(exprs) <= 1
        \/ \A f \in exprs : Resolve(w, f, {"fact"}).cel = "bool"

\* resolveRuntime: the policy's value, or else the default of its profile.
RuntimeValue(w, card, field) ==
  IF card[field] # Unset THEN card[field] ELSE Profiles(w)[card.profile][field]

\* validateMetadata, resolveRule, resolveRuntime and resolveSimulation.
PolicyResolves(w, card) ==
  /\ card.valid
  /\ card.rules # {}
  /\ card.profile \in DOMAIN Profiles(w)
  /\ \E r \in w.recipes : r.id = card.recipe
  /\ \A x \in Mentions(card) : Resolves(w, x[1], x[2])
  /\ \A r \in card.rules : RuleCELValid(w, r)
  /\ RuntimeValue(w, card, "maxTTL") # Unset
  /\ RuntimeValue(w, card, "maxScope") # Unset
  /\ Resolves(w, RuntimeValue(w, card, "maxScope"), {"scope"})

\* The canonical ids of the runtime actions.
RuntimeActionsOf(w, card) == {Resolve(w, a, {"runtime_action"}).id : a \in card.actions}

\* runtimeCapabilityGrant: one rule, one capability, one adapter that does it.
Grantable(w, card, action) ==
  /\ HasRule(w, action)
  /\ LET capabilities == RuntimeActionRule(w, action).capabilities
     IN  /\ Cardinality(capabilities) = 1
         /\ \A id \in capabilities :
              /\ CapabilityKnown(w, id)
              /\ Capability(w, id).status # "planned"
              /\ BindingIndex(w, id, card.stage) # 0
              /\ LET adapter == AdapterBinding(w, id, card.stage).adapter
                 IN  /\ \E m \in AdapterManifests(w) : m.adapter = adapter
                     /\ adapterManifestImplements(ManifestOf(w, adapter), id, action)

\* The id is made from all that it grants, as capabilityGrantID does; the
\* digests are those of the binding and of the manifest.
Grant(w, card, action) ==
  LET capability == CHOOSE id \in RuntimeActionRule(w, action).capabilities : TRUE
      binding == AdapterBinding(w, capability, card.stage)
  IN  [id |-> <<card.id, binding.adapter, capability, action,
                RuntimeValue(w, card, "maxScope")>>,
       policy |-> card.id, action |-> action, capability |-> capability,
       adapter |-> binding.adapter, binding |-> binding.id,
       digests |-> {binding, ManifestOf(w, binding.adapter)},
       scopes |-> {RuntimeValue(w, card, "maxScope")},
       maxTTL |-> RuntimeValue(w, card, "maxTTL")]

\* runtimeBundleArtifact: the grants are there also if the policy does not say
\* that its runtime actions are allowed.
Bundle(w, card) ==
  [policy |-> card.id, runtimeAllowed |-> card.allowed,
   actions |-> RuntimeActionsOf(w, card),
   grants |-> {Grant(w, card, a) : a \in RuntimeActionsOf(w, card)},
   maxTTL |-> RuntimeValue(w, card, "maxTTL"),
   maxScope |-> RuntimeValue(w, card, "maxScope")]

\* adapterManifestsForRuntimeBundle.
UsedAdapters(bundle) == {g.adapter : g \in bundle.grants}

\* contextRoutePackArtifact: a route for each rule.
RoutePack(card) ==
  [policy |-> card.id, target |-> card.target, stage |-> card.stage,
   routes |-> {[name |-> r.name, consumers |-> {card.target, "forge-simulation"}] :
                 r \in card.rules}]

\* conformanceExpectationArtifact.
Conformance(card) ==
  [policy |-> card.id, target |-> card.target, stage |-> card.stage,
   expectations |-> {r.name : r \in card.rules}, prohibit |-> card.prohibit]

-----------------------------------------------------------------------------
(* A run.  It makes one call of Compile for each member of `files': Unset  *)
(* stands for all policies, another member for a single one.               *)

RunStart(kind) ==
  [pc |-> IF kind = "ci" THEN "validate" ELSE "load",
   files |-> IF kind = "ci" THEN <<>> ELSE <<Unset>>,
   loaded |-> Unset, todo |-> <<>>, card |-> Unset, pending |-> <<>>, refs |-> {},
   checked |-> Unset, findings |-> {}]

Runs == project.runs

\* What lies on disk, before or after the edit.
Workspace(e) == IF e THEN project.after ELSE project.before

BuildsInit ==
  /\ \E i \in DOMAIN Projects : project = Projects[i]
  /\ edited = FALSE
  /\ run = [r \in DOMAIN Runs |-> RunStart(Runs[r].kind)]
  /\ stored = {}
  /\ signedFile = [f \in {} |-> Unset]
  /\ manifest = {}

RunAt(r, pc) == run[r].pc = pc

\* The run goes on to pc with other values for some fields.
RunTo(r, pc, fields) ==
  run' = [run EXCEPT ![r] =
            [f \in DOMAIN @ |-> IF f = "pc" THEN pc
                                ELSE IF f \in DOMAIN fields THEN fields[f] ELSE @[f]]]

RunFails(r) == RunTo(r, "failed", <<>>)

\* Someone edits the workspace.
Edit ==
  /\ ~edited
  /\ Workspace(TRUE) # Workspace(FALSE)
  /\ edited' = TRUE
  /\ UNCHANGED <<project, run, stored, signedFile, manifest>>

\* intentFiles: the policy that was named, or all of them.
intentFiles(w, file) ==
  IF file = Unset THEN [i \in DOMAIN w.policies |-> i] ELSE <<file>>

\* Compile, up to the list of files.
Load(r) ==
  /\ RunAt(r, "load")
  /\ LET file == Head(run[r].files)
         w == Workspace(edited)
     IN  IF RegistryLoads(w) /\ CatalogCELValid(w) /\ ManifestsLoad(w) /\ ManifestsValid(w)
         THEN RunTo(r, "next", [loaded |-> edited,
                                todo |-> intentFiles(w, file)])
         ELSE RunFails(r)
  /\ UNCHANGED <<project, edited, stored, signedFile, manifest>>

\* ParseFile and compileOne, up to the first artifact.  The policy is read
\* now, the catalog is the one that was loaded.
NextPolicy(r) ==
  /\ RunAt(r, "next")
  /\ run[r].todo # <<>>
  /\ LET i == Head(run[r].todo)
         policies == Workspace(edited).policies
     IN  IF i \in DOMAIN policies /\ PolicyResolves(Workspace(run[r].loaded), policies[i])
         THEN RunTo(r, "store", [todo |-> Tail(run[r].todo),
                                 card |-> policies[i],
                                 pending |-> <<<<"resolved_policy", Unset>>>>,
                                 refs |-> {}])
         ELSE RunFails(r)
  /\ UNCHANGED <<project, edited, stored, signedFile, manifest>>

\* The call of Compile returns.
CompileReturns(r) ==
  /\ RunAt(r, "next")
  /\ run[r].todo = <<>>
  /\ LET rest == Tail(run[r].files)
     IN  RunTo(r, IF rest = <<>> THEN "done" ELSE "load", [files |-> rest])
  /\ UNCHANGED <<project, edited, stored, signedFile, manifest>>

FaultyEmissions(bundle) ==
  <<<<"runtime_bundle", Unset>>, <<"context_route_pack", Unset>>,
    <<"conformance_expectation", Unset>>, <<"policy_build_manifest", Unset>>>>
  \o SetToSeq({<<"adapter_manifest", a>> : a \in UsedAdapters(bundle)})

\* The artifacts that follow the resolved policy, in the order of compileOne.
Emissions(bundle) ==
  <<<<"runtime_bundle", Unset>>>>
  \o SetToSeq({<<"adapter_manifest", a>> : a \in UsedAdapters(bundle)})
  \o <<<<"context_route_pack", Unset>>, <<"conformance_expectation", Unset>>,
       <<"policy_build_manifest", Unset>>>>

\* runtimeBundleArtifact fails when an action has no grant.
PlanBundle(r) ==
  /\ RunAt(r, "plan")
  /\ LET w == Workspace(run[r].loaded)
         card == run[r].card
     IN  IF \A a \in RuntimeActionsOf(w, card) : Grantable(w, card, a)
         THEN RunTo(r, "store", [pending |-> Emissions(Bundle(w, card))])
         ELSE RunFails(r)
  /\ UNCHANGED <<project, edited, stored, signedFile, manifest>>

Artifact(r, signed) ==
  [run |-> r, policy |-> run[r].card.id, type |-> Head(run[r].pending)[1],
   adapter |-> Head(run[r].pending)[2], signed |-> signed]

\* The artifact is complete; the manifest will name refs.
Emitted(r, refs) ==
  LET rest == Tail(run[r].pending)
      pc == IF rest # <<>> THEN "store"
            ELSE IF Head(run[r].pending)[1] = "resolved_policy" THEN "plan" ELSE "next"
  IN  RunTo(r, pc, [pending |-> rest, refs |-> refs])

\* The build manifest: what was emitted before it.
BuildManifest(r) ==
  LET w == Workspace(run[r].loaded)
      card == run[r].card
  IN  [run |-> r, policy |-> card.id, signs |-> Runs[r].signs,
       refs |-> run[r].refs, bundle |-> Bundle(w, card), routes |-> RoutePack(card),
       conformance |-> Conformance(card)]

\* emitJSONArtifact, up to the store.  Of an adapter manifest, the build
\* manifest names the signed one only.
StoreArtifact(r) ==
  /\ RunAt(r, "store")
  /\ LET a == Artifact(r, FALSE)
         refs == run[r].refs \cup (IF a.adapter = Unset THEN {a} ELSE {})
     IN  /\ stored' = stored \cup {a}
         /\ manifest' = IF a.type = "policy_build_manifest"
                        THEN manifest \cup {BuildManifest(r)} ELSE manifest
         /\ IF Runs[r].signs THEN RunTo(r, "sign", [refs |-> refs])
                                     ELSE Emitted(r, refs)
  /\ UNCHANGED <<project, edited, signedFile>>

FaultySignedPath(a) == <<a.type>>

\* The name of the signed file has no adapter.
SignedPath(a) == <<a.policy, a.type>>

\* The envelope is written over the file of an earlier one ...
SignArtifact(r) ==
  /\ RunAt(r, "sign")
  /\ LET a == Artifact(r, TRUE)
     IN  signedFile' = [f \in DOMAIN signedFile \cup {SignedPath(a)} |->
                          IF f = SignedPath(a) THEN a ELSE signedFile[f]]
  /\ RunTo(r, "seal", <<>>)
  /\ UNCHANGED <<project, edited, stored, manifest>>

\* ... and put into the store.
StoreEnvelope(r) ==
  /\ RunAt(r, "seal")
  /\ LET a == Artifact(r, TRUE)
     IN  /\ stored' = stored \cup {a}
         /\ Emitted(r, run[r].refs \cup {a})
  /\ UNCHANGED <<project, edited, signedFile, manifest>>

\* A write fails, or the process is killed.
CompileDies(r) ==
  /\ run[r].pc \in {"load", "next", "plan", "store", "sign", "seal"}
  /\ RunFails(r)
  /\ UNCHANGED <<project, edited, stored, signedFile, manifest>>

CompileStep(r) ==
  \/ Load(r) \/ NextPolicy(r) \/ CompileReturns(r) \/ PlanBundle(r)
  \/ StoreArtifact(r) \/ SignArtifact(r) \/ StoreEnvelope(r)

-----------------------------------------------------------------------------
(* What the node asks of the artifacts (internal/kliq/runtime/manager.go). *)

validateRuntimeBundleArtifact(bundle) == bundle.policy # Unset

validateContextRoutePackArtifact(pack) ==
  /\ Unset \notin {pack.policy, pack.target, pack.stage}
  /\ pack.routes # {} /\ \A x \in pack.routes : x.name # Unset

validateConformanceExpectationArtifact(c) ==
  /\ Unset \notin {c.policy, c.target, c.stage}
  /\ c.expectations # {} \/ c.prohibit # {}

\* validateManagedAssignmentArtifacts, for the artifacts of a build.  What it
\* asks of an adapter manifest, the compiler asked when it loaded it.
NodeActivates(m) ==
  /\ validateRuntimeBundleArtifact(m.bundle)
  /\ validateContextRoutePackArtifact(m.routes)
  /\ validateConformanceExpectationArtifact(m.conformance)

\* parsePositiveDuration.
IsDuration(ttl) == ttl \in DOMAIN Durations

\* validateCapabilityGrant: the node looks at the first grant with the id.
NodeGrants(bundle, g) ==
  /\ \A h \in bundle.grants : h.id = g.id => h = g
  /\ bundle.maxScope \in g.scopes
  /\ IsDuration(g.maxTTL) /\ Durations[bundle.maxTTL] <= Durations[g.maxTTL]
  /\ g.binding # Unset

\* planFromRequest, for a request that names the grant and leaves the ttl and
\* the scope to the bundle.
NodeAccepts(bundle, g) ==
  /\ bundle.runtimeAllowed
  /\ IsDuration(bundle.maxTTL)
  /\ bundle.maxScope # Unset
  /\ g.action \in bundle.actions
  /\ NodeGrants(bundle, g)

\* routeAllowsConsumer.
RouteAdmits(route, g) == route.consumers \cap {"*", g.adapter, g.capability} # {}

-----------------------------------------------------------------------------
(* Properties.                                                             *)

\* Whenever a run fails or is killed, and whatever other runs do: a build
\* manifest in the store names every artifact a node is assigned from it, the
\* manifests of its adapters included, all of them of its own run and policy,
\* signed if the run signs, and all of them are in the store.
ManifestIsComplete ==
  \A m \in manifest :
    LET needed == {<<t, Unset>> : t \in {"resolved_policy", "runtime_bundle",
                                         "context_route_pack", "conformance_expectation"}}
                  \cup (IF m.signs THEN {<<"adapter_manifest", a>> : a \in UsedAdapters(m.bundle)}
                                   ELSE {})
    IN  /\ m.refs \subseteq stored
        /\ \A n \in needed :
             [run |-> m.run, policy |-> m.policy, type |-> n[1], adapter |-> n[2],
              signed |-> m.signs] \in m.refs

\* What the compiler emits, the node takes: it activates the artifacts of every
\* build, and each runtime action of the policy, as it was when it was read, has
\* one grant.  A request that names the grant is accepted exactly if the policy
\* says that runtime actions are allowed and its max_ttl, or that of its profile
\* in the catalog that was loaded, is a duration; nothing else in a workspace
\* that compiles makes the node refuse.  The compiler itself asks for neither.
NodeTakesBuilds ==
  \A m \in manifest :
    /\ NodeActivates(m)
    /\ \E read, loaded \in BOOLEAN :
         \E card \in ToSet(Workspace(read).policies) :
           /\ card.id = m.policy
           /\ m.bundle.actions = RuntimeActionsOf(Workspace(loaded), card)
           /\ \A a \in m.bundle.actions :
                \E g \in m.bundle.grants :
                  /\ g.action = a
                  /\ \A h \in m.bundle.grants : h.action = a => h = g
                  /\ NodeAccepts(m.bundle, g) <=>
                       /\ card.allowed
                       /\ IsDuration(RuntimeValue(Workspace(loaded), card, "maxTTL"))

\* After a run that nobody else disturbed, the signed files are the ones its
\* manifests name.  The exceptions follow from the name of the file: a policy
\* with two adapters, and two policies with one id.
FilesMatchManifests ==
  \A r \in DOMAIN run :
    (RunAt(r, "done") /\ \A q \in DOMAIN run \ {r} : RunAt(q, "load")) =>
      \A m \in {x \in manifest : x.run = r} :
        (/\ Cardinality(UsedAdapters(m.bundle)) <= 1
         /\ \A x \in manifest : x.run = r /\ x.policy = m.policy => x = m) =>
          \A a \in {x \in m.refs : x.signed} : signedFile[SignedPath(a)] = a

\* What the compiler says of its route packs ("runtime enforcement is not active
\* yet"): the pack of a build stops no action that the build grants, the node
\* finds a route for it in routeAllowsConsumer.
RoutesAdmitGrants ==
  \A m \in manifest :
    \A g \in m.bundle.grants : \E x \in m.routes.routes : RouteAdmits(x, g)

=============================================================================
