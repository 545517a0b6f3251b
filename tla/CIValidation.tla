---------------------------- MODULE CIValidation ----------------------------
(***************************************************************************)
(* The validation a pull request has to pass                               *)
(* (internal/forge/validation/ci.go): the workspace is read once and       *)
(* checked against the request; then each policy of the target is compiled *)
(* by a call of Compile of its own, which reads the workspace again.  A    *)
(* finding is its code; all of them are errors.                            *)
(***************************************************************************)
EXTENDS Bindings

FindingIf(code, condition) == IF condition THEN {code} ELSE {}

RequestValid(req) == Unset \notin {req.tenant, req.env, req.repository}

-----------------------------------------------------------------------------
(* The checks, in the order of ValidateCI.                                 *)

\* validateCanonicalActions.
CanonicalFindings(w) ==
  UNION {FindingIf("unknown_action_type", ~CatalogEntry(w, "action_type", a.type))
         \cup FindingIf("event_not_found", \E e \in a.events : ~CatalogEntry(w, "event", e)) :
           a \in w.store.canonical}

\* manifestHasCapability.
ManifestImplements(m, id) == \E c \in m.capabilities : c.id = id /\ c.status = "implemented"

\* approvalStatus: that of the action, or else that of the binding.
approvalStatus(x) ==
  IF x.action.status # Unset THEN x.action.status ELSE x.binding.status

CanonicalMapped(w, a) ==
  IF a.canonical = Unset THEN ~a.sensitive
  ELSE /\ CanonicalKnown(w, a.canonical)
       /\ a.type \in {Unset, CanonicalAction(w, a.canonical).type}

CapabilityInScope(w, t, id) == CapabilityKnown(w, id) /\ id \in t.capabilities

\* The controls and events that the canonical action requires.
ControlsDeclared(w, x) ==
  CanonicalKnown(w, x.action.canonical) =>
    LET a == CanonicalAction(w, x.action.canonical)
    IN  a.controls \subseteq x.binding.controls /\ a.events \subseteq x.binding.events

FaultyBindingFindings(w, t, m, x) ==
  LET a == x.action
      b == x.binding
  IN  FindingIf("missing_canonical_action_mapping", ~CanonicalMapped(w, a))
      \cup FindingIf("unknown_action_type", ~CatalogEntry(w, "action_type", a.type))
      \cup FindingIf("binding_capability", ~CapabilityInScope(w, t, b.capability))
      \cup FindingIf("binding_selector_not_enforced",
                     \/ "type" \notin DOMAIN b.selector
                     \/ ~EntryReady(w, "selector_schema", b.selector["type"]))
      \cup FindingIf("adapter_capability_not_implemented",
                     b.capability # Unset /\ ~ManifestImplements(m, b.capability))
      \cup FindingIf("event_not_found", \E e \in b.events : ~CatalogEntry(w, "event", e))
      \cup FindingIf("required_control_missing", a.sensitive /\ b.events = {})
      \cup FindingIf("binding_not_approved", a.sensitive /\ approvalStatus(x) # "approved")

\* validateBinding.
BindingFindings(w, t, m, x) ==
  LET a == x.action
      b == x.binding
  IN  FindingIf("missing_canonical_action_mapping", ~CanonicalMapped(w, a))
      \cup FindingIf("unknown_action_type", ~CatalogEntry(w, "action_type", a.type))
      \cup FindingIf("binding_capability", ~CapabilityInScope(w, t, b.capability))
      \cup FindingIf("binding_selector_not_enforced",
                     \/ "type" \notin DOMAIN b.selector
                     \/ ~EntryReady(w, "selector_schema", b.selector["type"]))
      \cup FindingIf("adapter_capability_not_implemented",
                     b.capability # Unset /\ ~ManifestImplements(m, b.capability))
      \cup FindingIf("event_not_found", \E e \in b.events : ~CatalogEntry(w, "event", e))
      \cup FindingIf("required_control_missing",
                     (a.sensitive /\ b.events = {}) \/ ~ControlsDeclared(w, x))
      \cup FindingIf("binding_not_approved", a.sensitive /\ approvalStatus(x) # "approved")

\* validateResolvedTarget: without a manifest nothing else is checked.
TargetFindings(w, t) ==
  IF \A m \in AdapterManifests(w) : m.adapter # t.adapter
  THEN {"adapter_manifest_missing"}
  ELSE LET m == ManifestOf(w, t.adapter)
       IN  FindingIf("adapter_manifest_version_mismatch",
                     Unset \notin {t.version, m.version} /\ t.version # m.version)
           \cup FindingIf("capability_not_found",
                          \E c \in t.capabilities : ~CapabilityKnown(w, c))
           \cup FindingIf("capability_not_ready",
                          \E c \in t.capabilities :
                            CapabilityKnown(w, c) /\ Capability(w, c).status = "planned")
           \cup FindingIf("adapter_capability_not_implemented",
                          \E c \in t.capabilities :
                            CapabilityKnown(w, c) /\ ~ManifestImplements(m, c))
           \cup FindingIf("validation_profile",
                          \E p \in t.profiles : ~EntryReady(w, "validation_profile", p))
           \cup UNION {BindingFindings(w, t, m, x) : x \in TargetBindings(w, t)}

\* policyMeaningMatchesAction.
HasMeaning(w, t, a) ==
  \E m \in PolicyMeanings(w, t) : a.canonical \in m.actions \/ a.type \in m.types

\* validatePolicyBindingMatches.
MeaningFindings(w, t) ==
  FindingIf("missing_canonical_action_mapping",
            \E m \in PolicyMeanings(w, t) : \E id \in m.actions : ~CanonicalKnown(w, id))
  \cup FindingIf("unknown_action_type",
                 \E m \in PolicyMeanings(w, t) :
                   \E y \in m.types : ~CatalogEntry(w, "action_type", y))
  \cup FindingIf("unmapped_sensitive_action",
                 \E x \in TargetBindings(w, t) :
                   /\ x.action.sensitive
                   /\ Unset \notin {x.action.canonical, x.action.type}
                   /\ ~HasMeaning(w, t, x.action))

\* ValidateAdapterRuntimeDescribe: what the running adapter says of itself.
DescribeMatches(m, d) ==
  /\ d.adapter = m.adapter /\ d.protocol = m.protocol /\ d.manifest = m.digest
  /\ \A c \in {x \in m.capabilities : x.status = "implemented"} :
       /\ c.privileges \subseteq d.privileges
       /\ \E e \in d.capabilities : e.id = c.id /\ c.actions \subseteq e.actions

\* verifyAdapterRuntime, if the request names an endpoint: the manifest may come
\* with the request, and the call may fail (no description).
RuntimeFindings(w, req, t) ==
  LET known == {m \in AdapterManifests(w) : m.adapter = t.adapter}
      used == IF req.manifest # {} THEN {m \in req.manifest : m.valid} ELSE known
  IN  FindingIf("adapter_runtime_verify_failed",
                /\ req.endpoint
                /\ \/ known = {}
                   \/ ~\E m \in used, d \in req.describe :
                         m.adapter = t.adapter /\ DescribeMatches(m, d))

\* findKLShieldRuntimeActionConfig: the first that contains the selector.
ConfigIndex(configs, b) ==
  SelectInSeq(configs,
              LAMBDA c : /\ c.capability = b.capability
                         /\ DOMAIN b.selector # {}
                         /\ \A k \in DOMAIN b.selector :
                              k \in DOMAIN c.selector /\ c.selector[k] = b.selector[k])

\* validateKLShieldConfigSnapshot, for a binding of a sensitive action.
ConfigFindings(configs, b) ==
  LET i == ConfigIndex(configs, b)
  IN  IF i = 0 THEN {"binding_selector_not_enforced"}
      ELSE FindingIf("required_control_missing",
                     \/ ~(b.controls \subseteq configs[i].controls)
                     \/ ~(b.events \subseteq configs[i].events))

\* validateConfigSnapshot: a changed path counts if it lies below the base path
\* of the target.
SnapshotFindings(w, req, t) ==
  CASE req.snapshot = {} /\ req.changed = {} -> {}
    [] req.snapshot = {} /\ req.changed # {} -> {"config_snapshot_unavailable"}
    [] OTHER ->
         LET s == CHOOSE x \in req.snapshot : TRUE
         IN  FindingIf("config_snapshot_unavailable",
                       \/ \E p \in req.changed : p.base = t.base /\ p \notin s.paths
                       \/ t.base \notin s.bases
                       \/ t.adapter = "kernloom.adapter.klshield" /\ ~s.readable)
             \cup (IF t.base \in s.bases /\ t.adapter = "kernloom.adapter.klshield" /\ s.readable
                   THEN UNION {ConfigFindings(s.configs, x.binding) :
                                 x \in {y \in TargetBindings(w, t) : y.action.sensitive}}
                   ELSE {})

-----------------------------------------------------------------------------
(* ValidateCI.                                                             *)

EarlyCodes ==
  {"validation_request_invalid", "registry_invalid", "adapter_manifest_invalid",
   "policy_source_unavailable", "validation_target_not_found"}

ASSUME CodesAssumption == Unset \notin EarlyCodes

\* The early returns; Unset if there is none.
EarlyFinding(w, req) ==
  CASE ~RequestValid(req)                        -> "validation_request_invalid"
    [] ~RegistryLoads(w)                         -> "registry_invalid"
    [] ~ManifestsLoad(w) \/ ~ManifestsValid(w)   -> "adapter_manifest_invalid"
    [] ~BindingsLoad(w)                          -> "policy_source_unavailable"
    [] ~RequestResolves(w, req)                  -> "validation_target_not_found"
    [] OTHER                                     -> Unset

ValidateCI(r) ==
  /\ RunAt(r, "validate")
  /\ LET w == Workspace(edited)
         req == Runs[r].request
         early == EarlyFinding(w, req)
         t == ResolvedTarget(w, req)
     IN  IF early # Unset
         THEN RunTo(r, "done", [findings |-> {early}])
         ELSE RunTo(r, "load",
                [findings |-> CanonicalFindings(w) \cup TargetFindings(w, t)
                                \cup MeaningFindings(w, t) \cup RuntimeFindings(w, req, t)
                                \cup SnapshotFindings(w, req, t),
                 checked |-> edited, files |-> PolicyFiles(w, t)])
  /\ UNCHANGED <<project, edited, stored, signedFile, manifest>>

BuildsNext ==
  \/ Edit
  \/ \E r \in DOMAIN run : ValidateCI(r) \/ CompileStep(r) \/ CompileDies(r)

BuildsSpec == BuildsInit /\ [][BuildsNext]_buildVars

-----------------------------------------------------------------------------
(* Properties.                                                             *)

\* The status is passed.  A Compile that failed is a finding.
Passed(r) == Runs[r].kind = "ci" /\ RunAt(r, "done") /\ run[r].findings = {}

\* The configuration of the target enforces what the canonical action of a
\* binding requires.
Enforced(w, configs, x) ==
  \E i \in DOMAIN configs :
    /\ configs[i].capability = x.binding.capability
    /\ \A k \in DOMAIN x.binding.selector :
         k \in DOMAIN configs[i].selector /\ configs[i].selector[k] = x.binding.selector[k]
    /\ CanonicalAction(w, x.action.canonical).controls \subseteq configs[i].controls

\* What a passed validation stands for: every sensitive action bound to the
\* target is approved and has a policy, the adapter of the target implements
\* its capability, which is not merely planned, and the configuration that was
\* handed in enforces the controls of its canonical action; and each policy of
\* the target was compiled to the end, whatever was edited in between.
PassedMeansEnforced ==
  \A r \in DOMAIN run : Passed(r) =>
    LET w == Workspace(run[r].checked)
        req == Runs[r].request
        t == ResolvedTarget(w, req)
    IN  /\ \A x \in {y \in TargetBindings(w, t) : y.action.sensitive} :
             /\ x.action.status = "approved" \/ x.binding.status = "approved"
             /\ HasMeaning(w, t, x.action)
             /\ Capability(w, x.binding.capability).status # "planned"
             /\ ManifestImplements(ManifestOf(w, t.adapter), x.binding.capability)
             /\ t.adapter = "kernloom.adapter.klshield" =>
                  \A s \in req.snapshot : Enforced(w, s.configs, x)
        /\ \A i \in DOMAIN PolicyFiles(w, t) :
             \E m \in manifest :
               /\ m.run = r
               /\ \E e \in BOOLEAN :
                    m.policy = Workspace(e).policies[PolicyFiles(w, t)[i]].id

=============================================================================
