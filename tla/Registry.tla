------------------------------ MODULE Registry ------------------------------
(***************************************************************************)
(* The registry a policy is compiled against                               *)
(* (internal/core/registry/registry.go): what Load accepts, and what the   *)
(* catalog it returns answers.  A workspace w is what lies on disk: the    *)
(* core registry, the enterprise registry, the adapter manifests and the   *)
(* policies.                                                               *)
(*                                                                         *)
(* Load keeps nothing when it fails, so the order of its checks is not     *)
(* modelled.  What a document looks like (its schema, prefixes of ids,     *)
(* allowed kinds) is one Boolean `valid'.  A reference of an entry to      *)
(* another is a pair of a catalog and an id.                               *)
(***************************************************************************)
EXTENDS Naturals, Sequences, FiniteSets, SequencesExt

CONSTANT Unset    \* a field that is empty or absent

\* supplementalCatalogDefinitions: all of them are required.
SupplementalCatalogs ==
  {"signal", "metric", "granularity", "entity_type", "action_type", "evidence",
   "privilege", "state", "event", "context", "component_role", "requirement",
   "selector_schema", "validation_profile"}

\* No two members of S share the value of f.
Unique(S, f(_)) == \A x, y \in S : f(x) = f(y) => x = y

-----------------------------------------------------------------------------
(* Authoring values: a label and a kind stand for a canonical id.          *)

SameKey(v, t) == v.label = t.label /\ v.kind = t.kind

\* byLabelKind holds the last core value with the key of t, 0 if there is none.
CoreIndex(w, t) == SelectLastInSeq(w.values, LAMBDA v : SameKey(v, t))

\* addValue: an enterprise term must not give a known key another id.
TermsAgree(w) ==
  \A t \in w.terms :
    IF CoreIndex(w, t) # 0
    THEN w.values[CoreIndex(w, t)].id = t.id
    ELSE \A u \in w.terms : SameKey(u, t) => u.id = t.id

\* byLabel, restricted to the kinds.  The core catalog may repeat a key.
Candidates(w, label, kinds) ==
  {<<i, w.values[i]>> : i \in {j \in DOMAIN w.values :
     w.values[j].label = label /\ w.values[j].kind \in kinds}}
  \cup {<<0, t>> : t \in {u \in w.terms :
          u.label = label /\ u.kind \in kinds /\ CoreIndex(w, u) = 0}}

\* Resolve answers unless the value is unknown or ambiguous.
Resolves(w, label, kinds) == Cardinality(Candidates(w, label, kinds)) = 1

Resolve(w, label, kinds) == (CHOOSE c \in Candidates(w, label, kinds) : TRUE)[2]

HasAuthoringCanonicalID(w, kind, id) ==
  \E v \in ToSet(w.values) \cup w.terms : v.kind = kind /\ v.id = id

-----------------------------------------------------------------------------
(* Capabilities, compiler rules and the other catalogs.                    *)

CapabilityKnown(w, id) == \E c \in w.capabilities : c.id = id

Capability(w, id) == CHOOSE c \in w.capabilities : c.id = id

CatalogEntry(w, catalog, id) == \E e \in w.entries : e.catalog = catalog /\ e.id = id

EntryReady(w, catalog, id) ==
  \E e \in w.entries : e.catalog = catalog /\ e.id = id /\ e.status # "planned"

HasRegistryID(w, id) ==
  \/ CapabilityKnown(w, id)
  \/ \E e \in w.entries : e.id = id
  \/ \E v \in ToSet(w.values) \cup w.terms : v.id = id
  \/ id \in DOMAIN w.profiles \cup DOMAIN w.enterpriseProfiles
  \/ id \in w.guardrails

\* A reference: to a capability, to any id, or to an entry of a catalog.
Known(w, r) ==
  CASE r[1] = "capability" -> CapabilityKnown(w, r[2])
    [] r[1] = "any"        -> HasRegistryID(w, r[2])
    [] OTHER               -> CatalogEntry(w, r[1], r[2])

\* capabilitySupportsRuntimeAction: actions and aliases are one set.
SupportsRuntimeAction(c, action) == action \in c.actions

CatalogsLoad(w) ==
  /\ \A e \in w.entries : e.valid
  /\ Unique(w.entries, LAMBDA e : <<e.catalog, e.id>>)
  /\ \A n \in SupplementalCatalogs : \E e \in w.entries : e.catalog = n

CapabilitiesLoad(w) ==
  /\ \A c \in w.capabilities : c.valid
  /\ Unique(w.capabilities, LAMBDA c : c.id)

\* loadCompilerRules: one rule for each runtime action.
CompilerRulesLoad(w) ==
  /\ \A r \in w.rules : r.valid
  /\ Unique(w.rules, LAMBDA r : r.id)
  /\ Unique({r \in w.rules : r.action # Unset}, LAMBDA r : r.action)

\* RuntimeActionRule.
HasRule(w, action) == \E r \in w.rules : r.action = action

RuntimeActionRule(w, action) == CHOOSE r \in w.rules : r.action = action

-----------------------------------------------------------------------------
(* Profiles: an enterprise profile extends or overrides one of the core.   *)

ProfilesLoad(w) ==
  \A p \in DOMAIN w.enterpriseProfiles :
    LET mode == w.enterpriseProfiles[p].mode
    IN  \/ mode \in {"inherited", "override"} /\ p \in DOMAIN w.profiles
        \/ mode = Unset /\ p \notin DOMAIN w.profiles

\* A field the overlay leaves out is the base's.
mergeProfile(base, overlay) ==
  [f \in DOMAIN overlay |->
     IF f # "mode" /\ overlay[f] = Unset THEN base[f] ELSE overlay[f]]

Profiles(w) ==
  [p \in DOMAIN w.profiles \cup DOMAIN w.enterpriseProfiles |->
     IF p \notin DOMAIN w.enterpriseProfiles THEN w.profiles[p]
     ELSE IF p \notin DOMAIN w.profiles THEN w.enterpriseProfiles[p]
     ELSE mergeProfile(w.profiles[p], w.enterpriseProfiles[p])]

ProfileGuardrailsKnown(w) ==
  \A p \in DOMAIN Profiles(w) :
    Profiles(w)[p].guardrails = Unset \/ Profiles(w)[p].guardrails \subseteq w.guardrails

-----------------------------------------------------------------------------
(* Adapter bindings.                                                       *)

\* adapterBindingID: a digest of everything but the id.
MadeID(b) == <<"adapter_binding", [b EXCEPT !.id = Unset]>>

FaultyLoadBinding(b) == b

\* loadAdapterBindings gives a binding without an id one made from its digest.
LoadBinding(b) == [b EXCEPT !.id = IF @ = Unset THEN MadeID(b) ELSE @]

\* AdapterBinding: the first that is implemented and has the stage.  An empty
\* status counts as implemented, no stages as every stage.
BindingIndex(w, capability, stage) ==
  SelectInSeq(w.bindings,
              LAMBDA b : /\ b.capability = capability
                         /\ b.status \in {Unset, "implemented"}
                         /\ b.stages = {} \/ stage \in b.stages)

AdapterBinding(w, capability, stage) ==
  LoadBinding(w.bindings[BindingIndex(w, capability, stage)])

\* validateCapabilityReferences and validateRequirementReferences.
CapabilityReferencesKnown(w) ==
  /\ \A r \in {x \in w.rules : x.action # Unset} :
       /\ HasAuthoringCanonicalID(w, "runtime_action", r.action)
       /\ \A x \in r.refs : Known(w, x)
       /\ r.capabilities # {}
       /\ \A id \in r.capabilities : /\ CapabilityKnown(w, id)
                                     /\ SupportsRuntimeAction(Capability(w, id), r.action)
  /\ \A c \in w.capabilities : \A x \in c.refs : Known(w, x)
  /\ \A e \in w.entries : e.catalog = "requirement" => \A x \in e.refs : Known(w, x)
  /\ \A b \in ToSet(w.bindings) :
       /\ CapabilityKnown(w, b.capability)
       /\ b.status = "implemented" => Capability(w, b.capability).status # "planned"

\* Load.
RegistryLoads(w) ==
  /\ w.valid
  /\ CatalogsLoad(w) /\ CapabilitiesLoad(w) /\ CompilerRulesLoad(w)
  /\ TermsAgree(w)
  /\ ProfilesLoad(w) /\ ProfileGuardrailsKnown(w)
  /\ CapabilityReferencesKnown(w)

=============================================================================
