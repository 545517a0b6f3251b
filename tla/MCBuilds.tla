------------------------------ MODULE MCBuilds ------------------------------
(***************************************************************************)
(* Projects for policy builds and validations: a workspace in which all is *)
(* well, the same workspace with one thing wrong or different, edits, and  *)
(* runs side by side.                                                      *)
(***************************************************************************)
EXTENDS CIValidation

MCDurations == [d \in {"10m", "20m"} |-> IF d = "10m" THEN 10 ELSE 20]

-----------------------------------------------------------------------------
(* The workspace in which all is well.                                     *)

\* A label stands for an id of its own, except that block and drop are one.
Value(label, kind) ==
  [label |-> label, kind |-> kind,
   id |-> IF label = "drop" THEN "act.block" ELSE IF label = "block" THEN "act.block"
          ELSE IF label = "limit" THEN "act.limit" ELSE label,
   cel |-> IF kind = "fact" THEN "bool" ELSE Unset]

Values ==
  <<Value("network", "policy_type"), Value("klshield", "target_system"),
    Value("prod", "stage"), Value("allow", "effect"), Value("user", "subject"),
    Value("read", "action"), Value("db", "resource"), Value("managed", "fact"),
    Value("block", "runtime_action"), Value("limit", "runtime_action"),
    Value("session", "scope"), Value("leak", "prohibited_outcome"),
    Value("theft", "risk_type"), Value("high", "risk_tier")>>

\* A drop is what the enterprise calls a block.
Terms == {[Value("drop", "runtime_action") EXCEPT !.cel = Unset]}

Entry(catalog, id) ==
  [catalog |-> catalog, id |-> id, status |-> "ready", valid |-> TRUE, refs |-> {}]

Cap(id, action) ==
  [id |-> id, valid |-> TRUE, status |-> "ready", actions |-> {action},
   refs |-> {<<"privilege", "entry.privilege">>}, privileges |-> {"entry.privilege"},
   granularities |-> {}]

Rule(id, action, capability) ==
  [id |-> id, valid |-> TRUE, action |-> action, capabilities |-> {capability},
   refs |-> {<<"any", capability>>, <<"capability", capability>>}]

AdapterCap(id, action) ==
  [id |-> id, status |-> "implemented", actions |-> {action},
   privileges |-> {"entry.privilege"}, granularities |-> {}]

Adapter(name, capabilities) ==
  [adapter |-> name, valid |-> TRUE, version |-> "v1", protocol |-> "p1",
   digest |-> "m1", capabilities |-> capabilities,
   rawSignals |-> {[id |-> "own", own |-> TRUE, projected |-> TRUE]},
   refs |-> {<<"state", "entry.state">>}]

Card(id, actions) ==
  [id |-> id, valid |-> TRUE, type |-> "network", target |-> "klshield", stage |-> "prod",
   profile |-> "standard", recipe |-> "recipe",
   rules |-> {[name |-> "r", effect |-> "allow", subject |-> "user", action |-> "read",
               resource |-> "db", facts |-> {"managed"}]},
   risk |-> {[riskType |-> "theft", tier |-> "high", effect |-> "allow"]},
   prohibit |-> {"leak"}, allowed |-> TRUE, actions |-> actions, maxTTL |-> "10m",
   maxScope |-> Unset,
   simulations |-> {[given |-> {"managed", "user"}, expect |-> "allow"]}]

Profile(mode, ttl) ==
  [mode |-> mode, guardrails |-> {"rail"}, maxTTL |-> ttl, maxScope |-> "session"]

Binding ==
  [id |-> "b", target |-> "t.yaml", capability |-> "cap.block",
   selector |-> [type |-> "entry.selector_schema"], controls |-> {"c"},
   events |-> {"entry.event"}, status |-> "approved"]

BoundAction ==
  [id |-> "a", canonical |-> "kernloom_action.stop", type |-> "entry.action_type",
   sensitive |-> TRUE, status |-> Unset, bindings |-> {Binding}]

File == [app |-> "app", tenant |-> "x", env |-> "prod", actions |-> {BoundAction}]

Canonical ==
  [id |-> "kernloom_action.stop", type |-> "entry.action_type", controls |-> {"c"},
   events |-> {"entry.event"}]

ConfigSource ==
  [id |-> "s1", type |-> "config_repo", repo |-> "cfg", tenant |-> "*", env |-> "*",
   resources |-> {}, targets |-> {}, visibility |-> Unset, paths |-> {}, meanings |-> {}]

PolicySource ==
  [id |-> "s2", type |-> "policy_repo", repo |-> "pol", tenant |-> "x", env |-> "prod",
   resources |-> {"app"}, targets |-> {"t"}, visibility |-> "app_team", paths |-> {1},
   meanings |-> {[path |-> 1, actions |-> {"kernloom_action.stop"}, types |-> {}]}]

Target ==
  [path |-> "t.yaml", id |-> "t", tenant |-> "x", env |-> "prod",
   adapter |-> "kernloom.adapter.klshield", version |-> "v1",
   capabilities |-> {"cap.block"}, profiles |-> {"entry.validation_profile"},
   repo |-> "cfg", base |-> "net"]

Store ==
  [valid |-> TRUE,
   repos |-> <<[id |-> "cfg", provider |-> "git", names |-> {"cfg"}, team |-> "net"],
               [id |-> "pol", provider |-> "git", names |-> {"pol"}, team |-> "net"]>>,
   canonical |-> {Canonical}, sources |-> {ConfigSource, PolicySource},
   targets |-> {Target}, files |-> {File}]

Good ==
  [valid |-> TRUE, values |-> Values, terms |-> Terms,
   capabilities |-> {Cap("cap.block", "act.block"), Cap("cap.limit", "act.limit")},
   rules |-> {Rule("r1", "act.block", "cap.block"), Rule("r2", "act.limit", "cap.limit")},
   entries |-> {Entry(c, "entry." \o c) : c \in SupplementalCatalogs},
   profiles |-> [p \in {"standard"} |-> Profile(Unset, Unset)],
   enterpriseProfiles |-> [p \in {"standard"} |-> Profile("override", "20m")],
   guardrails |-> {"rail"},
   bindings |-> <<[id |-> Unset, capability |-> "cap.block", adapter |-> "kernloom.adapter.klshield",
                   status |-> Unset, stages |-> {}],
                  [id |-> "b2", capability |-> "cap.limit", adapter |-> "kernloom.adapter.ziti",
                   status |-> "implemented", stages |-> {"prod"}]>>,
   recipes |-> {[id |-> "recipe", valid |-> TRUE]},
   manifests |-> <<{}, {Adapter("kernloom.adapter.klshield", {AdapterCap("cap.block", "act.block")}),
                        Adapter("kernloom.adapter.ziti", {AdapterCap("cap.limit", "act.limit")})}>>,
   policies |-> <<Card("p1", {"block"})>>,
   store |-> Store]

-----------------------------------------------------------------------------
(* Workspaces that differ in one thing.                                    *)

WithCard(card) == [Good EXCEPT !.policies = <<card>>]

WithStore(store) == [Good EXCEPT !.store = store]

WithAction(a) == WithStore([Store EXCEPT !.files = {[File EXCEPT !.actions = {a}]}])

WithBinding(b) == WithAction([BoundAction EXCEPT !.bindings = {b}])

WithTarget(t) == WithStore([Store EXCEPT !.targets = {t}])

WithSource(s) == WithStore([Store EXCEPT !.sources = {ConfigSource, s}])

WithCanonical(a) == WithStore([Store EXCEPT !.canonical = {a}])

WithManifests(manifests) == [Good EXCEPT !.manifests[2] = manifests]

AllManifests == Good.manifests[2]

TwoPolicies == [Good EXCEPT !.policies = <<Card("p1", {"block"}), Card("p2", {"limit"})>>]

\* The registry does not load, or a policy does not resolve.
Unbuildable ==
  <<[Good EXCEPT !.valid = FALSE],
    [Good EXCEPT !.entries = {e \in @ : e.catalog # "event"}],
    [Good EXCEPT !.entries = @ \cup {[Entry("state", "entry.state") EXCEPT !.status = "planned"]}],
    [Good EXCEPT !.entries = {[e EXCEPT !.refs = IF e.catalog = "requirement"
                                                 THEN {<<"event", "none">>} ELSE @] : e \in @}],
    [Good EXCEPT !.capabilities = @ \cup {[Cap("cap.block", "act.limit") EXCEPT !.refs = {}]}],
    [Good EXCEPT !.capabilities = {[c EXCEPT !.status = "planned"] : c \in @}],
    [Good EXCEPT !.rules = @ \cup {Rule("r3", "act.block", "cap.limit")}],
    [Good EXCEPT !.rules = {Rule("r1", "act.block", "cap.limit")}],
    [Good EXCEPT !.terms = {[t EXCEPT !.label = "limit"] : t \in @}],
    [Good EXCEPT !.enterpriseProfiles = [p \in {"standard"} |-> Profile(Unset, "20m")]],
    [Good EXCEPT !.guardrails = {}],
    [Good EXCEPT !.values[8].cel = "invalid"],
    [Good EXCEPT !.recipes = {[id |-> "recipe", valid |-> FALSE]}],
    WithManifests({[m EXCEPT !.capabilities = {}] : m \in AllManifests}),
    WithManifests({[m EXCEPT !.rawSignals = {[id |-> "x", own |-> TRUE, projected |-> FALSE]}]
                     : m \in AllManifests}),
    WithManifests({[m EXCEPT !.capabilities = {[c EXCEPT !.privileges = {}] : c \in @}]
                     : m \in AllManifests}),
    [Good EXCEPT !.policies = <<[Card("p1", {"block"}) EXCEPT !.valid = FALSE]>>],
    WithCard([Card("p1", {"block"}) EXCEPT !.target = "none"]),
    WithCard([Card("p1", {"block"}) EXCEPT !.rules = {}]),
    WithCard([Card("p1", {"block"}) EXCEPT !.recipe = "none"]),
    [Good EXCEPT !.values = Append(@, Value("block", "runtime_action"))]>>

\* A policy resolves, and an action of it has no grant.
Ungranted ==
  <<[Good EXCEPT !.rules = {r \in @ : r.action # "act.block"}],
    [Good EXCEPT !.bindings = Tail(@)],
    WithManifests({[m EXCEPT !.capabilities = {[c EXCEPT !.status = "planned"] : c \in @}]
                     : m \in AllManifests}),
    [Good EXCEPT !.manifests[2] = {m \in @ : m.adapter # "kernloom.adapter.klshield"}]>>

\* Policies that are built: with no, one or two adapters, two labels for one
\* action, a duration or not, actions that are not allowed, two policies, two of
\* one id.
Buildable ==
  <<WithCard(Card("p1", {})), WithCard(Card("p1", {"block"})),
    WithCard(Card("p1", {"block", "limit"})), WithCard(Card("p1", {"block", "drop"})),
    WithCard([Card("p1", {"block"}) EXCEPT !.maxTTL = "text"]),
    WithCard([Card("p1", {"block"}) EXCEPT !.allowed = FALSE]),
    WithCard([Card("p1", {"block"}) EXCEPT !.maxTTL = Unset]),
    [Good EXCEPT !.policies = <<Card("p1", {"block"}), Card("p1", {"limit"})>>],
    TwoPolicies>>

\* The validation finds something.
Unapproved ==
  <<WithBinding([Binding EXCEPT !.status = "rejected"]),
    WithBinding([Binding EXCEPT !.capability = "cap.limit"]),
    WithBinding([Binding EXCEPT !.target = "none.yaml"]),
    WithBinding([Binding EXCEPT !.controls = {}]),
    WithBinding([Binding EXCEPT !.controls = {"c", "d"}]),
    WithBinding([Binding EXCEPT !.events = {}]),
    WithBinding([Binding EXCEPT !.selector = [type |-> "none"]]),
    WithBinding([Binding EXCEPT !.selector = [type |-> "entry.selector_schema", port |-> "1"]]),
    WithAction([BoundAction EXCEPT !.bindings = {}]),
    WithAction([BoundAction EXCEPT !.canonical = Unset]),
    WithAction([BoundAction EXCEPT !.status = "pending"]),
    WithTarget([Target EXCEPT !.adapter = "none"]),
    WithTarget([Target EXCEPT !.version = "v2"]),
    WithTarget([Target EXCEPT !.capabilities = @ \cup {"cap.limit"}]),
    WithTarget([Target EXCEPT !.profiles = {"none"}]),
    WithTarget([Target EXCEPT !.tenant = "y"]),
    WithSource([PolicySource EXCEPT !.meanings = {}]),
    WithSource([PolicySource EXCEPT !.paths = {1, 2}]),
    WithSource([PolicySource EXCEPT !.tenant = "y"]),
    WithSource([PolicySource EXCEPT !.repo = "none"]),
    WithCanonical([Canonical EXCEPT !.controls = {"c", "d"}]),
    WithCanonical([Canonical EXCEPT !.events = {"none"}]),
    WithStore([Store EXCEPT !.repos[2].team = "app"]),
    WithStore([Store EXCEPT !.sources = {}])>>

\* It still passes: an approved action, also one whose binding is rejected.
StillPassing ==
  <<WithAction([BoundAction EXCEPT !.status = "approved"]),
    WithAction([BoundAction EXCEPT !.status = "approved",
                                   !.bindings = {[Binding EXCEPT !.status = "rejected"]}])>>

-----------------------------------------------------------------------------
(* Runs and projects.                                                      *)

Request ==
  [tenant |-> "x", env |-> "prod", provider |-> Unset, repository |-> "cfg",
   base |-> "net", target |-> Unset, endpoint |-> FALSE, manifest |-> {},
   describe |-> {}, snapshot |-> {}, changed |-> {}]

Config(controls) ==
  [capability |-> "cap.block", selector |-> [type |-> "entry.selector_schema"],
   controls |-> controls, events |-> {"entry.event"}]

Snapshot(configs) ==
  [bases |-> {"net"}, paths |-> {[base |-> "net", file |-> 1]}, readable |-> TRUE,
   configs |-> configs]

Described ==
  {[adapter |-> "kernloom.adapter.klshield", protocol |-> "p1", manifest |-> "m1",
    privileges |-> {"entry.privilege"},
    capabilities |-> {[id |-> "cap.block", actions |-> {"act.block"}]}]}

FullRequest ==
  [Request EXCEPT !.snapshot = {Snapshot(<<Config({"c"})>>)}, !.changed = {[base |-> "net", file |-> 1]},
                  !.endpoint = TRUE, !.describe = Described]

\* Requests that find something in a workspace in which all is well.
BadRequests ==
  <<[Request EXCEPT !.repository = Unset], [Request EXCEPT !.repository = "none"],
    [FullRequest EXCEPT !.snapshot = {}], [FullRequest EXCEPT !.describe = {}],
    [FullRequest EXCEPT !.changed = {[base |-> "net", file |-> 2]}],
    [FullRequest EXCEPT !.manifest = {Adapter("kernloom.adapter.ziti", {})}],
    [FullRequest EXCEPT !.snapshot = {Snapshot(<<>>)}],
    [FullRequest EXCEPT !.snapshot = {Snapshot(<<Config({})>>)}],
    [FullRequest EXCEPT !.snapshot = {[s EXCEPT !.bases = {}] : s \in @}]>>

CompileRun(signs) == [kind |-> "compile", signs |-> signs, request |-> Request]

CIRun(request) == [kind |-> "ci", signs |-> FALSE, request |-> request]

Project(before, after, runs) == [before |-> before, after |-> after, runs |-> runs]

\* Each workspace of a sequence with one run, before an edit to it or without.
Alone(before, workspaces, r) ==
  [i \in DOMAIN workspaces |->
     Project(IF before = Unset THEN workspaces[i] ELSE before, workspaces[i], <<r>>)]

Requested(requests) ==
  [i \in DOMAIN requests |-> Project(Good, Good, <<CIRun(requests[i])>>)]

\* The first is no run at all.
MCProjects ==
  <<Project(Unset, Unset, <<>>)>>
  \o Alone(Unset, Buildable, CompileRun(TRUE))
  \o Alone(Unset, Unbuildable \o Ungranted, CompileRun(FALSE))
  \o Alone(Unset, Unbuildable \o Ungranted \o Unapproved \o StillPassing, CIRun(FullRequest))
  \o Requested(BadRequests \o <<Request, FullRequest>>)
  \o Alone(Good, Ungranted, CIRun(FullRequest))
  \o <<Project(Good, Good, <<CompileRun(TRUE), CompileRun(TRUE)>>),
       Project(TwoPolicies, Good, <<CompileRun(TRUE)>>),
       Project(Good, WithCard([Card("p1", {"block"}) EXCEPT !.allowed = FALSE]),
               <<CompileRun(FALSE)>>),
       Project(Good, TwoPolicies, <<CompileRun(FALSE), CIRun(FullRequest)>>)>>

=============================================================================
