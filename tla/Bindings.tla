------------------------------ MODULE Bindings ------------------------------
(***************************************************************************)
(* Repository, policy source, target and action bindings                   *)
(* (internal/forge/bindings): what Load accepts of w.store, and which      *)
(* target, bindings and policies ResolveCIRequest finds for a request.     *)
(* Both answer or fail as a whole, so the order of their checks is not     *)
(* modelled.  A path of a policy is its index in w.policies; that of a     *)
(* target file is a value of its own.                                      *)
(***************************************************************************)
EXTENDS PolicyCompiler

\* validatePolicySources, for one source.
PolicySourceValid(w, s) ==
  /\ \E i \in DOMAIN w.store.repos : w.store.repos[i].id = s.repo
  /\ s.type \in {"policy_repo", "config_repo"}
  /\ s.type = "policy_repo" =>
       /\ s.paths # {}
       /\ \A m \in s.meanings : m.path \in s.paths /\ m.actions \cup m.types # {}
  /\ s.visibility \in {Unset, "restricted", "platform_team", "app_team", "public"}

RepositoriesLoad(w) == IsInjective([i \in DOMAIN w.store.repos |-> w.store.repos[i].id])

CanonicalActionsLoad(w) ==
  w.store.canonical # {} /\ Unique(w.store.canonical, LAMBDA a : a.id)

PolicySourcesLoad(w) == w.store.sources # {} /\ Unique(w.store.sources, LAMBDA s : s.id)

ActionBindingsLoad(w) ==
  \A f \in w.store.files : \A a \in f.actions : a.sensitive => a.bindings # {}

\* Load: store.valid says that the files can be read and have their fields.
BindingsLoad(w) ==
  /\ w.store.valid
  /\ RepositoriesLoad(w) /\ CanonicalActionsLoad(w) /\ PolicySourcesLoad(w)
  /\ \A s \in w.store.sources : PolicySourceValid(w, s)
  /\ ActionBindingsLoad(w)

\* CanonicalAction.
CanonicalKnown(w, id) == \E a \in w.store.canonical : a.id = id

CanonicalAction(w, id) == CHOOSE a \in w.store.canonical : a.id = id

-----------------------------------------------------------------------------
(* Resolving a request.                                                    *)

\* repositoryByIdentity: the first that has the name.
RepositoryIndex(w, req) ==
  SelectInSeq(w.store.repos,
              LAMBDA r : /\ Unset \in {req.provider, r.provider} \/ req.provider = r.provider
                         /\ req.repository \in r.names)

\* targetsForRepo: what the request leaves out is not compared.
TargetsForRepo(w, req) ==
  {t \in w.store.targets :
     /\ t.tenant = req.tenant /\ t.env = req.env
     /\ req.target \in {Unset, t.id}
     /\ t.repo = w.store.repos[RepositoryIndex(w, req)].id
     /\ req.base \in {Unset, t.base}}

SameTenant(x, y) == x.tenant = y.tenant /\ x.env = y.env

\* bindingsForTarget.
BindingsForTarget(w, t) ==
  UNION {UNION {{[app |-> f.app, action |-> a, binding |-> b] : b \in a.bindings} :
                  a \in f.actions} : f \in {h \in w.store.files : SameTenant(h, t)}}

TargetBindings(w, t) == {x \in BindingsForTarget(w, t) : x.binding.target = t.path}

\* A reference to no target file, or a target without bindings, is an error.
BindingsResolve(w, t) ==
  /\ \A x \in BindingsForTarget(w, t) : \E u \in w.store.targets : u.path = x.binding.target
  /\ TargetBindings(w, t) # {}

ScopeMatches(scopes, value) == scopes \cap {"*", value} # {}

sourceMatchesScope(w, s, t) ==
  /\ ScopeMatches({s.tenant}, t.tenant) /\ ScopeMatches({s.env}, t.env)
  /\ s.targets = {} \/ ScopeMatches(s.targets, t.id)
  /\ \/ s.resources = {} \/ "*" \in s.resources
     \/ \E x \in TargetBindings(w, t) : ScopeMatches(s.resources, x.app)

visibilityAllowed(s, repo, sourceRepo) ==
  s.visibility = "app_team" =>
    s.repo = repo.id \/ (sourceRepo.team # Unset /\ sourceRepo.team = repo.team)

\* policySourcesForTarget: the sources in the scope of the target; a config
\* source counts only if it is the target's own repository.
SourcesForTarget(w, t) ==
  {s \in w.store.sources : /\ sourceMatchesScope(w, s, t)
                           /\ s.type = "config_repo" => s.repo = t.repo}

SourcesResolve(w, req, t) ==
  /\ \A s \in w.store.sources : sourceMatchesScope(w, s, t) =>
       LET i == SelectInSeq(w.store.repos, LAMBDA r : r.id = s.repo)
       IN  /\ visibilityAllowed(s, w.store.repos[RepositoryIndex(w, req)], w.store.repos[i])
           /\ s.type = "policy_repo" => s.paths \subseteq DOMAIN w.policies
  /\ {s.type : s \in SourcesForTarget(w, t)} = {"config_repo", "policy_repo"}

\* ResolveCIRequest.
RequestResolves(w, req) ==
  /\ RepositoryIndex(w, req) # 0
  /\ Cardinality(TargetsForRepo(w, req)) = 1
  /\ \A t \in TargetsForRepo(w, req) : BindingsResolve(w, t) /\ SourcesResolve(w, req, t)

ResolvedTarget(w, req) == CHOOSE t \in TargetsForRepo(w, req) : TRUE

\* The members of a set, each once, in order.
Ascending(S) ==
  CHOOSE f \in [1..Cardinality(S) -> S] : \A i, j \in DOMAIN f : i < j => f[i] < f[j]

\* PolicyFiles and policyMeaningsForSources.
PolicySources(w, t) == {s \in SourcesForTarget(w, t) : s.type = "policy_repo"}

PolicyFiles(w, t) == Ascending(UNION {s.paths : s \in PolicySources(w, t)})

PolicyMeanings(w, t) == UNION {s.meanings : s \in PolicySources(w, t)}

=============================================================================
