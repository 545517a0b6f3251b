------------------------- MODULE CIValidationProofs -------------------------
(***************************************************************************)
(* Proof that a passed validation stands for what it is taken for, for any *)
(* projects: no findings mean that each sensitive action of the target is  *)
(* enforced (NothingFound), and the policies that ValidateCI went on to    *)
(* compile have their manifests (Progress), whatever was edited between    *)
(* the findings and the compilations.                                      *)
(***************************************************************************)
EXTENDS BuildsProofs

-----------------------------------------------------------------------------
(* Operators of the library and of the registry.                           *)

\* findKLShieldRuntimeActionConfig finds an entry that contains the selector.
LEMMA ConfigFound ==
  ASSUME NEW configs, NEW b, configs \in Seq(ToSet(configs)), ConfigIndex(configs, b) # 0
  PROVE  /\ ConfigIndex(configs, b) \in DOMAIN configs
         /\ configs[ConfigIndex(configs, b)].capability = b.capability
         /\ \A k \in DOMAIN b.selector :
              /\ k \in DOMAIN configs[ConfigIndex(configs, b)].selector
              /\ configs[ConfigIndex(configs, b)].selector[k] = b.selector[k]
<1> DEFINE I == {i \in 1..Len(configs) :
                   /\ configs[i].capability = b.capability
                   /\ DOMAIN b.selector # {}
                   /\ \A k \in DOMAIN b.selector :
                        k \in DOMAIN configs[i].selector /\ configs[i].selector[k] = b.selector[k]}
<1>1. ConfigIndex(configs, b) = IF I # {} THEN Min(I) ELSE 0
  BY DEF ConfigIndex, SelectInSeq
<1>2. I \in SUBSET Nat
  OBVIOUS
<1>3. ConfigIndex(configs, b) \in I
  <2> HIDE DEF I
  <2> QED
    BY <1>1, <1>2, MinIsMember
<1> QED
  BY <1>3

\* PolicyFiles lists the paths it is given: there is a sequence in order, as the
\* number of members up to a member is its place.
LEMMA AscendingLists ==
  ASSUME NEW S \in SUBSET Nat, IsFiniteSet(S)
  PROVE  /\ Cardinality(S) \in Nat
         /\ S # {} => Cardinality(S) # 0
         /\ Ascending(S) \in [1..Cardinality(S) -> S]
<1> DEFINE n == Cardinality(S)
           Upto(x) == {y \in S : y <= x}
           rank == [x \in S |-> Cardinality(Upto(x))]
           f == [i \in 1..n |-> CHOOSE x \in S : rank[x] = i]
<1>1. n \in Nat /\ (S # {} => n # 0)
  BY FS_CardinalityType, FS_EmptySet
<1>2. ASSUME NEW x \in S
      PROVE  IsFiniteSet(Upto(x)) /\ Cardinality(Upto(x)) \in 1..n
  <2>1. IsFiniteSet(Upto(x)) /\ Cardinality(Upto(x)) <= n
    BY FS_Subset
  <2>2. x \in Upto(x)
    OBVIOUS
  <2>3. Cardinality(Upto(x)) \in Nat /\ Cardinality(Upto(x)) # 0
    BY <2>1, <2>2, FS_CardinalityType, FS_EmptySet
  <2> QED
    BY <1>1, <2>1, <2>3
<1>3. rank \in [S -> 1..n]
  BY <1>2
<1>4. ASSUME NEW x \in S, NEW y \in S, x < y
      PROVE  rank[x] < rank[y]
  <2> x \in Nat /\ y \in Nat /\ \A z \in S : z \in Nat
    OBVIOUS
  <2>4. \A z \in S : z <= x => z <= y
    BY <1>4
  <2>1. Upto(x) \in SUBSET Upto(y)
    BY <2>4, Zenon
  <2>3. y \in Upto(y) /\ y \notin Upto(x)
    BY <1>4
  <2>2. Cardinality(Upto(x)) <= Cardinality(Upto(y)) /\ Cardinality(Upto(x)) # Cardinality(Upto(y))
    BY <1>2, <2>1, <2>3, FS_Subset
  <2> QED
    BY <1>2, <2>2
<1> HIDE DEF rank, n
<1>5. rank \in Injection(S, 1..n)
  <2>1. ASSUME NEW x \in S, NEW y \in S, rank[x] = rank[y]
        PROVE  x = y
    BY <1>3, <1>4, <2>1
  <2> QED
    BY <1>3, <2>1 DEF Injection, IsInjective
<1>6. rank \in Surjection(S, 1..n)
  <2>1. IsFiniteSet(1..n) /\ Cardinality(1..n) = n
    BY <1>1, FS_Interval
  <2>2. Cardinality(S) = Cardinality(1..n)
    BY <2>1 DEF n
  <2> QED
    BY <1>5, <2>1, <2>2, FS_Injection
<1>7. \A i \in 1..n : f[i] \in S /\ rank[f[i]] = i
  BY <1>6 DEF Surjection
<1>8. f \in [1..n -> S]
  BY <1>7
<1> HIDE DEF f
<1>9. \A i, j \in DOMAIN f : i < j => f[i] < f[j]
  <2>1. ASSUME NEW i \in 1..n, NEW j \in 1..n, i < j
        PROVE  f[i] < f[j]
    <3>1. f[i] \in Nat /\ f[j] \in Nat
      BY <1>7
    <3>2. f[j] < f[i] => j < i
      BY <1>4, <1>7
    <3>4. ~(j < i)
      BY <1>1, <2>1
    <3>3. f[j] # f[i]
      BY <1>7, <2>1
    <3> QED
      BY <3>1, <3>2, <3>3, <3>4
  <2> QED
    BY <2>1, <1>8
<1>10. Ascending(S) \in [1..n -> S]
  BY <1>8, <1>9 DEF Ascending, n
<1> QED
  BY <1>1, <1>10 DEF n

-----------------------------------------------------------------------------
(* Validation: what a workspace without findings is like.                  *)

LEMMA NoEarlyFinding ==
  ASSUME NEW w, NEW req, EarlyFinding(w, req) = Unset
  PROVE  RegistryLoads(w) /\ BindingsLoad(w) /\ RequestResolves(w, req)
BY CodesAssumption DEF EarlyFinding, EarlyCodes

\* A sensitive action of a target, in a workspace in which ValidateCI finds nothing.
LEMMA NothingFound ==
  ASSUME NEW w, NEW req, WellRead(w), EarlyFinding(w, req) = Unset, AllFindings(w, req) = {},
         \A y, z \in req.snapshot : y = z /\ y.configs \in Seq(ToSet(y.configs)),
         NEW t, t = ResolvedTarget(w, req),
         NEW x \in TargetBindings(w, t), x.action.sensitive
  PROVE  /\ x.action.status = "approved" \/ x.binding.status = "approved"
         /\ HasMeaning(w, t, x.action)
         /\ Capability(w, x.binding.capability).status # "planned"
         /\ ManifestImplements(ManifestOf(w, t.adapter), x.binding.capability)
         /\ t.adapter = "kernloom.adapter.klshield" =>
              \A s \in req.snapshot : Enforced(w, s.configs, x)
<1> DEFINE a == x.action
           b == x.binding
           m == ManifestOf(w, t.adapter)
<1>1. RegistryLoads(w)
  BY NoEarlyFinding
<1>2. TargetFindings(w, t) = {} /\ MeaningFindings(w, t) = {} /\ SnapshotFindings(w, req, t) = {}
  BY DEF AllFindings
<1>3. ~\A y \in AdapterManifests(w) : y.adapter # t.adapter
  BY <1>2 DEF TargetFindings
<1>4. /\ FindingIf("capability_not_ready",
                   \E c \in t.capabilities :
                     CapabilityKnown(w, c) /\ Capability(w, c).status = "planned") = {}
      /\ FindingIf("adapter_capability_not_implemented",
                   \E c \in t.capabilities :
                     CapabilityKnown(w, c) /\ ~ManifestImplements(m, c)) = {}
      /\ UNION {BindingFindings(w, t, m, y) : y \in TargetBindings(w, t)} = {}
  BY <1>2, <1>3 DEF TargetFindings
<1>5. BindingFindings(w, t, m, x) = {}
  BY <1>4
<1>7. /\ FindingIf("missing_canonical_action_mapping", ~CanonicalMapped(w, a)) = {}
      /\ FindingIf("unknown_action_type", ~CatalogEntry(w, "action_type", a.type)) = {}
      /\ FindingIf("binding_capability", ~CapabilityInScope(w, t, b.capability)) = {}
      /\ FindingIf("required_control_missing",
                   (a.sensitive /\ b.events = {}) \/ ~ControlsDeclared(w, x)) = {}
      /\ FindingIf("binding_not_approved", a.sensitive /\ approvalStatus(x) # "approved") = {}
  BY <1>5 DEF BindingFindings
<1>8. /\ CanonicalMapped(w, a) /\ CatalogEntry(w, "action_type", a.type)
      /\ CapabilityInScope(w, t, b.capability) /\ ControlsDeclared(w, x)
      /\ approvalStatus(x) = "approved"
  BY <1>7 DEF FindingIf
<1>9. a.status = "approved" \/ b.status = "approved"
  BY <1>8 DEF approvalStatus
<1>10. a.canonical # Unset /\ CanonicalKnown(w, a.canonical)
  BY <1>8 DEF CanonicalMapped
<1>11. a.type # Unset
  <2>1. PICK e \in w.entries : e.id = a.type
    BY <1>8 DEF CatalogEntry
  <2>2. e.valid
    BY <1>1 DEF RegistryLoads, CatalogsLoad
  <2> QED
    BY <2>1, <2>2 DEF WellRead
<1>12. HasMeaning(w, t, a)
  BY <1>2, <1>10, <1>11 DEF MeaningFindings, FindingIf
<1>13. /\ Capability(w, b.capability).status # "planned"
       /\ ManifestImplements(m, b.capability)
  BY <1>4, <1>8 DEF FindingIf, CapabilityInScope
<1>14. ASSUME t.adapter = "kernloom.adapter.klshield", NEW s \in req.snapshot
       PROVE  Enforced(w, s.configs, x)
  <2>1. (CHOOSE y \in req.snapshot : TRUE) = s /\ s.configs \in Seq(ToSet(s.configs))
    OBVIOUS
  <2>2. ConfigFindings(s.configs, b) = {}
    <3> DEFINE unavailable(c) ==
                 FindingIf("config_snapshot_unavailable",
                           \/ \E p \in req.changed : p.base = t.base /\ p \notin c.paths
                           \/ t.base \notin c.bases
                           \/ t.adapter = "kernloom.adapter.klshield" /\ ~c.readable)
               unions(c) == UNION {ConfigFindings(c.configs, y.binding) :
                                     y \in {z \in TargetBindings(w, t) : z.action.sensitive}}
               inner(c) ==
                 IF t.base \in c.bases /\ t.adapter = "kernloom.adapter.klshield" /\ c.readable
                 THEN unions(c) ELSE {}
    <3>1. req.snapshot # {}
      OBVIOUS
    <3>2. SnapshotFindings(w, req, t) =
            unavailable(CHOOSE y \in req.snapshot : TRUE) \cup inner(CHOOSE y \in req.snapshot : TRUE)
      BY <3>1, Zenon DEF SnapshotFindings
    <3>3. SnapshotFindings(w, req, t) = unavailable(s) \cup inner(s)
      <4> HIDE DEF unavailable, inner
      <4> QED
        BY <2>1, <3>2
    <3>4. unavailable(s) = {} /\ inner(s) = {}
      <4> HIDE DEF unavailable, inner
      <4> QED
        BY <1>2, <3>3
    <3>5. t.base \in s.bases /\ s.readable
      BY <1>14, <3>4 DEF FindingIf
    <3>6. unions(s) = {}
      <4> HIDE DEF unions
      <4> QED
        BY <1>14, <3>4, <3>5
    <3> QED
      BY <3>6
  <2> DEFINE i == ConfigIndex(s.configs, b)
  <2>3. i # 0 /\ b.controls \subseteq s.configs[i].controls
    BY <2>2 DEF ConfigFindings, FindingIf
  <2>4. /\ i \in DOMAIN s.configs /\ s.configs[i].capability = b.capability
        /\ \A k \in DOMAIN b.selector :
             k \in DOMAIN s.configs[i].selector /\ s.configs[i].selector[k] = b.selector[k]
    <3>1. PICK c : c = s.configs
      OBVIOUS
    <3>2. c \in Seq(ToSet(c)) /\ ConfigIndex(c, b) # 0
      BY <2>1, <2>3, <3>1
    <3>3. /\ ConfigIndex(c, b) \in DOMAIN c /\ c[ConfigIndex(c, b)].capability = b.capability
          /\ \A k \in DOMAIN b.selector :
               /\ k \in DOMAIN c[ConfigIndex(c, b)].selector
               /\ c[ConfigIndex(c, b)].selector[k] = b.selector[k]
      BY <3>2, ConfigFound
    <3> QED BY <3>1, <3>3
  <2>5. CanonicalAction(w, a.canonical).controls \subseteq b.controls
    BY <1>8, <1>10 DEF ControlsDeclared
  <2> HIDE DEF i
  <2> QED
    BY <2>3, <2>4, <2>5 DEF Enforced
<1> QED
  BY <1>9, <1>12, <1>13, <1>14

\* The policies of a target that was resolved: a list of indices, never empty.
LEMMA PolicyFilesList ==
  ASSUME NEW w, NEW req, WellRead(w), EarlyFinding(w, req) = Unset
  PROVE  /\ PolicyFiles(w, ResolvedTarget(w, req)) \in Seq(Nat)
         /\ PolicyFiles(w, ResolvedTarget(w, req)) # <<>>
<1> DEFINE t == ResolvedTarget(w, req)
           S == UNION {s.paths : s \in PolicySources(w, t)}
           n == Cardinality(S)
<1>1. BindingsLoad(w) /\ RequestResolves(w, req)
  BY NoEarlyFinding
<1>2. SourcesResolve(w, req, t)
  <2>1. TargetsForRepo(w, req) # {}
    BY <1>1, FS_EmptySet DEF RequestResolves
  <2>2. t \in TargetsForRepo(w, req)
    BY <2>1 DEF ResolvedTarget
  <2> QED
    BY <1>1, <2>2 DEF RequestResolves
<1>3. \A s \in PolicySources(w, t) :
        s \in w.store.sources /\ sourceMatchesScope(w, s, t) /\ s.type = "policy_repo"
  BY DEF PolicySources, SourcesForTarget
<1>4. S \subseteq 1..Len(w.policies) /\ Len(w.policies) \in Nat
  <2>1. \A s \in PolicySources(w, t) : s.paths \subseteq DOMAIN w.policies
    BY <1>2, <1>3 DEF SourcesResolve, SelectInSeq
  <2>2. DOMAIN w.policies = 1..Len(w.policies) /\ Len(w.policies) \in Nat
    BY DEF WellRead
  <2> QED
    BY <2>1, <2>2
<1>5. S \in SUBSET Nat /\ IsFiniteSet(S)
  <2> HIDE DEF S
  <2>1. IsFiniteSet(1..Len(w.policies))
    BY <1>4, FS_Interval
  <2>2. S \in SUBSET (1..Len(w.policies)) /\ S \in SUBSET Nat
    BY <1>4
  <2>3. IsFiniteSet(S)
    BY <2>1, <2>2, FS_Subset, Zenon
  <2> QED
    BY <2>2, <2>3
<1>6. S # {}
  <2>1. "policy_repo" \in {s.type : s \in SourcesForTarget(w, t)}
    BY <1>2 DEF SourcesResolve, SelectInSeq
  <2>2. PICK s \in PolicySources(w, t) : TRUE
    BY <2>1 DEF PolicySources
  <2>3. s.paths # {}
    BY <1>1, <1>3 DEF BindingsLoad, PolicySourceValid
  <2> QED
    BY <2>3
<1>7. n \in Nat /\ n # 0 /\ PolicyFiles(w, t) \in [1..n -> S]
  BY <1>5, <1>6, AscendingLists DEF PolicyFiles
<1> DEFINE F == PolicyFiles(w, t)
<1> HIDE DEF n, S, F
<1>8. F \in [1..n -> S]
  BY <1>7 DEF F
<1>9. F \in [1..n -> Nat]
  BY <1>5, <1>8
<1>10. F \in Seq(Nat) /\ Len(F) = n
  BY <1>7, <1>9
<1>11. F # <<>>
  BY <1>7, <1>10
<1> QED
  BY <1>10, <1>11 DEF F

-----------------------------------------------------------------------------
(* A validation that goes on: which policies of the target are compiled.   *)

\* Run r has a build manifest of policy i, as it was before or after the edit.
Compiled(p, r, i, mf) ==
  \E m \in mf : m.run = r /\ \E e \in BOOLEAN : m.policy = Disk(p, e).policies[i].id

\* The findings are those of the workspace that was read, which had no early one.
FoundAll(p, r, s) ==
  /\ s.checked \in BOOLEAN
  /\ EarlyFinding(Disk(p, s.checked), p.runs[r].request) = Unset
  /\ s.findings = AllFindings(Disk(p, s.checked), p.runs[r].request)

\* The policies of the target in the workspace that was read.
FilesOf(p, r, s) ==
  PolicyFiles(Disk(p, s.checked), ResolvedTarget(Disk(p, s.checked), p.runs[r].request))

\* What is left of them is a suffix of F, and what came before is compiled; the
\* policy at hand is the first of what is left.
Progress(p, r, s, mf, F) ==
  /\ s.files \in Seq(Nat) /\ Len(s.files) <= Len(F)
  /\ \A j \in 1..Len(s.files) : s.files[j] = F[(Len(F) - Len(s.files)) + j]
  /\ \A j \in 1..(Len(F) - Len(s.files)) : Compiled(p, r, F[j], mf)
  /\ s.pc = "done" => s.files = <<>>
  /\ s.pc \in {"load", "next", "plan", "store"} => s.files # <<>>
  /\ s.pc = "next" => \/ s.todo = <<Head(s.files)>>
                      \/ s.todo = <<>> /\ Compiled(p, r, Head(s.files), mf)
  /\ s.pc \in {"plan", "store"} =>
       s.todo = <<>> /\ \E e \in BOOLEAN : s.card = Disk(p, e).policies[Head(s.files)]

\* Of a validation: it has not begun, has returned early, has failed, or goes on.
Validates(p, r, s, mf) ==
  p.runs[r].kind = "ci" =>
    \/ s.pc \in {"validate", "failed"}
    \/ s.pc = "done" /\ s.findings # {}
    \/ /\ s.pc \in {"load", "next", "plan", "store", "done"}
       /\ FoundAll(p, r, s) /\ Progress(p, r, s, mf, FilesOf(p, r, s))

\* The inductive invariant of the validations; it rests on BuildsInv.
ValidationsInv ==
  \A r \in DOMAIN run :
    /\ Validates(project, r, run[r], manifest)
    /\ run[r].pc = "validate" => project.runs[r].kind = "ci"

LEMMA ValidationsInvKept ==
  ASSUME ValidationsInv, NEW r \in DOMAIN run, OthersStay(r), UNCHANGED project,
         manifest \subseteq manifest', run'[r].pc # "validate",
         Validates(project, r, run'[r], manifest')
  PROVE  ValidationsInv'
<1> SUFFICES ASSUME NEW q \in DOMAIN run'
             PROVE  /\ Validates(project, q, run'[q], manifest')
                    /\ run'[q].pc = "validate" => project.runs[q].kind = "ci"
  BY DEF ValidationsInv
<1>1. q \in DOMAIN run
  BY DEF OthersStay
<1>2. CASE q = r
  BY <1>2
<1>3. CASE q # r
  <2>1. /\ run'[q] = run[q] /\ Validates(project, q, run[q], manifest)
        /\ run[q].pc = "validate" => project.runs[q].kind = "ci"
    BY <1>1, <1>3 DEF OthersStay, ValidationsInv
  <2>2. \A i : Compiled(project, q, i, manifest) => Compiled(project, q, i, manifest')
    BY DEF Compiled
  <2>3. \A F : Progress(project, q, run[q], manifest, F) => Progress(project, q, run[q], manifest', F)
    BY <2>2 DEF Progress
  <2>4. Validates(project, q, run[q], manifest')
    BY <2>1, <2>3 DEF Validates
  <2> QED
    BY <2>1, <2>4
<1> QED
  BY <1>2, <1>3

LEMMA ValidationsInvInit == BuildsInit => ValidationsInv
<1> SUFFICES ASSUME BuildsInit, NEW r \in DOMAIN run
             PROVE  /\ Validates(project, r, run[r], manifest)
                    /\ run[r].pc = "validate" => project.runs[r].kind = "ci"
  BY DEF ValidationsInv
<1>1. run[r].pc = IF project.runs[r].kind = "ci" THEN "validate" ELSE "load"
  BY DEF BuildsInit, Runs, RunStart
<1> QED
  BY <1>1 DEF Validates

LEMMA InputsKept ==
  ASSUME NEW p, NEW r, NEW s, NEW t, SameInputs(t, s), FoundAll(p, r, s)
  PROVE  FoundAll(p, r, t) /\ FilesOf(p, r, t) = FilesOf(p, r, s) /\ t.files = s.files
BY DEF SameInputs, FoundAll, FilesOf

\* ValidateCI: all policies of the target are left.
LEMMA ProgressBegins ==
  ASSUME NEW p, NEW r, NEW t, NEW mf, FoundAll(p, r, t), t.files = FilesOf(p, r, t),
         WellRead(Disk(p, t.checked)), t.pc = "load"
  PROVE  Progress(p, r, t, mf, FilesOf(p, r, t))
<1>1. t.files \in Seq(Nat) /\ t.files # <<>>
  BY PolicyFilesList DEF FoundAll, FilesOf
<1>2. Len(t.files) \in Nat
  BY <1>1
<1> QED
  BY <1>1, <1>2 DEF Progress

\* A suffix of F loses its head.
LEMMA SuffixMoves ==
  ASSUME NEW F \in Seq(Nat), NEW g \in Seq(Nat), NEW D, g # <<>>, Len(g) <= Len(F),
         \A j \in 1..Len(g) : g[j] = F[(Len(F) - Len(g)) + j],
         \A j \in 1..(Len(F) - Len(g)) : F[j] \in D, Head(g) \in D
  PROVE  /\ Tail(g) \in Seq(Nat) /\ Len(Tail(g)) <= Len(F)
         /\ \A j \in 1..Len(Tail(g)) : Tail(g)[j] = F[(Len(F) - Len(Tail(g))) + j]
         /\ \A j \in 1..(Len(F) - Len(Tail(g))) : F[j] \in D
<1> DEFINE n == Len(F)
           l == Len(g)
           h == Tail(g)
<1>1. n \in Nat /\ l \in Nat /\ l >= 1 /\ Head(g) = g[1]
  OBVIOUS
<1>2. h \in Seq(Nat) /\ Len(h) = l - 1 /\ \A j \in 1..(l - 1) : h[j] = g[j + 1]
  BY <1>1
<1>3. /\ l <= n /\ \A j \in 1..l : g[j] = F[(n - l) + j]
      /\ \A j \in 1..(n - l) : F[j] \in D
  OBVIOUS
<1> HIDE DEF n, l, h
<1>4. F[(n - l) + 1] \in D
  <2>1. 1 \in 1..l
    BY <1>1
  <2> QED
    BY <1>1, <1>3, <2>1
<1>5. ASSUME NEW j \in 1..(l - 1)
      PROVE  h[j] = F[(n - (l - 1)) + j]
  <2>1. j + 1 \in 1..l /\ (n - l) + (j + 1) = (n - (l - 1)) + j
    BY <1>1
  <2>2. h[j] = g[j + 1] /\ g[j + 1] = F[(n - l) + (j + 1)]
    BY <1>2, <1>3, <2>1
  <2> QED
    BY <2>1, <2>2
<1>6. ASSUME NEW j \in 1..(n - (l - 1))
      PROVE  F[j] \in D
  <2>1. j = (n - l) + 1 \/ j \in 1..(n - l)
    BY <1>1
  <2> QED
    BY <1>3, <1>4, <2>1
<1>7. l - 1 <= n
  BY <1>1, <1>3
<1> QED
  BY <1>2, <1>5, <1>6, <1>7 DEF n, h

\* CompileReturns: the first of what was left is compiled.
LEMMA ProgressMoves ==
  ASSUME NEW p, NEW r, NEW s, NEW t, NEW mf, NEW F, F \in Seq(Nat), Progress(p, r, s, mf, F),
         s.pc = "next", s.todo = <<>>, t.files = Tail(s.files),
         t.pc = IF Tail(s.files) = <<>> THEN "done" ELSE "load"
  PROVE  Progress(p, r, t, mf, F)
<1> DEFINE g == s.files
           D == {i \in Nat : Compiled(p, r, i, mf)}
<1>1. g \in Seq(Nat) /\ Len(g) <= Len(F) /\ \A j \in 1..Len(g) : g[j] = F[(Len(F) - Len(g)) + j]
  BY DEF Progress
<1>2. g # <<>>
  BY DEF Progress
<1>3. Head(g) \in D
  <2>1. s.todo # <<Head(s.files)>>
    OBVIOUS
  <2>2. Compiled(p, r, Head(s.files), mf)
    BY <2>1 DEF Progress
  <2>3. Head(g) \in Nat
    <3> HIDE DEF g
    <3> QED
      BY <1>1, <1>2
  <2> QED
    BY <2>2, <2>3
<1>4. \A j \in 1..(Len(F) - Len(g)) : F[j] \in D
  <2>1. \A j \in 1..(Len(F) - Len(g)) : Compiled(p, r, F[j], mf)
    BY DEF Progress
  <2>2. \A j \in 1..(Len(F) - Len(g)) : F[j] \in Nat
    <3> HIDE DEF g
    <3> QED
      BY <1>1
  <2> QED
    BY <2>1, <2>2
<1> HIDE DEF D, g
<1>5. /\ Tail(g) \in Seq(Nat) /\ Len(Tail(g)) <= Len(F)
      /\ \A j \in 1..Len(Tail(g)) : Tail(g)[j] = F[(Len(F) - Len(Tail(g))) + j]
      /\ \A j \in 1..(Len(F) - Len(Tail(g))) : F[j] \in D
  BY <1>1, <1>2, <1>3, <1>4, SuffixMoves
<1>6. t.files = Tail(g) /\ t.pc = IF Tail(g) = <<>> THEN "done" ELSE "load"
  BY DEF g
<1>7. \A i : i \in D => Compiled(p, r, i, mf)
  BY DEF D
<1> QED
  BY <1>5, <1>6, <1>7 DEF Progress

LEMMA ValidationsInvStep ==
  BuildsInv /\ ValidationsInv /\ [BuildsNext]_buildVars => ValidationsInv'
<1> SUFFICES ASSUME BuildsInv, ValidationsInv, [BuildsNext]_buildVars
             PROVE  ValidationsInv'
  OBVIOUS
<1> Shape
  BY DEF BuildsInv
<1>0. ASSUME NEW r \in DOMAIN run
      PROVE  /\ Validates(project, r, run[r], manifest)
             /\ run[r].pc = "validate" => project.runs[r].kind = "ci"
             /\ Work(project, r, run[r], stored)
             /\ project.runs[r].kind = "ci" => ~project.runs[r].signs
             /\ \A e \in BOOLEAN : WellRead(Disk(project, e))
  BY DEF ValidationsInv, BuildsInv, Shape, RunWellFormed
<1>1. CASE UNCHANGED buildVars
  BY <1>1 DEF buildVars, ValidationsInv
<1>2. CASE Edit
  BY <1>2 DEF Edit, ValidationsInv
<1>3. ASSUME NEW r \in DOMAIN run, OthersStay(r), Fails(run'[r], run[r]),
             UNCHANGED <<project, manifest>>
      PROVE  ValidationsInv'
  <2>1. run'[r].pc = "failed"
    BY <1>3 DEF Fails
  <2>2. Validates(project, r, run'[r], manifest')
    BY <2>1 DEF Validates
  <2> QED
    BY <1>3, <2>1, <2>2, ValidationsInvKept
<1>4. ASSUME NEW r \in DOMAIN run, ValidateCI(r)
      PROVE  ValidationsInv'
  <2> DEFINE t == run'[r]
             req == project.runs[r].request
             w == Disk(project, edited)
  <2>1. UNCHANGED <<project, manifest>>
    BY <1>4 DEF ValidateCI
  <2>2. /\ OthersStay(r)
        /\ \/ t.pc = "done" /\ t.findings = {EarlyFinding(w, req)}
           \/ /\ EarlyFinding(w, req) = Unset
              /\ t.pc = "load" /\ t.checked = edited /\ t.findings = AllFindings(w, req)
              /\ t.files = PolicyFiles(w, ResolvedTarget(w, req))
    BY <1>4, ValidateCIEffect
  <2>3. edited \in BOOLEAN /\ WellRead(w)
    BY <1>0 DEF Shape
  <2> HIDE DEF t
  <2>4. CASE t.pc = "done" /\ t.findings # {}
    <3>1. Validates(project, r, t, manifest')
      BY <2>4 DEF Validates
    <3> QED
      BY <2>1, <2>2, <2>4, <3>1, ValidationsInvKept DEF t
  <2>5. CASE /\ EarlyFinding(w, req) = Unset
             /\ t.pc = "load" /\ t.checked = edited /\ t.findings = AllFindings(w, req)
             /\ t.files = PolicyFiles(w, ResolvedTarget(w, req))
    <3>1. FoundAll(project, r, t) /\ t.files = FilesOf(project, r, t)
      BY <2>3, <2>5 DEF FoundAll, FilesOf
    <3>2. Progress(project, r, t, manifest', FilesOf(project, r, t))
      BY <2>3, <2>5, <3>1, ProgressBegins
    <3>3. Validates(project, r, t, manifest')
      BY <2>5, <3>1, <3>2 DEF Validates
    <3> QED
      BY <2>1, <2>2, <2>5, <3>3, ValidationsInvKept DEF t
  <2> QED
    BY <2>2, <2>4, <2>5
<1>5. ASSUME NEW r \in DOMAIN run, project.runs[r].kind = "ci",
             run[r].pc \in {"load", "next", "plan", "store"}
      PROVE  /\ FoundAll(project, r, run[r])
             /\ Progress(project, r, run[r], manifest, FilesOf(project, r, run[r]))
             /\ FilesOf(project, r, run[r]) \in Seq(Nat)
  <2>1. /\ FoundAll(project, r, run[r])
        /\ Progress(project, r, run[r], manifest, FilesOf(project, r, run[r]))
    BY <1>0, <1>5 DEF Validates
  <2>2. FilesOf(project, r, run[r]) \in Seq(Nat)
    BY <1>0, <2>1, PolicyFilesList DEF FoundAll, FilesOf
  <2> QED
    BY <2>1, <2>2
<1>6. ASSUME NEW r \in DOMAIN run, Load(r)
      PROVE  ValidationsInv'
  <2> DEFINE s == run[r]
             t == run'[r]
  <2>1. UNCHANGED <<project, manifest>> /\ s.pc = "load"
    BY <1>6 DEF Load, RunAt
  <2>2. OthersStay(r)
    BY <1>6, LoadEffect
  <2>3. CASE ~Fails(t, s)
    <3>1. /\ t.pc = "next" /\ SameInputs(t, s)
          /\ t.todo = intentFiles(Disk(project, edited), Head(s.files))
      BY <1>6, <2>3, LoadEffect
    <3>2. ASSUME project.runs[r].kind = "ci"
          PROVE  FoundAll(project, r, t) /\ Progress(project, r, t, manifest', FilesOf(project, r, t))
      <4>1. /\ FoundAll(project, r, s)
            /\ Progress(project, r, s, manifest, FilesOf(project, r, s))
        BY <1>5, <2>1, <3>2
      <4> HIDE DEF s, t
      <4>2. /\ FoundAll(project, r, t) /\ FilesOf(project, r, t) = FilesOf(project, r, s)
            /\ t.files = s.files
        BY <3>1, <4>1, InputsKept
      <4>3. s.files \in Seq(Nat) /\ s.files # <<>>
        BY <2>1, <4>1 DEF Progress
      <4>4. t.todo = <<Head(s.files)>>
        <5>1. Head(s.files) \in Nat
          BY <4>3
        <5> QED
          BY <3>1, <5>1, UnsetAssumption DEF intentFiles
      <4> QED
        BY <2>1, <3>1, <4>1, <4>2, <4>3, <4>4 DEF Progress
    <3>3. Validates(project, r, t, manifest')
      BY <3>1, <3>2 DEF Validates
    <3> QED
      BY <2>1, <2>2, <3>1, <3>3, ValidationsInvKept
  <2> QED
    BY <1>3, <2>1, <2>2, <2>3
<1>7. ASSUME NEW r \in DOMAIN run, NextPolicy(r)
      PROVE  ValidationsInv'
  <2> DEFINE s == run[r]
             t == run'[r]
  <2>1. UNCHANGED <<project, manifest>> /\ s.pc = "next" /\ s.todo # <<>>
    BY <1>7 DEF NextPolicy, RunAt
  <2>2. OthersStay(r)
    BY <1>7, NextPolicyEffect
  <2>3. CASE ~Fails(t, s)
    <3>1. /\ t.pc = "store" /\ SameInputs(t, s) /\ t.todo = Tail(s.todo)
          /\ t.card = Disk(project, edited).policies[Head(s.todo)]
      BY <1>7, <2>3, NextPolicyEffect
    <3>2. ASSUME project.runs[r].kind = "ci"
          PROVE  FoundAll(project, r, t) /\ Progress(project, r, t, manifest', FilesOf(project, r, t))
      <4>1. /\ FoundAll(project, r, s)
            /\ Progress(project, r, s, manifest, FilesOf(project, r, s))
        BY <1>5, <2>1, <3>2
      <4> HIDE DEF s, t
      <4>2. /\ FoundAll(project, r, t) /\ FilesOf(project, r, t) = FilesOf(project, r, s)
            /\ t.files = s.files
        BY <3>1, <4>1, InputsKept
      <4>3. s.files # <<>> /\ s.todo = <<Head(s.files)>>
        BY <2>1, <4>1 DEF Progress
      <4>4. Tail(s.todo) = <<>> /\ Head(s.todo) = Head(s.files)
        BY <4>3
      <4>5. t.todo = <<>> /\ \E e \in BOOLEAN : t.card = Disk(project, e).policies[Head(t.files)]
        BY <3>1, <4>2, <4>4 DEF Shape
      <4> QED
        BY <2>1, <3>1, <4>1, <4>2, <4>3, <4>5 DEF Progress
    <3>3. Validates(project, r, t, manifest')
      BY <3>1, <3>2 DEF Validates
    <3> QED
      BY <2>1, <2>2, <3>1, <3>3, ValidationsInvKept
  <2> QED
    BY <1>3, <2>1, <2>2, <2>3
<1>8. ASSUME NEW r \in DOMAIN run, CompileReturns(r)
      PROVE  ValidationsInv'
  <2> DEFINE s == run[r]
             t == run'[r]
  <2>1. UNCHANGED <<project, manifest>> /\ s.pc = "next" /\ s.todo = <<>>
    BY <1>8 DEF CompileReturns, RunAt
  <2>2. /\ OthersStay(r) /\ t.files = Tail(s.files)
        /\ t.pc = IF Tail(s.files) = <<>> THEN "done" ELSE "load"
        /\ t.checked = s.checked /\ t.findings = s.findings
    BY <1>8, CompileReturnsEffect
  <2>3. ASSUME project.runs[r].kind = "ci"
        PROVE  FoundAll(project, r, t) /\ Progress(project, r, t, manifest', FilesOf(project, r, t))
    <3>1. /\ FoundAll(project, r, s)
          /\ Progress(project, r, s, manifest, FilesOf(project, r, s))
          /\ FilesOf(project, r, s) \in Seq(Nat)
      BY <1>5, <2>1, <2>3
    <3> HIDE DEF s, t
    <3>2. FoundAll(project, r, t) /\ FilesOf(project, r, t) = FilesOf(project, r, s)
      BY <2>2, <3>1 DEF FoundAll, FilesOf
    <3>3. Progress(project, r, t, manifest, FilesOf(project, r, s))
      BY <2>1, <2>2, <3>1, ProgressMoves
    <3> QED
      BY <2>1, <3>2, <3>3
  <2>4. Validates(project, r, t, manifest')
    BY <2>2, <2>3 DEF Validates
  <2> QED
    BY <2>1, <2>2, <2>4, ValidationsInvKept
<1>9. ASSUME NEW r \in DOMAIN run, PlanBundle(r)
      PROVE  ValidationsInv'
  <2> DEFINE s == run[r]
             t == run'[r]
  <2>1. UNCHANGED <<project, manifest>> /\ s.pc = "plan"
    BY <1>9 DEF PlanBundle, RunAt
  <2>2. OthersStay(r)
    BY <1>9, PlanBundleEffect
  <2>3. CASE ~Fails(t, s)
    <3>1. /\ t.pc = "store" /\ SameInputs(t, s) /\ t.todo = s.todo /\ t.card = s.card
      BY <1>9, <2>3, PlanBundleEffect DEF SameBuild, SameCall
    <3>2. ASSUME project.runs[r].kind = "ci"
          PROVE  FoundAll(project, r, t) /\ Progress(project, r, t, manifest', FilesOf(project, r, t))
      <4>1. /\ FoundAll(project, r, s)
            /\ Progress(project, r, s, manifest, FilesOf(project, r, s))
        BY <1>5, <2>1, <3>2
      <4> HIDE DEF s, t
      <4>2. /\ FoundAll(project, r, t) /\ FilesOf(project, r, t) = FilesOf(project, r, s)
            /\ t.files = s.files
        BY <3>1, <4>1, InputsKept
      <4> QED
        BY <2>1, <3>1, <4>1, <4>2 DEF Progress
    <3>3. Validates(project, r, t, manifest')
      BY <3>1, <3>2 DEF Validates
    <3> QED
      BY <2>1, <2>2, <3>1, <3>3, ValidationsInvKept
  <2> QED
    BY <1>3, <2>1, <2>2, <2>3
<1>10. ASSUME NEW r \in DOMAIN run, StoreArtifact(r)
       PROVE  ValidationsInv'
  <2> DEFINE s == run[r]
             t == run'[r]
  <2>1. UNCHANGED project /\ s.pc = "store"
    BY <1>10 DEF StoreArtifact, RunAt
  <2>2. /\ OthersStay(r)
        /\ manifest' = IF Head(s.pending)[1] = "policy_build_manifest"
                       THEN manifest \cup {BuiltBy(project, r, s)} ELSE manifest
        /\ \/ project.runs[r].signs /\ t.pc = "sign"
           \/ ~project.runs[r].signs /\ Emits(t, s, RefsWith(r, s))
    BY <1>10, StoreArtifactEffect
  <2>3. Work(project, r, s, stored) /\ (project.runs[r].kind = "ci" => ~project.runs[r].signs)
    BY <1>0
  <2>4. ASSUME project.runs[r].kind = "ci"
        PROVE  /\ FoundAll(project, r, t) /\ Progress(project, r, t, manifest', FilesOf(project, r, t))
               /\ t.pc \in {"store", "plan", "next"}
    <3>1. /\ FoundAll(project, r, s)
          /\ Progress(project, r, s, manifest, FilesOf(project, r, s))
      BY <1>5, <2>1, <2>4
    <3> HIDE DEF s, t
    <3>2. Emits(t, s, RefsWith(r, s))
      BY <2>2, <2>3, <2>4
    <3>3. SameInputs(t, s) /\ t.todo = s.todo /\ t.card = s.card /\ t.pc \in {"store", "plan", "next"}
      BY <3>2 DEF Emits, SameBuild, SameCall
    <3>4. /\ FoundAll(project, r, t) /\ FilesOf(project, r, t) = FilesOf(project, r, s)
          /\ t.files = s.files
      BY <3>1, <3>3, InputsKept
    <3>5. \A i : Compiled(project, r, i, manifest) => Compiled(project, r, i, manifest')
      BY <2>2 DEF Compiled
    <3>6. ASSUME t.pc = "next"
          PROVE  Compiled(project, r, Head(s.files), manifest')
      <4>1. Tail(s.pending) = <<>> /\ Head(s.pending)[1] # "resolved_policy"
        BY <3>2, <3>6 DEF Emits
      <4>2. s.pending # <<ResolvedPair>>
        BY <4>1 DEF ResolvedPair
      <4>3. Planned(project, r, s)
        BY <2>1, <2>3, <4>2 DEF Work
      <4>4. Head(s.pending)[1] = "policy_build_manifest"
        BY <4>1, <4>3, QueueHead DEF Planned
      <4>5. BuiltBy(project, r, s) \in manifest'
        BY <2>2, <4>4
      <4>6. BuiltBy(project, r, s).run = r /\ BuiltBy(project, r, s).policy = s.card.id
        BY DEF BuiltBy
      <4>7. \E e \in BOOLEAN : s.card = Disk(project, e).policies[Head(s.files)]
        BY <2>1, <3>1 DEF Progress
      <4> QED
        BY <4>5, <4>6, <4>7 DEF Compiled
    <3>7. Progress(project, r, t, manifest', FilesOf(project, r, s))
      BY <2>1, <3>1, <3>3, <3>4, <3>5, <3>6 DEF Progress
    <3> QED
      BY <3>3, <3>4, <3>7
  <2>5. Validates(project, r, t, manifest')
    BY <2>4 DEF Validates
  <2>6. t.pc # "validate" /\ manifest \subseteq manifest'
    BY <2>2 DEF Emits
  <2> QED
    BY <2>1, <2>2, <2>5, <2>6, ValidationsInvKept
<1>11. ASSUME NEW r \in DOMAIN run, OthersStay(r), run[r].pc \in {"sign", "seal"},
              run'[r].pc # "validate", UNCHANGED <<project, manifest>>
       PROVE  ValidationsInv'
  <2>1. project.runs[r].kind # "ci"
    BY <1>0, <1>11 DEF Work
  <2>2. Validates(project, r, run'[r], manifest')
    BY <2>1 DEF Validates
  <2> QED
    BY <1>11, <2>2, ValidationsInvKept
<1>12. ASSUME NEW r \in DOMAIN run, SignArtifact(r)
       PROVE  ValidationsInv'
  BY <1>11, <1>12, SignArtifactEffect DEF SignArtifact, RunAt
<1>13. ASSUME NEW r \in DOMAIN run, StoreEnvelope(r)
       PROVE  ValidationsInv'
  BY <1>11, <1>13, StoreEnvelopeEffect DEF StoreEnvelope, RunAt, Emits
<1>14. ASSUME NEW r \in DOMAIN run, CompileDies(r)
       PROVE  ValidationsInv'
  BY <1>3, <1>14, FailsEffect DEF CompileDies
<1> QED
  BY <1>1, <1>2, <1>4, <1>6, <1>7, <1>8, <1>9, <1>10, <1>12, <1>13, <1>14 DEF BuildsNext, CompileStep

\* A validation that passed: every sensitive action bound to the target is
\* approved, has a policy and is enforced, and each policy of the target was
\* compiled to the end, for every workspace, edit and number of concurrent runs.
THEOREM PassedIsEnforced == BuildsSpec => []PassedMeansEnforced
<1>1. BuildsInv /\ ValidationsInv => PassedMeansEnforced
  <2> DEFINE Approved(v, u, x) ==
               /\ x.action.status = "approved" \/ x.binding.status = "approved"
               /\ HasMeaning(v, u, x.action)
               /\ Capability(v, x.binding.capability).status # "planned"
               /\ ManifestImplements(ManifestOf(v, u.adapter), x.binding.capability)
             Sensitive(v, u) == {y \in TargetBindings(v, u) : y.action.sensitive}
             Sure(v, q, u) ==
               \A x \in Sensitive(v, u) :
                 /\ Approved(v, u, x)
                 /\ u.adapter = "kernloom.adapter.klshield" =>
                      \A c \in q.snapshot : Enforced(v, c.configs, x)
             Built(r, v, u) ==
               \A i \in DOMAIN PolicyFiles(v, u) :
                 \E m \in manifest :
                   /\ m.run = r
                   /\ \E e \in BOOLEAN :
                        m.policy = Workspace(e).policies[PolicyFiles(v, u)[i]].id
             Good(r, v, q) == Sure(v, q, ResolvedTarget(v, q)) /\ Built(r, v, ResolvedTarget(v, q))
  <2> SUFFICES ASSUME BuildsInv, ValidationsInv, NEW r \in DOMAIN run, Passed(r)
               PROVE  Good(r, Workspace(run[r].checked), Runs[r].request)
    BY ZenonT(40) DEF PassedMeansEnforced
  <2> DEFINE s == run[r]
             w == Disk(project, s.checked)
             req == project.runs[r].request
             t == ResolvedTarget(w, req)
  <2>1. project.runs[r].kind = "ci" /\ s.pc = "done" /\ s.findings = {}
    BY DEF Passed, Runs, RunAt
  <2>2. FoundAll(project, r, s) /\ Progress(project, r, s, manifest, FilesOf(project, r, s))
    BY <2>1 DEF ValidationsInv, Validates
  <2>3. EarlyFinding(w, req) = Unset /\ AllFindings(w, req) = {} /\ WellRead(w)
    BY <2>1, <2>2 DEF FoundAll, BuildsInv, Shape
  <2>4. \A y, z \in req.snapshot : y = z /\ y.configs \in Seq(ToSet(y.configs))
    BY DEF BuildsInv, Shape, RunWellFormed
  <2>5. Runs[r].request = req /\ \A e : Workspace(e) = Disk(project, e)
    BY DEF Runs, Workspace, Disk
  <2>6. ASSUME NEW i \in DOMAIN PolicyFiles(w, t)
        PROVE  Compiled(project, r, PolicyFiles(w, t)[i], manifest)
    <3> DEFINE F == PolicyFiles(w, t)
    <3>1. F = FilesOf(project, r, s)
      BY DEF FilesOf
    <3>2. F \in Seq(Nat)
      BY <2>3, PolicyFilesList
    <3> HIDE DEF F
    <3>3. Len(s.files) = 0 /\ \A j \in 1..(Len(F) - Len(s.files)) : Compiled(project, r, F[j], manifest)
      BY <2>1, <2>2, <3>1 DEF Progress
    <3>4. i \in 1..(Len(F) - Len(s.files))
      BY <3>2, <3>3 DEF F
    <3> QED
      BY <3>3, <3>4 DEF F
  <2>7. Sure(w, req, t)
    BY <2>3, <2>4, NothingFound
  <2>8. Built(r, w, t)
    BY <2>5, <2>6 DEF Compiled
  <2>9. Good(r, w, req)
    BY <2>7, <2>8
  <2>10. Workspace(run[r].checked) = w
    BY <2>5
  <2> HIDE DEF s, w, req, Good
  <2> QED
    BY <2>5, <2>9, <2>10
<1>2. BuildsSpec => []ValidationsInv
  BY BuildsInvariance, ValidationsInvInit, ValidationsInvStep, PTL DEF BuildsSpec
<1> QED
  BY <1>1, <1>2, BuildsInvariance, PTL
=============================================================================
