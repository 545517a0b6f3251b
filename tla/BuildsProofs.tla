---------------------------- MODULE BuildsProofs ----------------------------
(***************************************************************************)
(* Proofs about PolicyCompiler and CIValidation: what an action of a run   *)
(* does, what a build manifest names and what a node takes of it, for any  *)
(* projects.  SignedFilesProofs and CIValidationProofs go on from here.    *)
(*                                                                         *)
(* The inductive invariants are predicates of a project p, a run r, its    *)
(* progress s = run[r], and of what has been stored; they say what the     *)
(* progress records about the past.                                        *)
(***************************************************************************)
EXTENDS CIValidation, FiniteSetTheorems, TLAPS

-----------------------------------------------------------------------------
(* Operators of the library and of the registry.                           *)

\* A set of natural numbers has a least member.
LEMMA MinIsMember ==
  ASSUME NEW I \in SUBSET Nat, I # {}
  PROVE  Min(I) \in I
<1> DEFINE R == OpToRel(<, Nat)
<1>1. ASSUME NEW x \in Nat, NEW y \in Nat, y < x
      PROVE  <<y, x>> \in R
  <2>1. <<y, x>> \in Nat \X Nat /\ <<y, x>>[1] = y /\ <<y, x>>[2] = x
    OBVIOUS
  <2> QED
    BY <2>1, <1>1 DEF OpToRel
<1>2. IsWellFoundedOn(R, Nat)
  BY NatLessThanWellFounded
<1> HIDE DEF R
<1>3. PICK x \in I : \A y \in I : ~(<<y, x>> \in R)
  BY <1>2, WFMin
<1>4. ASSUME NEW y \in I
      PROVE  x <= y
  <2>1. ~(y < x)
    BY <1>1, <1>3
  <2> QED
    BY <2>1
<1> QED
  BY <1>4 DEF Min

\* AdapterBinding finds a binding of the capability, if it finds one at all.
LEMMA BindingFound ==
  ASSUME NEW w, NEW capability, NEW stage, w.bindings \in Seq(ToSet(w.bindings)),
         BindingIndex(w, capability, stage) # 0
  PROVE  BindingIndex(w, capability, stage) \in DOMAIN w.bindings
<1> DEFINE I == {i \in 1..Len(w.bindings) :
                   /\ w.bindings[i].capability = capability
                   /\ w.bindings[i].status \in {Unset, "implemented"}
                   /\ w.bindings[i].stages = {} \/ stage \in w.bindings[i].stages}
<1>1. BindingIndex(w, capability, stage) = IF I # {} THEN Min(I) ELSE 0
  BY DEF BindingIndex, SelectInSeq
<1>2. I \in SUBSET Nat /\ I \subseteq DOMAIN w.bindings
  OBVIOUS
<1> HIDE DEF I
<1> QED
  BY <1>1, <1>2, MinIsMember

\* The image of a finite set is finite.
LEMMA FiniteImage ==
  ASSUME NEW S, IsFiniteSet(S), NEW f, f = [x \in S |-> f[x]]
  PROVE  IsFiniteSet({f[x] : x \in S})
<1> DEFINE T == {f[x] : x \in S}
<1>1. f \in Surjection(S, T)
  BY DEF Surjection
<1> HIDE DEF T
<1>2. IsFiniteSet(T)
  BY <1>1, FS_Surjection
<1> QED
  BY <1>2 DEF T

\* SetToSeq lists the members of a finite set.
LEMMA SetToSeqLists ==
  ASSUME NEW S, IsFiniteSet(S)
  PROVE  /\ SetToSeq(S) \in [1..Cardinality(S) -> S]
         /\ Cardinality(S) \in Nat
         /\ \A x \in S : \E i \in 1..Cardinality(S) : SetToSeq(S)[i] = x
<1> DEFINE n == Cardinality(S)
<1>1. n \in Nat /\ ExistsBijection(1..n, S)
  BY FS_CardinalityType
<1>2. PICK g : g \in Bijection(1..n, S)
  BY <1>1 DEF ExistsBijection
<1>3. g \in [1..n -> S] /\ IsInjective(g)
  BY <1>2 DEF Bijection, Injection
<1>4. SetToSeq(S) \in [1..n -> S] /\ IsInjective(SetToSeq(S))
  BY <1>3 DEF SetToSeq
<1>5. SetToSeq(S) \in Injection(1..n, S)
  BY <1>4 DEF Injection
<1>6. IsFiniteSet(1..n) /\ Cardinality(1..n) = n
  BY <1>1, FS_Interval
<1>7. SetToSeq(S) \in Surjection(1..n, S)
  BY <1>5, <1>6, FS_Injection
<1> QED
  BY <1>1, <1>4, <1>7 DEF Surjection

-----------------------------------------------------------------------------
(* The artifacts of a build.                                               *)

ManifestPair == <<"policy_build_manifest", Unset>>

AdapterPairs(bundle) == {<<"adapter_manifest", a>> : a \in UsedAdapters(bundle)}

\* What the build of a bundle emits after the resolved policy.
Emittable(bundle) ==
  {<<"runtime_bundle", Unset>>, <<"context_route_pack", Unset>>,
   <<"conformance_expectation", Unset>>, ManifestPair} \cup AdapterPairs(bundle)

\* A rest of Emissions(bundle): the build manifest comes last, and only there.
Queue(bundle, q) ==
  /\ q \in Seq(Emittable(bundle))
  /\ q # <<>>
  /\ \A i \in 1..Len(q) : q[i][1] = "policy_build_manifest" <=> i = Len(q)

Queued(q, n) == \E i \in 1..Len(q) : q[i] = n

\* compileOne emits all of them, and the build manifest last.
LEMMA EmissionsQueue ==
  ASSUME NEW bundle, IsFiniteSet(UsedAdapters(bundle))
  PROVE  /\ Queue(bundle, Emissions(bundle))
         /\ \A n \in Emittable(bundle) : Queued(Emissions(bundle), n)
<1> DEFINE S == AdapterPairs(bundle)
           k == Cardinality(S)
           q == SetToSeq(S)
           x == <<"runtime_bundle", Unset>>
           u == <<"context_route_pack", Unset>>
           v == <<"conformance_expectation", Unset>>
           z == ManifestPair
           e == Emissions(bundle)
           E == Emittable(bundle)
<1>1. IsFiniteSet(S)
  <2> DEFINE f == [a \in UsedAdapters(bundle) |-> <<"adapter_manifest", a>>]
  <2>1. IsFiniteSet({f[a] : a \in UsedAdapters(bundle)})
    BY FiniteImage
  <2>2. S = {f[a] : a \in UsedAdapters(bundle)}
    BY DEF AdapterPairs
  <2> QED
    BY <2>1, <2>2
<1>2. k \in Nat /\ q \in [1..k -> S] /\ \A n \in S : \E i \in 1..k : q[i] = n
  BY <1>1, SetToSeqLists
<1>3. e = <<x>> \o q \o <<u, v, z>>
  BY DEF Emissions, AdapterPairs, ManifestPair
<1>4. E = {x, u, v, z} \cup S
  BY DEF Emittable
<1>5. /\ x[1] # "policy_build_manifest" /\ u[1] # "policy_build_manifest"
      /\ v[1] # "policy_build_manifest" /\ z[1] = "policy_build_manifest"
      /\ \A n \in S : n[1] # "policy_build_manifest"
  BY DEF AdapterPairs, ManifestPair
<1> HIDE DEF S, k, q, x, u, v, z, e, E
<1>6. q \in Seq(E) /\ Len(q) = k
  BY <1>2, <1>4
<1>7. <<x>> \in Seq(E) /\ <<u, v, z>> \in Seq(E)
  BY <1>4
<1>8. e \in Seq(E) /\ Len(e) = k + 4
  BY <1>2, <1>3, <1>6, <1>7
<1>9. \A i \in 1..(k + 4) :
        e[i] = IF i = 1 THEN x ELSE IF i <= k + 1 THEN q[i - 1]
               ELSE IF i = k + 2 THEN u ELSE IF i = k + 3 THEN v ELSE z
  BY <1>2, <1>3, <1>6, <1>7
<1>10. \A i \in 1..Len(e) : e[i][1] = "policy_build_manifest" <=> i = Len(e)
  <2> SUFFICES ASSUME NEW i \in 1..(k + 4)
               PROVE  e[i][1] = "policy_build_manifest" <=> i = k + 4
    BY <1>8
  <2>1. i # 1 /\ i <= k + 1 => q[i - 1] \in S
    BY <1>2
  <2> QED
    BY <1>2, <1>5, <1>9, <2>1
<1>11. ASSUME NEW n \in E
       PROVE  \E i \in 1..(k + 4) : e[i] = n
  <2>1. CASE n \in S
    <3>1. PICK i \in 1..k : q[i] = n
      BY <1>2, <2>1
    <3>2. i + 1 \in 1..(k + 4) /\ i + 1 # 1 /\ i + 1 <= k + 1 /\ (i + 1) - 1 = i
      BY <1>2
    <3>3. e[i + 1] = q[i]
      BY <1>9, <3>2
    <3> QED
      BY <3>1, <3>2, <3>3
  <2>2. CASE n \in {x, u, v, z}
    <3>1. e[1] = x /\ e[k + 2] = u /\ e[k + 3] = v /\ e[k + 4] = z
      BY <1>2, <1>9
    <3>2. {1, k + 2, k + 3, k + 4} \subseteq 1..(k + 4)
      BY <1>2
    <3> QED
      BY <2>2, <3>1, <3>2
  <2> QED
    BY <1>4, <2>1, <2>2
<1>12. e # <<>>
  BY <1>2, <1>8
<1> QED
  BY <1>8, <1>10, <1>11, <1>12 DEF Queue, Queued, e, E

LEMMA EmptyIsShort ==
  ASSUME NEW E, NEW t \in Seq(E)
  PROVE  t = <<>> <=> Len(t) = 0
OBVIOUS

\* Taking the head of the queue.
LEMMA QueueHead ==
  ASSUME NEW bundle, NEW q, Queue(bundle, q)
  PROVE  /\ Head(q) \in Emittable(bundle)
         /\ Tail(q) = <<>> <=> Head(q)[1] = "policy_build_manifest"
         /\ Tail(q) # <<>> => Queue(bundle, Tail(q))
         /\ \A n : Queued(q, n) => n = Head(q) \/ Queued(Tail(q), n)
<1> DEFINE E == Emittable(bundle)
<1>1. q \in Seq(E) /\ q # <<>> /\ \A i \in 1..Len(q) : q[i][1] = "policy_build_manifest" <=> i = Len(q)
  BY DEF Queue
<1> HIDE DEF E
<1>2. /\ Len(q) \in Nat /\ Len(q) >= 1 /\ Head(q) = q[1] /\ Head(q) \in E
      /\ Tail(q) \in Seq(E) /\ Len(Tail(q)) = Len(q) - 1
      /\ \A i \in 1..(Len(q) - 1) : Tail(q)[i] = q[i + 1]
  BY <1>1
<1>3. Tail(q) = <<>> <=> Len(q) = 1
  <2>1. Tail(q) = <<>> <=> Len(Tail(q)) = 0
    BY <1>2, EmptyIsShort, Zenon
  <2>2. Len(Tail(q)) = 0 <=> Len(q) = 1
    BY <1>2
  <2> QED
    BY <2>1, <2>2, Zenon
<1>4. Tail(q) = <<>> <=> Head(q)[1] = "policy_build_manifest"
  <2>1. 1 \in 1..Len(q)
    BY <1>2
  <2>2. q[1][1] = "policy_build_manifest" <=> 1 = Len(q)
    BY <1>1, <2>1, Zenon
  <2>3. Head(q)[1] = q[1][1]
    BY <1>2, Zenon
  <2> QED
    BY <1>3, <2>2, <2>3, Zenon
<1>5. ASSUME NEW i \in 1..Len(Tail(q))
      PROVE  Tail(q)[i][1] = "policy_build_manifest" <=> i = Len(Tail(q))
  <2>1. i + 1 \in 1..Len(q) /\ i \in 1..(Len(q) - 1) /\ (i + 1 = Len(q) <=> i = Len(Tail(q)))
    BY <1>2
  <2> QED
    BY <1>1, <1>2, <2>1, Zenon
<1>6. ASSUME NEW n, NEW i \in 1..Len(q), q[i] = n, n # Head(q)
      PROVE  \E j \in 1..Len(Tail(q)) : Tail(q)[j] = n
  <2>1. i # 1 /\ i - 1 \in 1..(Len(q) - 1) /\ (i - 1) + 1 = i
    BY <1>2, <1>6
  <2>2. Tail(q)[i - 1] = q[i]
    BY <1>2, <2>1
  <2> QED
    BY <1>2, <1>6, <2>1, <2>2
<1> QED
  BY <1>2, <1>4, <1>5, <1>6 DEF Queue, Queued, E

\* A bundle has finitely many adapters, as the policy names finitely many actions.
LEMMA FiniteAdapters ==
  ASSUME NEW w, NEW card, IsFiniteSet(card.actions)
  PROVE  IsFiniteSet(UsedAdapters(Bundle(w, card)))
<1> DEFINE f == [a \in card.actions |-> Resolve(w, a, {"runtime_action"}).id]
           A == RuntimeActionsOf(w, card)
           g == [a \in A |-> Grant(w, card, a)]
           G == {Grant(w, card, a) : a \in A}
           h == [x \in G |-> x.adapter]
<1>1. IsFiniteSet(A)
  <2>1. IsFiniteSet({f[a] : a \in card.actions})
    BY FiniteImage
  <2> QED
    BY <2>1 DEF RuntimeActionsOf
<1>2. IsFiniteSet(G)
  <2> HIDE DEF A
  <2>1. IsFiniteSet({g[a] : a \in A})
    BY <1>1, FiniteImage
  <2> QED
    BY <2>1
<1>3. IsFiniteSet({h[x] : x \in G})
  <2> HIDE DEF G
  <2> QED
    BY <1>2, FiniteImage
<1>4. UsedAdapters(Bundle(w, card)) = {h[x] : x \in G}
  BY DEF UsedAdapters, Bundle
<1> QED
  BY <1>3, <1>4

-----------------------------------------------------------------------------
(* The steps of a run, field by field.                                     *)

Fields == {"pc", "files", "loaded", "todo", "card", "pending", "refs", "checked", "findings"}

\* The workspaces of a project.
Disk(p, e) == IF e THEN p.after ELSE p.before

\* The runs of a project, and what ProjectsAssumption says of it.
Shape ==
  /\ run = [r \in DOMAIN run |-> run[r]]
  /\ DOMAIN run = DOMAIN project.runs
  /\ edited \in BOOLEAN
  /\ \A r \in DOMAIN run :
       /\ DOMAIN run[r] = Fields
       /\ RunWellFormed(project.runs[r])
       /\ \A e \in BOOLEAN : WellRead(Disk(project, e))

\* The other runs stay where they are.
OthersStay(r) ==
  /\ run' = [q \in DOMAIN run |-> run'[q]]
  /\ \A q \in DOMAIN run : q # r => run'[q] = run[q]
  /\ DOMAIN run'[r] = Fields

LEMMA RunToEffect ==
  ASSUME Shape, NEW r \in DOMAIN run
  PROVE  \A pc, fields : RunTo(r, pc, fields) =>
           /\ OthersStay(r)
           /\ run'[r].pc = pc
           /\ run'[r].files = IF "files" \in DOMAIN fields THEN fields.files ELSE run[r].files
           /\ run'[r].loaded = IF "loaded" \in DOMAIN fields THEN fields.loaded ELSE run[r].loaded
           /\ run'[r].todo = IF "todo" \in DOMAIN fields THEN fields.todo ELSE run[r].todo
           /\ run'[r].card = IF "card" \in DOMAIN fields THEN fields.card ELSE run[r].card
           /\ run'[r].pending = IF "pending" \in DOMAIN fields THEN fields.pending ELSE run[r].pending
           /\ run'[r].refs = IF "refs" \in DOMAIN fields THEN fields.refs ELSE run[r].refs
           /\ run'[r].checked = IF "checked" \in DOMAIN fields THEN fields.checked ELSE run[r].checked
           /\ run'[r].findings = IF "findings" \in DOMAIN fields THEN fields.findings ELSE run[r].findings
<1> SUFFICES ASSUME NEW pc, NEW fields, RunTo(r, pc, fields)
             PROVE  /\ OthersStay(r)
                    /\ run'[r].pc = pc
                    /\ run'[r].files = IF "files" \in DOMAIN fields THEN fields.files ELSE run[r].files
                    /\ run'[r].loaded = IF "loaded" \in DOMAIN fields THEN fields.loaded ELSE run[r].loaded
                    /\ run'[r].todo = IF "todo" \in DOMAIN fields THEN fields.todo ELSE run[r].todo
                    /\ run'[r].card = IF "card" \in DOMAIN fields THEN fields.card ELSE run[r].card
                    /\ run'[r].pending = IF "pending" \in DOMAIN fields THEN fields.pending ELSE run[r].pending
                    /\ run'[r].refs = IF "refs" \in DOMAIN fields THEN fields.refs ELSE run[r].refs
                    /\ run'[r].checked = IF "checked" \in DOMAIN fields THEN fields.checked ELSE run[r].checked
                    /\ run'[r].findings = IF "findings" \in DOMAIN fields THEN fields.findings ELSE run[r].findings
  OBVIOUS
<1> DEFINE t == [f \in Fields |-> IF f = "pc" THEN pc
                                  ELSE IF f \in DOMAIN fields THEN fields[f] ELSE run[r][f]]
<1>1. run' = [run EXCEPT ![r] = t]
  BY DEF RunTo, Shape
<1>2. /\ DOMAIN t = Fields
      /\ t.pc = pc
      /\ t.files = IF "files" \in DOMAIN fields THEN fields.files ELSE run[r].files
      /\ t.loaded = IF "loaded" \in DOMAIN fields THEN fields.loaded ELSE run[r].loaded
      /\ t.todo = IF "todo" \in DOMAIN fields THEN fields.todo ELSE run[r].todo
      /\ t.card = IF "card" \in DOMAIN fields THEN fields.card ELSE run[r].card
      /\ t.pending = IF "pending" \in DOMAIN fields THEN fields.pending ELSE run[r].pending
      /\ t.refs = IF "refs" \in DOMAIN fields THEN fields.refs ELSE run[r].refs
      /\ t.checked = IF "checked" \in DOMAIN fields THEN fields.checked ELSE run[r].checked
      /\ t.findings = IF "findings" \in DOMAIN fields THEN fields.findings ELSE run[r].findings
  BY DEF Fields
<1> HIDE DEF t
<1>3. /\ run' = [q \in DOMAIN run |-> run'[q]]
      /\ \A q \in DOMAIN run : q # r => run'[q] = run[q]
      /\ run'[r] = t
  BY <1>1 DEF Shape
<1> QED
  BY <1>2, <1>3 DEF OthersStay

\* What stays as it is in the course of a validation, of a call of Compile, and
\* of the build of a policy.
SameInputs(t, s) == t.files = s.files /\ t.checked = s.checked /\ t.findings = s.findings

SameCall(t, s) == SameInputs(t, s) /\ t.loaded = s.loaded /\ t.todo = s.todo

SameBuild(t, s) == SameCall(t, s) /\ t.card = s.card

Fails(t, s) == t.pc = "failed" /\ SameBuild(t, s) /\ t.pending = s.pending /\ t.refs = s.refs

\* The artifact at the head of the queue is complete.
Emits(t, s, refs) ==
  /\ SameBuild(t, s)
  /\ t.pending = Tail(s.pending)
  /\ t.refs = refs
  /\ t.pc = IF Tail(s.pending) # <<>> THEN "store"
            ELSE IF Head(s.pending)[1] = "resolved_policy" THEN "plan" ELSE "next"

LEMMA FailsEffect ==
  ASSUME Shape, NEW r \in DOMAIN run, RunFails(r)
  PROVE  OthersStay(r) /\ Fails(run'[r], run[r])
<1>1. RunTo(r, "failed", <<>>)
  BY DEF RunFails
<1>2. DOMAIN <<>> = {}
  OBVIOUS
<1> QED
  BY <1>1, <1>2, RunToEffect DEF Fails, SameBuild, SameCall, SameInputs

LEMMA LoadEffect ==
  ASSUME Shape, NEW r \in DOMAIN run, Load(r)
  PROVE  /\ OthersStay(r)
         /\ \/ Fails(run'[r], run[r])
            \/ /\ run'[r].pc = "next"
               /\ SameInputs(run'[r], run[r]) /\ run'[r].refs = run[r].refs
               /\ run'[r].loaded = edited
               /\ run'[r].todo = intentFiles(Disk(project, edited), Head(run[r].files))
<1> DEFINE w == Workspace(edited)
           good == RegistryLoads(w) /\ CatalogCELValid(w) /\ ManifestsLoad(w) /\ ManifestsValid(w)
           fields == [loaded |-> edited, todo |-> intentFiles(w, Head(run[r].files))]
<1>1. IF good THEN RunTo(r, "next", fields) ELSE RunFails(r)
  BY DEF Load
<1>2. w = Disk(project, edited)
  BY DEF Workspace, Disk
<1>3. CASE RunFails(r)
  BY <1>3, FailsEffect
<1>4. CASE RunTo(r, "next", fields)
  <2>1. /\ DOMAIN fields = {"loaded", "todo"} /\ fields.loaded = edited
        /\ fields.todo = intentFiles(Disk(project, edited), Head(run[r].files))
    BY <1>2
  <2> HIDE DEF fields
  <2> QED
    BY <1>4, <2>1, RunToEffect DEF SameInputs
<1> QED
  BY <1>1, <1>3, <1>4

LEMMA NextPolicyEffect ==
  ASSUME Shape, NEW r \in DOMAIN run, NextPolicy(r)
  PROVE  /\ OthersStay(r)
         /\ \/ Fails(run'[r], run[r])
            \/ /\ run'[r].pc = "store"
               /\ SameInputs(run'[r], run[r]) /\ run'[r].loaded = run[r].loaded
               /\ run'[r].todo = Tail(run[r].todo)
               /\ Head(run[r].todo) \in DOMAIN Disk(project, edited).policies
               /\ run'[r].card = Disk(project, edited).policies[Head(run[r].todo)]
               /\ run'[r].pending = <<<<"resolved_policy", Unset>>>>
               /\ run'[r].refs = {}
               /\ PolicyResolves(Disk(project, run[r].loaded), run'[r].card)
<1> DEFINE i == Head(run[r].todo)
           policies == Workspace(edited).policies
           good == i \in DOMAIN policies /\ PolicyResolves(Workspace(run[r].loaded), policies[i])
           fields == [todo |-> Tail(run[r].todo), card |-> policies[i],
                      pending |-> <<<<"resolved_policy", Unset>>>>, refs |-> {}]
<1>1. IF good THEN RunTo(r, "store", fields) ELSE RunFails(r)
  BY DEF NextPolicy
<1>2. \A e : Workspace(e) = Disk(project, e)
  BY DEF Workspace, Disk
<1>3. CASE RunFails(r)
  BY <1>3, FailsEffect
<1>4. CASE good /\ RunTo(r, "store", fields)
  <2>1. /\ DOMAIN fields = {"todo", "card", "pending", "refs"}
        /\ fields.todo = Tail(run[r].todo) /\ fields.card = policies[i]
        /\ fields.pending = <<<<"resolved_policy", Unset>>>> /\ fields.refs = {}
    OBVIOUS
  <2>2. /\ OthersStay(r) /\ run'[r].pc = "store"
        /\ SameInputs(run'[r], run[r]) /\ run'[r].loaded = run[r].loaded
        /\ run'[r].todo = fields.todo /\ run'[r].card = fields.card
        /\ run'[r].pending = fields.pending /\ run'[r].refs = fields.refs
    <3>1. /\ "todo" \in DOMAIN fields /\ "card" \in DOMAIN fields
          /\ "pending" \in DOMAIN fields /\ "refs" \in DOMAIN fields
          /\ "files" \notin DOMAIN fields /\ "loaded" \notin DOMAIN fields
          /\ "checked" \notin DOMAIN fields /\ "findings" \notin DOMAIN fields
      BY <2>1
    <3> HIDE DEF fields, good
    <3> QED
      BY <1>4, <3>1, RunToEffect DEF SameInputs
  <2> QED
    BY <1>2, <1>4, <2>1, <2>2
<1> QED
  BY <1>1, <1>3, <1>4

LEMMA CompileReturnsEffect ==
  ASSUME Shape, NEW r \in DOMAIN run, CompileReturns(r)
  PROVE  /\ OthersStay(r)
         /\ run'[r].pc = IF Tail(run[r].files) = <<>> THEN "done" ELSE "load"
         /\ run'[r].files = Tail(run[r].files)
         /\ run'[r].checked = run[r].checked /\ run'[r].findings = run[r].findings
         /\ run'[r].refs = run[r].refs
<1> DEFINE fields == [files |-> Tail(run[r].files)]
           pc == IF Tail(run[r].files) = <<>> THEN "done" ELSE "load"
<1>1. RunTo(r, pc, fields)
  BY DEF CompileReturns
<1>2. DOMAIN fields = {"files"} /\ fields.files = Tail(run[r].files)
  OBVIOUS
<1>3. /\ OthersStay(r) /\ run'[r].pc = pc
      /\ run'[r].files = Tail(run[r].files)
      /\ run'[r].checked = run[r].checked /\ run'[r].findings = run[r].findings
      /\ run'[r].refs = run[r].refs
  <2> HIDE DEF fields, pc
  <2> QED
    BY <1>1, <1>2, RunToEffect
<1> QED
  BY <1>3

LEMMA PlanBundleEffect ==
  ASSUME Shape, NEW r \in DOMAIN run, PlanBundle(r)
  PROVE  /\ OthersStay(r)
         /\ \/ Fails(run'[r], run[r])
            \/ /\ run'[r].pc = "store"
               /\ SameBuild(run'[r], run[r]) /\ run'[r].refs = run[r].refs
               /\ run'[r].pending = Emissions(Bundle(Disk(project, run[r].loaded), run[r].card))
               /\ \A a \in RuntimeActionsOf(Disk(project, run[r].loaded), run[r].card) :
                    Grantable(Disk(project, run[r].loaded), run[r].card, a)
<1> DEFINE w == Workspace(run[r].loaded)
           card == run[r].card
           good == \A a \in RuntimeActionsOf(w, card) : Grantable(w, card, a)
           fields == [pending |-> Emissions(Bundle(w, card))]
<1>1. IF good THEN RunTo(r, "store", fields) ELSE RunFails(r)
  BY DEF PlanBundle
<1>2. w = Disk(project, run[r].loaded)
  BY DEF Workspace, Disk
<1>3. CASE RunFails(r)
  BY <1>3, FailsEffect
<1>4. CASE good /\ RunTo(r, "store", fields)
  <2>1. DOMAIN fields = {"pending"} /\ fields.pending = Emissions(Bundle(w, card))
    OBVIOUS
  <2> HIDE DEF fields
  <2>2. /\ OthersStay(r) /\ run'[r].pc = "store"
        /\ SameBuild(run'[r], run[r]) /\ run'[r].refs = run[r].refs
        /\ run'[r].pending = Emissions(Bundle(w, card))
    BY <1>4, <2>1, RunToEffect DEF SameBuild, SameCall, SameInputs
  <2> QED
    BY <1>2, <1>4, <2>2
<1> QED
  BY <1>1, <1>3, <1>4

LEMMA EmittedEffect ==
  ASSUME Shape, NEW r \in DOMAIN run
  PROVE  \A refs : Emitted(r, refs) => OthersStay(r) /\ Emits(run'[r], run[r], refs)
<1> SUFFICES ASSUME NEW refs, Emitted(r, refs)
             PROVE  OthersStay(r) /\ Emits(run'[r], run[r], refs)
  OBVIOUS
<1> DEFINE rest == Tail(run[r].pending)
           pc == IF rest # <<>> THEN "store"
                 ELSE IF Head(run[r].pending)[1] = "resolved_policy" THEN "plan" ELSE "next"
           fields == [pending |-> rest, refs |-> refs]
<1>1. RunTo(r, pc, fields)
  BY DEF Emitted
<1>2. DOMAIN fields = {"pending", "refs"} /\ fields.pending = rest /\ fields.refs = refs
  OBVIOUS
<1>3. /\ OthersStay(r) /\ SameBuild(run'[r], run[r]) /\ run'[r].pc = pc
      /\ run'[r].pending = rest /\ run'[r].refs = refs
  <2> HIDE DEF fields, pc, rest
  <2> QED
    BY <1>1, <1>2, RunToEffect DEF SameBuild, SameCall, SameInputs
<1> QED
  BY <1>3 DEF Emits

\* The artifact at the head of the queue of run r.
Art(r, s, signed) ==
  [run |-> r, policy |-> s.card.id, type |-> Head(s.pending)[1],
   adapter |-> Head(s.pending)[2], signed |-> signed]

\* The build manifest of run r.
BuiltBy(p, r, s) ==
  [run |-> r, policy |-> s.card.id, signs |-> p.runs[r].signs, refs |-> s.refs,
   bundle |-> Bundle(Disk(p, s.loaded), s.card), routes |-> RoutePack(s.card),
   conformance |-> Conformance(s.card)]

\* What the build manifest names once the unsigned artifact is stored.
RefsWith(r, s) ==
  s.refs \cup (IF Head(s.pending)[2] = Unset THEN {Art(r, s, FALSE)} ELSE {})

LEMMA StoreArtifactEffect ==
  ASSUME Shape, NEW r \in DOMAIN run, StoreArtifact(r)
  PROVE  /\ OthersStay(r)
         /\ stored' = stored \cup {Art(r, run[r], FALSE)}
         /\ manifest' = IF Head(run[r].pending)[1] = "policy_build_manifest"
                        THEN manifest \cup {BuiltBy(project, r, run[r])} ELSE manifest
         /\ \/ /\ project.runs[r].signs
               /\ run'[r].pc = "sign" /\ SameBuild(run'[r], run[r])
               /\ run'[r].pending = run[r].pending /\ run'[r].refs = RefsWith(r, run[r])
            \/ ~project.runs[r].signs /\ Emits(run'[r], run[r], RefsWith(r, run[r]))
<1> DEFINE a == Artifact(r, FALSE)
           refs == run[r].refs \cup (IF a.adapter = Unset THEN {a} ELSE {})
           fields == [refs |-> refs]
<1>1. /\ stored' = stored \cup {a}
      /\ manifest' = IF a.type = "policy_build_manifest"
                     THEN manifest \cup {BuildManifest(r)} ELSE manifest
      /\ IF Runs[r].signs THEN RunTo(r, "sign", fields) ELSE Emitted(r, refs)
  BY DEF StoreArtifact
<1>2. /\ a = Art(r, run[r], FALSE)
      /\ a.adapter = Head(run[r].pending)[2] /\ a.type = Head(run[r].pending)[1]
  BY DEF Artifact, Art
<1>3. BuildManifest(r) = BuiltBy(project, r, run[r])
  BY DEF BuildManifest, BuiltBy, Runs, Workspace, Disk
<1>4. refs = RefsWith(r, run[r])
  BY <1>2 DEF RefsWith
<1>5. fields.refs = refs /\ DOMAIN fields = {"refs"}
  OBVIOUS
<1> HIDE DEF a, refs, fields
<1>6. CASE project.runs[r].signs
  <2>1. RunTo(r, "sign", fields)
    BY <1>1, <1>6 DEF Runs
  <2>2. /\ OthersStay(r) /\ run'[r].pc = "sign" /\ SameBuild(run'[r], run[r])
        /\ run'[r].pending = run[r].pending /\ run'[r].refs = refs
    BY <2>1, <1>5, RunToEffect DEF SameBuild, SameCall, SameInputs
  <2> QED
    BY <1>1, <1>2, <1>3, <1>4, <1>6, <2>2
<1>7. CASE ~project.runs[r].signs
  <2>1. Emitted(r, refs)
    BY <1>1, <1>7 DEF Runs
  <2>2. OthersStay(r) /\ Emits(run'[r], run[r], refs)
    BY <2>1, EmittedEffect
  <2> QED
    BY <1>1, <1>2, <1>3, <1>4, <1>7, <2>2
<1> QED
  BY <1>6, <1>7

LEMMA SignArtifactEffect ==
  ASSUME Shape, NEW r \in DOMAIN run, SignArtifact(r)
  PROVE  /\ OthersStay(r)
         /\ run'[r].pc = "seal" /\ SameBuild(run'[r], run[r])
         /\ run'[r].pending = run[r].pending /\ run'[r].refs = run[r].refs
         /\ signedFile' = [f \in DOMAIN signedFile \cup {SignedPath(Art(r, run[r], TRUE))} |->
                             IF f = SignedPath(Art(r, run[r], TRUE)) THEN Art(r, run[r], TRUE)
                             ELSE signedFile[f]]
<1>1. RunTo(r, "seal", <<>>) /\ DOMAIN <<>> = {}
  BY DEF SignArtifact
<1>2. Artifact(r, TRUE) = Art(r, run[r], TRUE)
  BY DEF Artifact, Art
<1>3. /\ OthersStay(r) /\ run'[r].pc = "seal" /\ SameBuild(run'[r], run[r])
      /\ run'[r].pending = run[r].pending /\ run'[r].refs = run[r].refs
  BY <1>1, RunToEffect DEF SameBuild, SameCall, SameInputs
<1> QED
  BY <1>2, <1>3 DEF SignArtifact

LEMMA StoreEnvelopeEffect ==
  ASSUME Shape, NEW r \in DOMAIN run, StoreEnvelope(r)
  PROVE  /\ OthersStay(r)
         /\ stored' = stored \cup {Art(r, run[r], TRUE)}
         /\ Emits(run'[r], run[r], run[r].refs \cup {Art(r, run[r], TRUE)})
<1>1. Artifact(r, TRUE) = Art(r, run[r], TRUE)
  BY DEF Artifact, Art
<1>2. Emitted(r, run[r].refs \cup {Art(r, run[r], TRUE)}) /\ stored' = stored \cup {Art(r, run[r], TRUE)}
  BY <1>1 DEF StoreEnvelope
<1> QED
  BY <1>2, EmittedEffect

\* What ValidateCI finds in a workspace that has no early finding.
AllFindings(w, req) ==
  LET t == ResolvedTarget(w, req)
  IN  CanonicalFindings(w) \cup TargetFindings(w, t) \cup MeaningFindings(w, t)
        \cup RuntimeFindings(w, req, t) \cup SnapshotFindings(w, req, t)

LEMMA ValidateCIEffect ==
  ASSUME Shape, NEW r \in DOMAIN run, ValidateCI(r),
         NEW req, req = project.runs[r].request,
         NEW w, w = Disk(project, edited)
  PROVE  /\ OthersStay(r)
         /\ run'[r].refs = run[r].refs
         /\ \/ /\ EarlyFinding(w, req) # Unset
               /\ run'[r].pc = "done" /\ run'[r].findings = {EarlyFinding(w, req)}
            \/ /\ EarlyFinding(w, req) = Unset
               /\ run'[r].pc = "load" /\ run'[r].checked = edited
               /\ run'[r].findings = AllFindings(w, req)
               /\ run'[r].files = PolicyFiles(w, ResolvedTarget(w, req))
<1> DEFINE early == EarlyFinding(w, req)
           t == ResolvedTarget(w, req)
           found == [findings |-> {early}]
           all == CanonicalFindings(w) \cup TargetFindings(w, t) \cup MeaningFindings(w, t)
                    \cup RuntimeFindings(w, req, t) \cup SnapshotFindings(w, req, t)
           fields == [findings |-> all, checked |-> edited, files |-> PolicyFiles(w, t)]
<1>1. w = Workspace(edited) /\ req = Runs[r].request
  BY DEF Workspace, Disk, Runs
<1>2. IF early # Unset THEN RunTo(r, "done", found) ELSE RunTo(r, "load", fields)
  BY <1>1 DEF ValidateCI
<1>3. all = AllFindings(w, req)
  BY DEF AllFindings
<1>4. /\ DOMAIN found = {"findings"} /\ found.findings = {early}
      /\ DOMAIN fields = {"findings", "checked", "files"} /\ fields.findings = all
      /\ fields.checked = edited /\ fields.files = PolicyFiles(w, t)
  OBVIOUS
<1> HIDE DEF found, fields, all, early
<1>5. CASE early # Unset /\ RunTo(r, "done", found)
  <2>1. /\ OthersStay(r) /\ run'[r].refs = run[r].refs /\ run'[r].pc = "done"
        /\ run'[r].findings = {early}
    BY <1>4, <1>5, RunToEffect
  <2> QED
    BY <1>5, <2>1 DEF early
<1>6. CASE early = Unset /\ RunTo(r, "load", fields)
  <2>1. /\ OthersStay(r) /\ run'[r].refs = run[r].refs /\ run'[r].pc = "load"
        /\ run'[r].findings = all /\ run'[r].checked = edited /\ run'[r].files = PolicyFiles(w, t)
    BY <1>4, <1>6, RunToEffect
  <2> QED
    BY <1>3, <1>6, <2>1 DEF early
<1> QED
  BY <1>2, <1>5, <1>6

-----------------------------------------------------------------------------
(* The build of a policy: what is not queued any more is in the refs.      *)

ResolvedPair == <<"resolved_policy", Unset>>

\* The artifact that the build manifest names for n.
Final(p, r, s, n) ==
  [run |-> r, policy |-> s.card.id, type |-> n[1], adapter |-> n[2],
   signed |-> p.runs[r].signs]

\* What the build manifest has to name.
Needed(signs, bundle) ==
  {<<t, Unset>> : t \in {"resolved_policy", "runtime_bundle", "context_route_pack",
                         "conformance_expectation"}}
  \cup (IF signs THEN AdapterPairs(bundle) ELSE {})

CurrentBundle(p, s) == Bundle(Disk(p, s.loaded), s.card)

\* The policy at hand was read from the workspace, before or after the edit, and
\* resolves in the catalog that was loaded.
CardRead(p, s) ==
  /\ s.loaded \in BOOLEAN
  /\ \E e \in BOOLEAN : \E i \in DOMAIN Disk(p, e).policies : s.card = Disk(p, e).policies[i]
  /\ PolicyResolves(Disk(p, s.loaded), s.card)

\* The bundle is planned, and its artifacts are being emitted.
Planned(p, r, s) ==
  /\ \A a \in RuntimeActionsOf(Disk(p, s.loaded), s.card) :
       Grantable(Disk(p, s.loaded), s.card, a)
  /\ Queue(CurrentBundle(p, s), s.pending)
  /\ \A n \in Needed(p.runs[r].signs, CurrentBundle(p, s)) :
       Queued(s.pending, n) \/ Final(p, r, s, n) \in s.refs

Work(p, r, s, st) ==
  /\ s.refs \subseteq st
  /\ s.pc = "next" => s.loaded \in BOOLEAN
  /\ s.pc \in {"plan", "store", "sign", "seal"} => CardRead(p, s)
  /\ s.pc \in {"sign", "seal"} => p.runs[r].signs
  /\ s.pc = "plan" => Final(p, r, s, ResolvedPair) \in s.refs
  /\ s.pc \in {"store", "sign", "seal"} => s.pending = <<ResolvedPair>> \/ Planned(p, r, s)

\* A larger store, and a step that keeps what the progress of a build rests on.
LEMMA WorkKept ==
  ASSUME NEW p, NEW r, NEW s, NEW t, NEW st, NEW st2, Work(p, r, s, st), st \subseteq st2,
         SameBuild(t, s), t.pending = s.pending, s.refs \subseteq t.refs, t.refs \subseteq st2,
         s.pc \in {"store", "sign", "seal"}, t.pc \in {"sign", "seal"}, p.runs[r].signs
  PROVE  Work(p, r, t, st2)
<1>1. CardRead(p, t)
  BY DEF Work, CardRead, SameBuild, SameCall
<1>2. t.pending = <<ResolvedPair>> \/ Planned(p, r, t)
  BY DEF Work, Planned, CurrentBundle, Final, SameBuild, SameCall
<1> QED
  BY <1>1, <1>2 DEF Work

LEMMA WorkEmits ==
  ASSUME NEW p, NEW r, NEW s, NEW t, NEW st, NEW st2, NEW refs,
         Work(p, r, s, st), s.pc \in {"store", "seal"},
         Emits(t, s, refs), s.refs \subseteq refs, refs \subseteq st2,
         p.runs[r].signs \/ Head(s.pending)[2] = Unset =>
           Final(p, r, s, Head(s.pending)) \in refs
  PROVE  Work(p, r, t, st2)
<1>1. /\ t.loaded = s.loaded /\ t.card = s.card /\ t.refs = refs /\ t.pending = Tail(s.pending)
      /\ t.pc = IF Tail(s.pending) # <<>> THEN "store"
                ELSE IF Head(s.pending)[1] = "resolved_policy" THEN "plan" ELSE "next"
  BY DEF Emits, SameBuild, SameCall
<1>2. CardRead(p, s) /\ (s.pending = <<ResolvedPair>> \/ Planned(p, r, s))
  BY DEF Work
<1>3. CardRead(p, t) /\ CurrentBundle(p, t) = CurrentBundle(p, s)
  BY <1>1, <1>2 DEF CardRead, CurrentBundle
<1>4. \A n : Final(p, r, t, n) = Final(p, r, s, n)
  BY <1>1 DEF Final
<1>5. CASE s.pending = <<ResolvedPair>>
  <2>1. Tail(s.pending) = <<>> /\ Head(s.pending) = ResolvedPair
    BY <1>5
  <2>2. ResolvedPair[1] = "resolved_policy" /\ ResolvedPair[2] = Unset
    BY DEF ResolvedPair
  <2>3. t.pc = "plan"
    BY <1>1, <2>1, <2>2
  <2>4. Final(p, r, t, ResolvedPair) \in t.refs
    BY <1>1, <1>4, <2>1, <2>2
  <2> QED
    BY <1>1, <1>3, <2>3, <2>4 DEF Work
<1>6. CASE Planned(p, r, s) /\ Tail(s.pending) = <<>>
  <2>1. Head(s.pending)[1] = "policy_build_manifest"
    BY <1>6, QueueHead DEF Planned
  <2>2. t.pc = "next"
    BY <1>1, <1>6, <2>1
  <2> QED
    BY <1>1, <1>2, <2>2 DEF Work, CardRead
<1>7. CASE Planned(p, r, s) /\ Tail(s.pending) # <<>>
  <2> DEFINE B == CurrentBundle(p, s)
  <2>1. t.pc = "store"
    BY <1>1, <1>7
  <2>2. /\ Queue(B, t.pending)
        /\ \A n : Queued(s.pending, n) => n = Head(s.pending) \/ Queued(t.pending, n)
    BY <1>1, <1>7, QueueHead DEF Planned
  <2>3. ASSUME NEW n \in Needed(p.runs[r].signs, B)
        PROVE  Queued(t.pending, n) \/ Final(p, r, t, n) \in t.refs
    <3>1. p.runs[r].signs \/ n[2] = Unset
      BY DEF Needed
    <3>2. Queued(s.pending, n) \/ Final(p, r, s, n) \in s.refs
      BY <1>7 DEF Planned
    <3> QED
      BY <1>1, <1>4, <2>2, <3>1, <3>2
  <2>4. Planned(p, r, t)
    BY <1>1, <1>3, <1>7, <2>2, <2>3 DEF Planned
  <2> QED
    BY <1>1, <1>3, <2>1, <2>4 DEF Work
<1> QED
  BY <1>2, <1>5, <1>6, <1>7

LEMMA CurrentFinite ==
  ASSUME NEW p, NEW s, CardRead(p, s), \A e \in BOOLEAN : WellRead(Disk(p, e))
  PROVE  IsFiniteSet(UsedAdapters(CurrentBundle(p, s)))
<1>1. PICK e \in BOOLEAN : \E i \in DOMAIN Disk(p, e).policies : s.card = Disk(p, e).policies[i]
  BY DEF CardRead
<1>2. s.card \in ToSet(Disk(p, e).policies) /\ WellRead(Disk(p, e))
  BY <1>1 DEF ToSet
<1>3. IsFiniteSet(s.card.actions)
  BY <1>2 DEF WellRead
<1> QED
  BY <1>3, FiniteAdapters DEF CurrentBundle

\* ManifestIsComplete, for one manifest.
Complete(m, st) ==
  /\ m.refs \subseteq st
  /\ \A n \in Needed(m.signs, m.bundle) :
       [run |-> m.run, policy |-> m.policy, type |-> n[1], adapter |-> n[2],
        signed |-> m.signs] \in m.refs

\* NodeTakesBuilds, for one manifest and the card and the workspace it was made
\* from, and for one manifest of a project.
TakenFrom(m, w, card) ==
  /\ card.id = m.policy
  /\ m.bundle.actions = RuntimeActionsOf(w, card)
  /\ \A a \in m.bundle.actions :
       \E g \in m.bundle.grants :
         /\ g.action = a
         /\ \A h \in m.bundle.grants : h.action = a => h = g
         /\ NodeAccepts(m.bundle, g) <=>
              card.allowed /\ IsDuration(RuntimeValue(w, card, "maxTTL"))

Taken(p, m) ==
  /\ NodeActivates(m)
  /\ \E read, loaded \in BOOLEAN :
       \E card \in ToSet(Disk(p, read).policies) : TakenFrom(m, Disk(p, loaded), card)

\* When the build manifest is at the head of the queue, the bundle is planned and
\* nothing else is queued.
LEMMA ManifestIsLast ==
  ASSUME NEW p, NEW r, NEW s, NEW st, Work(p, r, s, st), s.pc \in {"store", "sign", "seal"},
         Head(s.pending)[1] = "policy_build_manifest"
  PROVE  /\ CardRead(p, s) /\ Planned(p, r, s)
         /\ \A n \in Needed(p.runs[r].signs, CurrentBundle(p, s)) : Final(p, r, s, n) \in s.refs
<1>1. CardRead(p, s) /\ (s.pending = <<ResolvedPair>> \/ Planned(p, r, s))
  BY DEF Work
<1>2. s.pending # <<ResolvedPair>>
  <2>1. ResolvedPair[1] # "policy_build_manifest" /\ Head(<<ResolvedPair>>) = ResolvedPair
    BY DEF ResolvedPair
  <2> QED
    BY <2>1
<1>3. Planned(p, r, s)
  BY <1>1, <1>2
<1>4. /\ Tail(s.pending) = <<>>
      /\ \A n : Queued(s.pending, n) => n = Head(s.pending) \/ Queued(Tail(s.pending), n)
  BY <1>3, QueueHead DEF Planned
<1>5. ASSUME NEW n \in Needed(p.runs[r].signs, CurrentBundle(p, s))
      PROVE  ~Queued(s.pending, n)
  <2>1. n[1] # "policy_build_manifest"
    BY DEF Needed, AdapterPairs
  <2>2. ~Queued(<<>>, n)
    BY DEF Queued
  <2> QED
    BY <1>4, <2>1, <2>2
<1> QED
  BY <1>1, <1>3, <1>5 DEF Planned

\* The build manifest is complete when it is made ...
LEMMA BuiltIsComplete ==
  ASSUME NEW p, NEW r, NEW s, NEW st, Work(p, r, s, st), s.pc = "store",
         Head(s.pending)[1] = "policy_build_manifest"
  PROVE  Complete(BuiltBy(p, r, s), st)
<1> DEFINE m == BuiltBy(p, r, s)
<1>1. /\ m.run = r /\ m.policy = s.card.id /\ m.signs = p.runs[r].signs /\ m.refs = s.refs
      /\ m.bundle = CurrentBundle(p, s)
  BY DEF BuiltBy, CurrentBundle
<1> HIDE DEF m
<1>2. \A n \in Needed(p.runs[r].signs, CurrentBundle(p, s)) : Final(p, r, s, n) \in s.refs
  BY ManifestIsLast
<1>3. s.refs \subseteq st
  BY DEF Work
<1>4. \A n : Final(p, r, s, n) = [run |-> m.run, policy |-> m.policy, type |-> n[1],
                                   adapter |-> n[2], signed |-> m.signs]
  BY <1>1 DEF Final
<1>5. Complete(m, st)
  BY <1>1, <1>2, <1>3, <1>4 DEF Complete
<1> QED
  BY <1>5 DEF m

\* A grant has the id of a binding that the registry loaded.
LEMMA GrantHasBinding ==
  ASSUME NEW w, NEW card, NEW a, WellRead(w), Grantable(w, card, a)
  PROVE  Grant(w, card, a).binding # Unset
<1> DEFINE C == RuntimeActionRule(w, a).capabilities
           c == CHOOSE id \in C : TRUE
           i == BindingIndex(w, c, card.stage)
           b == w.bindings[i]
<1>1. c \in C
  <2>1. Cardinality(C) = 1
    BY DEF Grantable
  <2>2. C # {}
    BY <2>1, FS_EmptySet
  <2> QED
    BY <2>2
<1>2. i # 0
  BY <1>1 DEF Grantable
<1>3. i \in DOMAIN w.bindings
  BY <1>2, BindingFound DEF WellRead
<1>4. b \in ToSet(w.bindings)
  BY <1>3 DEF ToSet
<1>5. "id" \in DOMAIN b /\ MadeID(b) # Unset
  BY <1>4 DEF WellRead
<1>6. LoadBinding(b).id # Unset
  <2> HIDE DEF b
  <2> QED
    BY <1>5 DEF LoadBinding
<1>7. Grant(w, card, a).binding = LoadBinding(b).id
  BY DEF Grant, AdapterBinding
<1> QED
  BY <1>6, <1>7

\* What runtimeAuthorityBundleArtifact, contextRoutePackArtifact and
\* conformanceExpectationArtifact copy from the card.
LEMMA ArtifactFields ==
  ASSUME NEW w, NEW card
  PROVE  /\ Bundle(w, card).policy = card.id
         /\ Bundle(w, card).runtimeAllowed = card.allowed
         /\ Bundle(w, card).actions = RuntimeActionsOf(w, card)
         /\ Bundle(w, card).grants = {Grant(w, card, a) : a \in RuntimeActionsOf(w, card)}
         /\ Bundle(w, card).maxTTL = RuntimeValue(w, card, "maxTTL")
         /\ Bundle(w, card).maxScope = RuntimeValue(w, card, "maxScope")
         /\ RoutePack(card).policy = card.id
         /\ RoutePack(card).target = card.target /\ RoutePack(card).stage = card.stage
         /\ RoutePack(card).routes =
              {[name |-> x.name, consumers |-> {card.target, "forge-simulation"}] :
                 x \in card.rules}
         /\ Conformance(card).policy = card.id
         /\ Conformance(card).target = card.target /\ Conformance(card).stage = card.stage
         /\ Conformance(card).expectations = {x.name : x \in card.rules}
<1>1. /\ Bundle(w, card).policy = card.id
      /\ Bundle(w, card).runtimeAllowed = card.allowed
      /\ Bundle(w, card).actions = RuntimeActionsOf(w, card)
      /\ Bundle(w, card).grants = {Grant(w, card, a) : a \in RuntimeActionsOf(w, card)}
      /\ Bundle(w, card).maxTTL = RuntimeValue(w, card, "maxTTL")
      /\ Bundle(w, card).maxScope = RuntimeValue(w, card, "maxScope")
  BY DEF Bundle
<1>2. /\ RoutePack(card).policy = card.id
      /\ RoutePack(card).target = card.target /\ RoutePack(card).stage = card.stage
      /\ RoutePack(card).routes =
           {[name |-> x.name, consumers |-> {card.target, "forge-simulation"}] :
              x \in card.rules}
  BY DEF RoutePack
<1>3. /\ Conformance(card).policy = card.id
      /\ Conformance(card).target = card.target /\ Conformance(card).stage = card.stage
      /\ Conformance(card).expectations = {x.name : x \in card.rules}
  BY DEF Conformance
<1> QED BY <1>1, <1>2, <1>3

\* ... and the node takes it.
LEMMA BuiltIsTaken ==
  ASSUME NEW p, NEW r, NEW s, CardRead(p, s), Planned(p, r, s),
         \A e \in BOOLEAN : WellRead(Disk(p, e))
  PROVE  Taken(p, BuiltBy(p, r, s))
<1> DEFINE m == BuiltBy(p, r, s)
           w == Disk(p, s.loaded)
           card == s.card
<1>1. m.bundle = Bundle(w, card) /\ m.routes = RoutePack(card) /\ m.conformance = Conformance(card)
  BY DEF BuiltBy
<1>f. /\ m.policy = card.id /\ m.bundle.policy = card.id
      /\ m.bundle.runtimeAllowed = card.allowed
      /\ m.bundle.actions = RuntimeActionsOf(w, card)
      /\ m.bundle.grants = {Grant(w, card, a) : a \in RuntimeActionsOf(w, card)}
      /\ m.bundle.maxTTL = RuntimeValue(w, card, "maxTTL")
      /\ m.bundle.maxScope = RuntimeValue(w, card, "maxScope")
      /\ m.routes.policy = card.id
      /\ m.routes.target = card.target /\ m.routes.stage = card.stage
      /\ m.routes.routes =
           {[name |-> x.name, consumers |-> {card.target, "forge-simulation"}] :
              x \in card.rules}
      /\ m.conformance.policy = card.id
      /\ m.conformance.target = card.target /\ m.conformance.stage = card.stage
      /\ m.conformance.expectations = {x.name : x \in card.rules}
  <2>1. m.policy = card.id
    BY DEF BuiltBy
  <2> HIDE DEF m, w, card
  <2> QED BY <1>1, <2>1, ArtifactFields
<1>2. WellRead(w) /\ PolicyResolves(w, card)
  BY DEF CardRead
<1>e. PICK e \in BOOLEAN : card \in ToSet(Disk(p, e).policies)
  <2>1. PICK e \in BOOLEAN : \E i \in DOMAIN Disk(p, e).policies : card = Disk(p, e).policies[i]
    BY DEF CardRead
  <2> QED
    BY <2>1 DEF ToSet
<1>3. /\ \A x \in card.rules : x.name # Unset
      /\ card.allowed \in BOOLEAN
      /\ card.valid => Unset \notin {card.id, card.target, card.stage}
  BY <1>e DEF WellRead
<1>4. card.valid /\ card.rules # {}
  BY <1>2 DEF PolicyResolves
<1> HIDE DEF m
<1>5. NodeActivates(m)
  <2>1. m.bundle.policy = card.id
    BY <1>f
  <2>2. /\ m.routes.target = card.target /\ m.routes.stage = card.stage
        /\ m.routes.routes # {} /\ \A x \in m.routes.routes : x.name # Unset
    <3> DEFINE Route(x) == [name |-> x.name, consumers |-> {card.target, "forge-simulation"}]
               R == {Route(x) : x \in card.rules}
    <3>1. m.routes.target = card.target /\ m.routes.stage = card.stage /\ m.routes.routes = R
      BY <1>f
    <3>2. R # {} /\ \A y \in R : \E x \in card.rules : y = Route(x)
      BY <1>4
    <3>3. \A x : Route(x).name = x.name
      OBVIOUS
    <3> HIDE DEF Route, R
    <3> QED
      BY <1>3, <3>1, <3>2, <3>3
  <2>3. m.conformance.expectations # {}
    <3>1. PICK x \in card.rules : TRUE
      BY <1>4
    <3>2. x.name \in {y.name : y \in card.rules}
      OBVIOUS
    <3> QED BY <1>f, <3>2
  <2>4. validateContextRoutePackArtifact(m.routes)
    BY <1>3, <1>4, <1>f, <2>2 DEF validateContextRoutePackArtifact
  <2>5. validateConformanceExpectationArtifact(m.conformance)
    BY <1>3, <1>4, <1>f, <2>3 DEF validateConformanceExpectationArtifact
  <2>6. validateRuntimeBundleArtifact(m.bundle)
    BY <1>3, <1>4, <2>1 DEF validateRuntimeBundleArtifact
  <2> QED
    BY <2>4, <2>5, <2>6 DEF NodeActivates
<1>6. PICK B, ttl, scope :
        /\ B = m.bundle
        /\ ttl = RuntimeValue(w, card, "maxTTL") /\ scope = RuntimeValue(w, card, "maxScope")
  OBVIOUS
<1>7. ASSUME NEW a
      PROVE  /\ Grant(w, card, a).action = a /\ Grant(w, card, a).id[4] = a
             /\ Grant(w, card, a).scopes = {scope} /\ Grant(w, card, a).maxTTL = ttl
  BY <1>6 DEF Grant
<1>8. /\ B.actions = RuntimeActionsOf(w, card)
      /\ B.grants = {Grant(w, card, a) : a \in RuntimeActionsOf(w, card)}
      /\ B.maxTTL = ttl /\ B.maxScope = scope /\ B.runtimeAllowed = card.allowed
      /\ scope # Unset
  BY <1>2, <1>6, <1>f DEF PolicyResolves
<1>9. ASSUME NEW a \in B.actions
      PROVE  \E g \in B.grants :
               /\ g.action = a
               /\ \A h \in B.grants : h.action = a => h = g
               /\ NodeAccepts(B, g) <=> card.allowed /\ IsDuration(ttl)
  <2>1. PICK g : g = Grant(w, card, a)
    OBVIOUS
  <2>2. g \in B.grants /\ g.action = a /\ g.scopes = {scope} /\ g.maxTTL = ttl
    BY <1>7, <1>8, <2>1
  <2>3. \A h \in B.grants : h.action = a \/ h.id = g.id => h = g
    BY <1>7, <1>8, <2>1
  <2>4. g.binding # Unset
    <3>1. Grantable(w, card, a)
      BY <1>8 DEF Planned
    <3> QED BY <1>2, <2>1, <3>1, GrantHasBinding
  <2>5. IsDuration(ttl) => NodeGrants(B, g)
    <3> SUFFICES ASSUME IsDuration(ttl) PROVE NodeGrants(B, g)
      OBVIOUS
    <3>1. Durations[ttl] <= Durations[ttl]
      BY DurationsAssumption DEF IsDuration
    <3> QED BY <1>8, <2>2, <2>3, <2>4, <3>1 DEF NodeGrants
  <2>6. NodeAccepts(B, g) <=> card.allowed /\ IsDuration(ttl)
    BY <1>8, <2>2, <2>5 DEF NodeAccepts
  <2> QED
    BY <2>2, <2>3, <2>6
<1>10. TakenFrom(m, w, card)
  BY <1>6, <1>8, <1>9, <1>f DEF TakenFrom
<1>11. Taken(p, m)
  BY <1>5, <1>e, <1>10 DEF Taken, CardRead
<1> QED
  BY <1>11 DEF m

-----------------------------------------------------------------------------
(* Builds: the inductive invariant and the first two theorems.             *)

BuildsInv ==
  /\ Shape
  /\ \A r \in DOMAIN run : Work(project, r, run[r], stored)
  /\ \A m \in manifest : Complete(m, stored) /\ Taken(project, m)

LEMMA ShapeInit == BuildsInit => Shape
<1> SUFFICES ASSUME BuildsInit
             PROVE  Shape
  OBVIOUS
<1>1. PICK i \in DOMAIN Projects : project = Projects[i]
  BY DEF BuildsInit
<1>2. run = [r \in DOMAIN project.runs |-> RunStart(project.runs[r].kind)] /\ edited = FALSE
  BY DEF BuildsInit, Runs
<1>3. \A k : DOMAIN RunStart(k) = Fields
  BY DEF RunStart, Fields
<1>4. \A r \in DOMAIN project.runs :
        /\ RunWellFormed(project.runs[r])
        /\ WellRead(project.before) /\ WellRead(project.after)
  BY <1>1, ProjectsAssumption
<1> QED
  BY <1>2, <1>3, <1>4 DEF Shape, Disk

LEMMA ShapeKept ==
  ASSUME Shape, NEW r \in DOMAIN run, OthersStay(r), UNCHANGED project, edited' = edited
  PROVE  Shape'
<1>1. DOMAIN run' = DOMAIN run /\ run' = [q \in DOMAIN run' |-> run'[q]]
  BY DEF OthersStay
<1>2. \A q \in DOMAIN run : DOMAIN run'[q] = Fields
  BY DEF OthersStay, Shape
<1> QED
  BY <1>1, <1>2 DEF Shape, Disk

LEMMA BuildsInvInit == BuildsInit => BuildsInv
<1> SUFFICES ASSUME BuildsInit
             PROVE  BuildsInv
  OBVIOUS
<1>1. Shape
  BY ShapeInit
<1>2. run = [r \in DOMAIN project.runs |-> RunStart(project.runs[r].kind)] /\ manifest = {}
  BY DEF BuildsInit, Runs
<1>3. \A k : RunStart(k).pc \in {"validate", "load"} /\ RunStart(k).refs = {}
  BY DEF RunStart
<1>4. ASSUME NEW r \in DOMAIN run
      PROVE  Work(project, r, run[r], stored)
  <2>1. run[r] = RunStart(project.runs[r].kind)
    BY <1>2
  <2>2. run[r].pc \in {"validate", "load"} /\ run[r].refs = {}
    BY <1>3, <2>1
  <2> QED
    BY <2>2 DEF Work
<1> QED
  BY <1>1, <1>2, <1>4 DEF BuildsInv

\* If the run at hand and the store are as they should be, so is all of it.
LEMMA BuildsInvKept ==
  ASSUME BuildsInv, NEW r \in DOMAIN run, OthersStay(r), UNCHANGED <<project, edited>>,
         stored \subseteq stored', Work(project, r, run'[r], stored'),
         \A m \in manifest' \ manifest : Complete(m, stored') /\ Taken(project, m)
  PROVE  BuildsInv'
<1>1. Shape'
  BY ShapeKept DEF BuildsInv
<1>2. ASSUME NEW q \in DOMAIN run'
      PROVE  Work(project', q, run'[q], stored')
  <2>1. q \in DOMAIN run
    BY DEF OthersStay
  <2>2. CASE q = r
    BY <2>2
  <2>3. CASE q # r
    <3>1. run'[q] = run[q] /\ Work(project, q, run[q], stored)
      BY <2>1, <2>3 DEF OthersStay, BuildsInv
    <3>2. Work(project, q, run[q], stored')
      BY <3>1 DEF Work
    <3> QED
      BY <3>1, <3>2
  <2> QED
    BY <2>2, <2>3
<1>3. ASSUME NEW m \in manifest'
      PROVE  Complete(m, stored') /\ Taken(project, m)
  <2>1. CASE m \in manifest
    <3>1. Complete(m, stored) /\ Taken(project, m)
      BY <2>1 DEF BuildsInv
    <3> QED
      BY <3>1 DEF Complete
  <2> QED
    BY <2>1
<1> QED
  BY <1>1, <1>2, <1>3 DEF BuildsInv

LEMMA BuildsInvStep == BuildsInv /\ [BuildsNext]_buildVars => BuildsInv'
<1> SUFFICES ASSUME BuildsInv, [BuildsNext]_buildVars
             PROVE  BuildsInv'
  OBVIOUS
<1> Shape
  BY DEF BuildsInv
<1>1. CASE UNCHANGED buildVars
  BY <1>1 DEF buildVars, BuildsInv, Shape, Disk
<1>2. CASE Edit
  BY <1>2 DEF Edit, BuildsInv, Shape, Disk
<1>3. ASSUME NEW r \in DOMAIN run, OthersStay(r), Fails(run'[r], run[r]),
             UNCHANGED <<project, edited, stored, manifest>>
      PROVE  BuildsInv'
  <2>1. Work(project, r, run[r], stored)
    BY DEF BuildsInv
  <2>2. Work(project, r, run'[r], stored')
    BY <1>3, <2>1 DEF Work, Fails
  <2> QED
    BY <1>3, <2>2, BuildsInvKept
<1>4. ASSUME NEW r \in DOMAIN run, ValidateCI(r)
      PROVE  BuildsInv'
  <2>1. UNCHANGED <<project, edited, stored, manifest>>
    BY <1>4 DEF ValidateCI
  <2>2. OthersStay(r) /\ run'[r].refs = run[r].refs /\ run'[r].pc \in {"done", "load"}
    BY <1>4, ValidateCIEffect
  <2>3. Work(project, r, run'[r], stored')
    BY <2>1, <2>2 DEF Work, BuildsInv
  <2> QED
    BY <2>1, <2>2, <2>3, BuildsInvKept
<1>5. ASSUME NEW r \in DOMAIN run, Load(r)
      PROVE  BuildsInv'
  <2>1. UNCHANGED <<project, edited, stored, manifest>>
    BY <1>5 DEF Load
  <2>2. /\ OthersStay(r)
        /\ \/ Fails(run'[r], run[r])
           \/ run'[r].pc = "next" /\ run'[r].refs = run[r].refs /\ run'[r].loaded = edited
    BY <1>5, LoadEffect
  <2>3. CASE ~Fails(run'[r], run[r])
    <3>1. Work(project, r, run'[r], stored')
      BY <2>1, <2>2, <2>3 DEF Work, BuildsInv, Shape
    <3> QED
      BY <2>1, <2>2, <3>1, BuildsInvKept
  <2> QED
    BY <1>3, <2>1, <2>2, <2>3
<1>6. ASSUME NEW r \in DOMAIN run, NextPolicy(r)
      PROVE  BuildsInv'
  <2>1. UNCHANGED <<project, edited, stored, manifest>> /\ run[r].pc = "next"
    BY <1>6 DEF NextPolicy, RunAt
  <2>2. OthersStay(r)
    BY <1>6, NextPolicyEffect
  <2>3. CASE ~Fails(run'[r], run[r])
    <3>1. /\ run'[r].pc = "store" /\ run'[r].loaded = run[r].loaded /\ run'[r].refs = {}
          /\ \E i \in DOMAIN Disk(project, edited).policies :
               run'[r].card = Disk(project, edited).policies[i]
          /\ run'[r].pending = <<ResolvedPair>>
          /\ PolicyResolves(Disk(project, run[r].loaded), run'[r].card)
      BY <1>6, <2>3, NextPolicyEffect DEF ResolvedPair
    <3>2. run[r].loaded \in BOOLEAN /\ edited \in BOOLEAN
      BY <2>1 DEF BuildsInv, Work, Shape
    <3>3. CardRead(project, run'[r])
      BY <3>1, <3>2 DEF CardRead
    <3>4. Work(project, r, run'[r], stored')
      BY <3>1, <3>3 DEF Work
    <3> QED
      BY <2>1, <2>2, <3>4, BuildsInvKept
  <2> QED
    BY <1>3, <2>1, <2>2, <2>3
<1>7. ASSUME NEW r \in DOMAIN run, CompileReturns(r)
      PROVE  BuildsInv'
  <2>1. UNCHANGED <<project, edited, stored, manifest>>
    BY <1>7 DEF CompileReturns
  <2>2. OthersStay(r) /\ run'[r].refs = run[r].refs /\ run'[r].pc \in {"done", "load"}
    BY <1>7, CompileReturnsEffect
  <2>3. Work(project, r, run'[r], stored')
    BY <2>1, <2>2 DEF Work, BuildsInv
  <2> QED
    BY <2>1, <2>2, <2>3, BuildsInvKept
<1>8. ASSUME NEW r \in DOMAIN run, PlanBundle(r)
      PROVE  BuildsInv'
  <2>1. UNCHANGED <<project, edited, stored, manifest>> /\ run[r].pc = "plan"
    BY <1>8 DEF PlanBundle, RunAt
  <2>2. OthersStay(r)
    BY <1>8, PlanBundleEffect
  <2>3. CASE ~Fails(run'[r], run[r])
    <3> DEFINE s == run[r]
               t == run'[r]
    <3>1. /\ t.pc = "store" /\ t.refs = s.refs /\ t.loaded = s.loaded /\ t.card = s.card
          /\ t.pending = Emissions(CurrentBundle(project, s))
          /\ \A a \in RuntimeActionsOf(Disk(project, s.loaded), s.card) :
               Grantable(Disk(project, s.loaded), s.card, a)
      BY <1>8, <2>3, PlanBundleEffect DEF CurrentBundle, SameBuild, SameCall
    <3>2. Work(project, r, s, stored) /\ CardRead(project, s)
      BY <2>1 DEF BuildsInv, Work
    <3> HIDE DEF s, t
    <3>4. IsFiniteSet(UsedAdapters(CurrentBundle(project, s)))
      BY <3>2, CurrentFinite DEF Shape
    <3>5. CurrentBundle(project, t) = CurrentBundle(project, s) /\ CardRead(project, t)
      BY <3>1, <3>2 DEF CurrentBundle, CardRead
    <3>6. /\ Queue(CurrentBundle(project, t), t.pending)
          /\ \A n \in Emittable(CurrentBundle(project, t)) : Queued(t.pending, n)
      BY <3>1, <3>4, <3>5, EmissionsQueue
    <3>7. ASSUME NEW n \in Needed(project.runs[r].signs, CurrentBundle(project, t))
          PROVE  Queued(t.pending, n) \/ Final(project, r, t, n) \in t.refs
      <4>1. CASE n = ResolvedPair
        <5>1. Final(project, r, s, ResolvedPair) \in s.refs
          BY <2>1, <3>2 DEF Work, s
        <5> QED
          BY <3>1, <4>1, <5>1 DEF Final
      <4>2. CASE n # ResolvedPair
        <5>1. n \in Emittable(CurrentBundle(project, t))
          BY <4>2 DEF Needed, Emittable, ResolvedPair
        <5> QED
          BY <3>6, <5>1
      <4> QED
        BY <4>1, <4>2
    <3>8. Planned(project, r, t)
      BY <3>1, <3>6, <3>7 DEF Planned
    <3>9. Work(project, r, t, stored')
      BY <2>1, <3>1, <3>2, <3>5, <3>8 DEF Work
    <3> QED
      BY <2>1, <2>2, <3>9, BuildsInvKept DEF t
  <2> QED
    BY <1>3, <2>1, <2>2, <2>3
<1>9. ASSUME NEW r \in DOMAIN run, StoreArtifact(r)
      PROVE  BuildsInv'
  <2> DEFINE s == run[r]
             t == run'[r]
             a == Art(r, s, FALSE)
             refs == RefsWith(r, s)
  <2>1. UNCHANGED <<project, edited>> /\ s.pc = "store"
    BY <1>9 DEF StoreArtifact, RunAt
  <2>2. /\ OthersStay(r)
        /\ stored' = stored \cup {a}
        /\ manifest' = IF Head(s.pending)[1] = "policy_build_manifest"
                       THEN manifest \cup {BuiltBy(project, r, s)} ELSE manifest
        /\ \/ /\ project.runs[r].signs
              /\ t.pc = "sign" /\ SameBuild(t, s) /\ t.pending = s.pending /\ t.refs = refs
           \/ ~project.runs[r].signs /\ Emits(t, s, refs)
    BY <1>9, StoreArtifactEffect
  <2>3. Work(project, r, s, stored) /\ \A e \in BOOLEAN : WellRead(Disk(project, e))
    BY DEF BuildsInv, Shape
  <2>4. /\ s.refs \subseteq refs
        /\ Head(s.pending)[2] = Unset => a \in refs
        /\ refs \subseteq s.refs \cup {a}
    BY DEF RefsWith
  <2>5. ~project.runs[r].signs => Final(project, r, s, Head(s.pending)) = a
    <3>1. project.runs[r].signs \in BOOLEAN
      BY DEF Shape, RunWellFormed
    <3> QED
      BY <3>1 DEF Final, Art
  <2>6. s.refs \subseteq stored
    BY <2>3 DEF Work
  <2> HIDE DEF s, t, a, refs
  <2>7. refs \subseteq stored' /\ stored \subseteq stored'
    BY <2>2, <2>4, <2>6
  <2>8. Work(project, r, t, stored')
    <3>1. CASE project.runs[r].signs
      BY <2>1, <2>2, <2>3, <2>4, <2>7, <3>1, WorkKept
    <3>2. CASE ~project.runs[r].signs
      <4>1. Emits(t, s, refs)
        BY <2>2, <3>2
      <4>2. project.runs[r].signs \/ Head(s.pending)[2] = Unset =>
              Final(project, r, s, Head(s.pending)) \in refs
        BY <2>4, <2>5, <3>2
      <4> QED
        BY <2>1, <2>3, <2>4, <2>7, <4>1, <4>2, WorkEmits
    <3> QED
      BY <3>1, <3>2
  <2>9. ASSUME NEW m \in manifest' \ manifest
        PROVE  Complete(m, stored') /\ Taken(project, m)
    <3>1. Head(s.pending)[1] = "policy_build_manifest" /\ m = BuiltBy(project, r, s)
      BY <2>2
    <3>2. Complete(m, stored) /\ CardRead(project, s) /\ Planned(project, r, s)
      BY <2>1, <2>3, <3>1, BuiltIsComplete, ManifestIsLast
    <3>3. Taken(project, m)
      BY <2>3, <3>1, <3>2, BuiltIsTaken
    <3> QED
      BY <2>7, <3>2, <3>3 DEF Complete
  <2> QED
    BY <2>1, <2>2, <2>7, <2>8, <2>9, BuildsInvKept DEF t
<1>10. ASSUME NEW r \in DOMAIN run, SignArtifact(r)
       PROVE  BuildsInv'
  <2>1. UNCHANGED <<project, edited, stored, manifest>> /\ run[r].pc = "sign"
    BY <1>10 DEF SignArtifact, RunAt
  <2>2. /\ OthersStay(r) /\ run'[r].pc = "seal" /\ SameBuild(run'[r], run[r])
        /\ run'[r].pending = run[r].pending /\ run'[r].refs = run[r].refs
    BY <1>10, SignArtifactEffect
  <2>3. Work(project, r, run[r], stored) /\ project.runs[r].signs /\ run[r].refs \subseteq stored
    BY <2>1 DEF BuildsInv, Work
  <2>4. Work(project, r, run'[r], stored')
    BY <2>1, <2>2, <2>3, WorkKept
  <2> QED
    BY <2>1, <2>2, <2>4, BuildsInvKept
<1>11. ASSUME NEW r \in DOMAIN run, StoreEnvelope(r)
       PROVE  BuildsInv'
  <2> DEFINE s == run[r]
             t == run'[r]
             a == Art(r, s, TRUE)
             refs == s.refs \cup {a}
  <2>1. UNCHANGED <<project, edited, manifest>> /\ s.pc = "seal"
    BY <1>11 DEF StoreEnvelope, RunAt
  <2>2. OthersStay(r) /\ stored' = stored \cup {a} /\ Emits(t, s, refs)
    BY <1>11, StoreEnvelopeEffect
  <2>3. Work(project, r, s, stored) /\ project.runs[r].signs /\ s.refs \subseteq stored
    BY <2>1 DEF BuildsInv, Work
  <2>4. Final(project, r, s, Head(s.pending)) = a
    <3>1. project.runs[r].signs = TRUE
      BY <2>3 DEF Shape, RunWellFormed
    <3> QED
      BY <3>1 DEF Final, Art
  <2> HIDE DEF s, t, a
  <2>5. Work(project, r, t, stored')
    <3>1. s.pc \in {"store", "seal"} /\ s.refs \subseteq refs /\ refs \subseteq stored'
      BY <2>1, <2>2, <2>3
    <3>2. Final(project, r, s, Head(s.pending)) \in refs
      BY <2>4
    <3> HIDE DEF refs
    <3> QED BY <2>2, <2>3, <3>1, <3>2, WorkEmits
  <2> QED
    BY <2>1, <2>2, <2>5, BuildsInvKept DEF t
<1>12. ASSUME NEW r \in DOMAIN run, CompileDies(r)
       PROVE  BuildsInv'
  BY <1>3, <1>12, FailsEffect DEF CompileDies
<1> QED
  BY <1>1, <1>2, <1>4, <1>5, <1>6, <1>7, <1>8, <1>9, <1>10, <1>11, <1>12 DEF BuildsNext, CompileStep

THEOREM BuildsInvariance == BuildsSpec => []BuildsInv
BY BuildsInvInit, BuildsInvStep, PTL DEF BuildsSpec

\* For any projects, any number of runs side by side and an edit at any time: a
\* build manifest in the store names every artifact a node is assigned from it,
\* all of them of its own run and policy, signed if the run signs, and all of
\* them are in the store.
THEOREM ManifestsAreComplete == BuildsSpec => []ManifestIsComplete
<1>1. BuildsInv => ManifestIsComplete
  BY DEF BuildsInv, ManifestIsComplete, Complete, Needed, AdapterPairs
<1> QED
  BY <1>1, BuildsInvariance, PTL

\* What the compiler emits, the node takes: exactly if the policy allows runtime
\* actions and has a duration for a max_ttl, also when the catalog and the policy
\* were read on different sides of an edit.
THEOREM BuildsAreTaken == BuildsSpec => []NodeTakesBuilds
<1>1. BuildsInv => NodeTakesBuilds
  <2>1. \A e : Workspace(e) = Disk(project, e)
    BY DEF Workspace, Disk
  <2> SUFFICES ASSUME BuildsInv, NEW m \in manifest
               PROVE  /\ NodeActivates(m)
                      /\ \E read, loaded \in BOOLEAN :
                           \E card \in ToSet(Workspace(read).policies) :
                             TakenFrom(m, Workspace(loaded), card)
    BY DEF NodeTakesBuilds, TakenFrom
  <2>2. Taken(project, m)
    BY DEF BuildsInv
  <2> QED
    BY <2>1, <2>2 DEF Taken
<1> QED
  BY <1>1, BuildsInvariance, PTL
=============================================================================
