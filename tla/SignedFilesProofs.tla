------------------------- MODULE SignedFilesProofs --------------------------
(***************************************************************************)
(* Proof that the signed files a run leaves behind are those its build     *)
(* manifests name, for any projects.                                       *)
(*                                                                         *)
(* The name of a signed file has the policy and the type of the artifact,  *)
(* not the run and not the adapter.  FilesInv says whose each file is; if  *)
(* a policy uses one adapter and one manifest of the run is of that        *)
(* policy, it can only be the artifact that the manifest names.            *)
(***************************************************************************)
EXTENDS BuildsProofs

-----------------------------------------------------------------------------
(* The signed files: each is of a run that has left "load", and that of an *)
(* adapter manifest fits a build manifest or the build at hand.            *)

Fits(bundle, a) ==
  IF a.type = "adapter_manifest" THEN a.adapter \in UsedAdapters(bundle) ELSE a.adapter = Unset

IsArtifact(a) ==
  /\ a = [run |-> a.run, policy |-> a.policy, type |-> a.type, adapter |-> a.adapter,
          signed |-> a.signed]
  /\ a.signed \in BOOLEAN

\* An artifact that a build manifest names or is going to name.
RefOK(r, policy, bundle, sf, a) ==
  /\ IsArtifact(a)
  /\ a.run = r /\ a.policy = policy
  /\ Fits(bundle, a)
  /\ a.signed => SignedPath(a) \in DOMAIN sf

Track(p, r, s, sf, mf) ==
  /\ p.runs[r].kind # "ci" => s.pc # "validate" /\ (s.files = <<Unset>> \/ s.pc = "done")
  /\ s.pc \in {"plan", "store", "sign", "seal"} =>
       \A a \in s.refs : RefOK(r, s.card.id, CurrentBundle(p, s), sf, a)
  /\ s.pc \in {"sign", "seal"} /\ Head(s.pending)[1] = "policy_build_manifest" =>
       \E m \in mf : m.run = r /\ m.policy = s.card.id /\ m.bundle = CurrentBundle(p, s)
  /\ s.pc = "seal" => SignedPath(Art(r, s, TRUE)) \in DOMAIN sf

NamesOwn(m, sf) ==
  /\ IsFiniteSet(UsedAdapters(m.bundle))
  /\ \A a \in m.refs : RefOK(m.run, m.policy, m.bundle, sf, a)

\* A signed file with the content b, of a run at s.
FileOK(p, b, s, mf) ==
  /\ IsArtifact(b)
  /\ b.signed
  /\ p.runs[b.run].signs
  /\ s.pc # "load"
  /\ b.type # "adapter_manifest" => b.adapter = Unset
  /\ b.type = "adapter_manifest" =>
       \/ s.pc = "failed"
       \/ /\ s.pc \in {"plan", "store", "sign", "seal"}
          /\ s.card.id = b.policy /\ b.adapter \in UsedAdapters(CurrentBundle(p, s))
       \/ \E m \in mf : m.run = b.run /\ m.policy = b.policy /\ b.adapter \in UsedAdapters(m.bundle)

FilesInv ==
  /\ \A r \in DOMAIN run : Track(project, r, run[r], signedFile, manifest)
  /\ \A m \in manifest : NamesOwn(m, signedFile)
  /\ \A f \in DOMAIN signedFile :
       /\ f = SignedPath(signedFile[f])
       /\ signedFile[f].run \in DOMAIN run
       /\ FileOK(project, signedFile[f], run[signedFile[f].run], manifest)

\* The artifact at the head of the queue fits the bundle at hand.
LEMMA HeadFits ==
  ASSUME NEW p, NEW r, NEW s, NEW st, NEW signed, Work(p, r, s, st),
         s.pc \in {"store", "sign", "seal"}
  PROVE  Fits(CurrentBundle(p, s), Art(r, s, signed))
<1>1. Art(r, s, signed).type = Head(s.pending)[1] /\ Art(r, s, signed).adapter = Head(s.pending)[2]
  BY DEF Art
<1>2. CASE s.pending = <<ResolvedPair>>
  <2>1. Head(s.pending)[1] = "resolved_policy" /\ Head(s.pending)[2] = Unset
    BY <1>2 DEF ResolvedPair
  <2> QED
    BY <1>1, <2>1 DEF Fits
<1>3. CASE Planned(p, r, s)
  <2>1. Head(s.pending) \in Emittable(CurrentBundle(p, s))
    BY <1>3, QueueHead DEF Planned
  <2>2. \/ Head(s.pending)[1] # "adapter_manifest" /\ Head(s.pending)[2] = Unset
        \/ /\ Head(s.pending)[1] = "adapter_manifest"
           /\ Head(s.pending)[2] \in UsedAdapters(CurrentBundle(p, s))
    BY <2>1 DEF Emittable, AdapterPairs, ManifestPair
  <2> QED
    BY <1>1, <2>2 DEF Fits
<1> QED
  BY <1>2, <1>3 DEF Work

LEMMA FilesInvKept ==
  ASSUME FilesInv, NEW r \in DOMAIN run, OthersStay(r), UNCHANGED project,
         manifest \subseteq manifest', DOMAIN signedFile \subseteq DOMAIN signedFile',
         Track(project, r, run'[r], signedFile', manifest'),
         \A m \in manifest' \ manifest : NamesOwn(m, signedFile'),
         \A b : b.run = r /\ FileOK(project, b, run[r], manifest) =>
                  FileOK(project, b, run'[r], manifest'),
         \A f \in DOMAIN signedFile' :
           \/ f \in DOMAIN signedFile /\ signedFile'[f] = signedFile[f]
           \/ /\ f = SignedPath(signedFile'[f]) /\ signedFile'[f].run = r
              /\ FileOK(project, signedFile'[f], run'[r], manifest')
  PROVE  FilesInv'
<1>1. ASSUME NEW q \in DOMAIN run'
      PROVE  Track(project', q, run'[q], signedFile', manifest')
  <2>1. q \in DOMAIN run
    BY DEF OthersStay
  <2>2. CASE q # r
    <3>1. run'[q] = run[q] /\ Track(project, q, run[q], signedFile, manifest)
      BY <2>1, <2>2 DEF OthersStay, FilesInv
    <3>2. Track(project, q, run[q], signedFile', manifest')
      BY <3>1 DEF Track, RefOK
    <3> QED
      BY <3>1, <3>2
  <2> QED
    BY <2>2
<1>2. ASSUME NEW m \in manifest'
      PROVE  NamesOwn(m, signedFile')
  <2>1. CASE m \in manifest
    BY <2>1 DEF FilesInv, NamesOwn, RefOK
  <2> QED
    BY <2>1
<1>3. ASSUME NEW f \in DOMAIN signedFile'
      PROVE  /\ f = SignedPath(signedFile'[f])
             /\ signedFile'[f].run \in DOMAIN run'
             /\ FileOK(project', signedFile'[f], run'[signedFile'[f].run], manifest')
  <2>1. DOMAIN run' = DOMAIN run
    BY DEF OthersStay
  <2>2. CASE f \in DOMAIN signedFile /\ signedFile'[f] = signedFile[f]
    <3> DEFINE b == signedFile[f]
    <3>1. f = SignedPath(b) /\ b.run \in DOMAIN run /\ FileOK(project, b, run[b.run], manifest)
      BY <2>2 DEF FilesInv
    <3> HIDE DEF b
    <3>2. FileOK(project, b, run'[b.run], manifest')
      <4>1. CASE b.run = r
        BY <3>1, <4>1
      <4>2. CASE b.run # r
        <5>1. run'[b.run] = run[b.run]
          BY <3>1, <4>2 DEF OthersStay
        <5> QED
          BY <3>1, <5>1 DEF FileOK
      <4> QED
        BY <4>1, <4>2
    <3> QED
      BY <2>1, <2>2, <3>1, <3>2 DEF b
  <2> QED
    BY <2>1, <2>2
<1> QED
  BY <1>1, <1>2, <1>3 DEF FilesInv

LEMMA FilesInvInit == BuildsInit => FilesInv
<1> SUFFICES ASSUME BuildsInit
             PROVE  FilesInv
  OBVIOUS
<1>1. /\ run = [r \in DOMAIN project.runs |-> RunStart(project.runs[r].kind)]
      /\ manifest = {} /\ DOMAIN signedFile = {}
  BY DEF BuildsInit, Runs
<1>2. ASSUME NEW r \in DOMAIN run
      PROVE  Track(project, r, run[r], signedFile, manifest)
  <2>1. /\ run[r].pc = IF project.runs[r].kind = "ci" THEN "validate" ELSE "load"
        /\ run[r].files = IF project.runs[r].kind = "ci" THEN <<>> ELSE <<Unset>>
    BY <1>1 DEF RunStart
  <2> QED
    BY <2>1 DEF Track
<1> QED
  BY <1>1, <1>2 DEF FilesInv

LEMMA FilesInvStep == BuildsInv /\ FilesInv /\ [BuildsNext]_buildVars => FilesInv'
<1> SUFFICES ASSUME BuildsInv, FilesInv, [BuildsNext]_buildVars
             PROVE  FilesInv'
  OBVIOUS
<1> Shape
  BY DEF BuildsInv
<1>0. ASSUME NEW r \in DOMAIN run
      PROVE  /\ Track(project, r, run[r], signedFile, manifest)
             /\ Work(project, r, run[r], stored)
             /\ project.runs[r].signs \in BOOLEAN
             /\ project.runs[r].signs => project.runs[r].kind # "ci"
  BY DEF FilesInv, BuildsInv, Shape, RunWellFormed
<1>1. CASE UNCHANGED buildVars
  BY <1>1 DEF buildVars, FilesInv
<1>2. CASE Edit
  BY <1>2 DEF Edit, FilesInv
<1>3. ASSUME NEW r \in DOMAIN run, OthersStay(r), Fails(run'[r], run[r]),
             run[r].pc \notin {"validate", "done"},
             UNCHANGED <<project, manifest, signedFile>>
      PROVE  FilesInv'
  <2>1. Track(project, r, run'[r], signedFile', manifest')
    BY <1>0, <1>3 DEF Track, Fails, SameBuild, SameCall, SameInputs
  <2>2. \A b : FileOK(project, b, run[r], manifest) => FileOK(project, b, run'[r], manifest')
    BY <1>3 DEF FileOK, Fails
  <2> QED
    BY <1>3, <2>1, <2>2, FilesInvKept
<1>4. ASSUME NEW r \in DOMAIN run, ValidateCI(r)
      PROVE  FilesInv'
  <2>1. UNCHANGED <<project, manifest, signedFile>> /\ run[r].pc = "validate"
    BY <1>4 DEF ValidateCI, RunAt
  <2>2. OthersStay(r) /\ run'[r].pc \in {"done", "load"}
    BY <1>4, ValidateCIEffect
  <2>3. project.runs[r].kind = "ci" /\ ~project.runs[r].signs
    BY <1>0, <2>1 DEF Track
  <2>4. Track(project, r, run'[r], signedFile', manifest')
    BY <2>2, <2>3 DEF Track
  <2>5. \A b : b.run = r => ~FileOK(project, b, run[r], manifest)
    BY <2>3 DEF FileOK
  <2> QED
    BY <2>1, <2>2, <2>4, <2>5, FilesInvKept
<1>5. ASSUME NEW r \in DOMAIN run, Load(r)
      PROVE  FilesInv'
  <2>1. UNCHANGED <<project, manifest, signedFile>> /\ run[r].pc = "load"
    BY <1>5 DEF Load, RunAt
  <2>2. OthersStay(r)
    BY <1>5, LoadEffect
  <2>3. CASE ~Fails(run'[r], run[r])
    <3>1. run'[r].pc = "next" /\ run'[r].files = run[r].files
      BY <1>5, <2>3, LoadEffect DEF SameInputs
    <3>2. Track(project, r, run'[r], signedFile', manifest')
      BY <1>0, <2>1, <3>1 DEF Track
    <3>3. \A b : ~FileOK(project, b, run[r], manifest)
      BY <2>1 DEF FileOK
    <3> QED
      BY <2>1, <2>2, <3>2, <3>3, FilesInvKept
  <2> QED
    BY <1>3, <2>1, <2>2, <2>3
<1>6. ASSUME NEW r \in DOMAIN run, NextPolicy(r)
      PROVE  FilesInv'
  <2>1. UNCHANGED <<project, manifest, signedFile>> /\ run[r].pc = "next"
    BY <1>6 DEF NextPolicy, RunAt
  <2>2. OthersStay(r)
    BY <1>6, NextPolicyEffect
  <2>3. CASE ~Fails(run'[r], run[r])
    <3>1. run'[r].pc = "store" /\ run'[r].files = run[r].files /\ run'[r].refs = {}
      BY <1>6, <2>3, NextPolicyEffect DEF SameInputs
    <3>2. Track(project, r, run'[r], signedFile', manifest')
      BY <1>0, <2>1, <3>1 DEF Track
    <3>3. \A b : FileOK(project, b, run[r], manifest) => FileOK(project, b, run'[r], manifest')
      BY <2>1, <3>1 DEF FileOK
    <3> QED
      BY <2>1, <2>2, <3>2, <3>3, FilesInvKept
  <2> QED
    BY <1>3, <2>1, <2>2, <2>3
<1>7. ASSUME NEW r \in DOMAIN run, CompileReturns(r)
      PROVE  FilesInv'
  <2>1. UNCHANGED <<project, manifest, signedFile>> /\ run[r].pc = "next"
    BY <1>7 DEF CompileReturns, RunAt
  <2>2. /\ OthersStay(r)
        /\ run'[r].pc = IF Tail(run[r].files) = <<>> THEN "done" ELSE "load"
    BY <1>7, CompileReturnsEffect
  <2>3. project.runs[r].kind # "ci" => run'[r].pc = "done"
    <3>1. project.runs[r].kind # "ci" => run[r].files = <<Unset>>
      BY <1>0, <2>1 DEF Track
    <3>2. Tail(<<Unset>>) = <<>>
      OBVIOUS
    <3> QED
      BY <2>2, <3>1, <3>2
  <2>4. Track(project, r, run'[r], signedFile', manifest')
    BY <2>2, <2>3 DEF Track
  <2>5. \A b : b.run = r /\ FileOK(project, b, run[r], manifest) =>
                FileOK(project, b, run'[r], manifest')
    BY <1>0, <2>1, <2>3 DEF FileOK
  <2> QED
    BY <2>1, <2>2, <2>4, <2>5, FilesInvKept
<1>8. ASSUME NEW r \in DOMAIN run, PlanBundle(r)
      PROVE  FilesInv'
  <2>1. UNCHANGED <<project, manifest, signedFile>> /\ run[r].pc = "plan"
    BY <1>8 DEF PlanBundle, RunAt
  <2>2. OthersStay(r)
    BY <1>8, PlanBundleEffect
  <2>3. CASE ~Fails(run'[r], run[r])
    <3>1. /\ run'[r].pc = "store" /\ run'[r].files = run[r].files /\ run'[r].refs = run[r].refs
          /\ run'[r].card = run[r].card /\ run'[r].loaded = run[r].loaded
      BY <1>8, <2>3, PlanBundleEffect DEF SameBuild, SameCall, SameInputs
    <3>2. CurrentBundle(project, run'[r]) = CurrentBundle(project, run[r])
      BY <3>1 DEF CurrentBundle
    <3>3. Track(project, r, run'[r], signedFile', manifest')
      BY <1>0, <2>1, <3>1, <3>2 DEF Track
    <3>4. \A b : FileOK(project, b, run[r], manifest) => FileOK(project, b, run'[r], manifest')
      BY <2>1, <3>1, <3>2 DEF FileOK
    <3> QED
      BY <2>1, <2>2, <3>3, <3>4, FilesInvKept
  <2> QED
    BY <1>3, <2>1, <2>2, <2>3
<1>9. ASSUME NEW r \in DOMAIN run, StoreArtifact(r)
      PROVE  FilesInv'
  <2> DEFINE s == run[r]
             t == run'[r]
             a == Art(r, s, FALSE)
             B == CurrentBundle(project, s)
  <2>1. UNCHANGED <<project, signedFile>> /\ s.pc = "store"
    BY <1>9 DEF StoreArtifact, RunAt
  <2>2. /\ OthersStay(r)
        /\ manifest' = IF Head(s.pending)[1] = "policy_build_manifest"
                       THEN manifest \cup {BuiltBy(project, r, s)} ELSE manifest
        /\ \/ /\ project.runs[r].signs
              /\ t.pc = "sign" /\ SameBuild(t, s) /\ t.pending = s.pending
           \/ ~project.runs[r].signs /\ t.pc \in {"store", "plan", "next"} /\ SameBuild(t, s)
        /\ t.refs = RefsWith(r, s)
    BY <1>9, StoreArtifactEffect DEF Emits
  <2>3. t.card = s.card /\ t.loaded = s.loaded /\ t.files = s.files
    BY <2>2 DEF SameBuild, SameCall, SameInputs
  <2>4. CurrentBundle(project, t) = B
    BY <2>3 DEF CurrentBundle
  <2>5. RefOK(r, s.card.id, B, signedFile, a)
    <3>1. Fits(B, a)
      BY <1>0, <2>1, HeadFits
    <3>2. IsArtifact(a)
      BY DEF IsArtifact, Art
    <3> QED
      BY <3>1, <3>2 DEF RefOK, Art
  <2>6. \A x \in s.refs : RefOK(r, s.card.id, B, signedFile, x)
    BY <1>0, <2>1 DEF Track
  <2>7. \A x \in t.refs : RefOK(r, s.card.id, B, signedFile, x)
    BY <2>2, <2>5, <2>6 DEF RefsWith
  <2>8. /\ BuiltBy(project, r, s).run = r /\ BuiltBy(project, r, s).policy = s.card.id
        /\ BuiltBy(project, r, s).bundle = B /\ BuiltBy(project, r, s).refs = s.refs
    BY DEF BuiltBy, CurrentBundle
  <2>9. project.runs[r].kind # "ci" => t.pc # "validate" /\ t.files = <<Unset>>
    BY <1>0, <2>1, <2>2, <2>3 DEF Track
  <2>10. IsFiniteSet(UsedAdapters(B))
    <3>1. CardRead(project, s)
      BY <1>0, <2>1 DEF Work
    <3> QED
      BY <3>1, CurrentFinite DEF Shape
  <2> HIDE DEF s, t, a, B
  <2>11. Track(project, r, t, signedFile', manifest')
    BY <2>1, <2>2, <2>3, <2>4, <2>7, <2>8, <2>9 DEF Track
  <2>12. ASSUME NEW m \in manifest' \ manifest
         PROVE  NamesOwn(m, signedFile')
    <3>1. m = BuiltBy(project, r, s)
      BY <2>2
    <3> QED
      BY <2>1, <2>6, <2>8, <2>10, <3>1 DEF NamesOwn
  <2>13. \A b : b.run = r /\ FileOK(project, b, s, manifest) => FileOK(project, b, t, manifest')
    BY <2>1, <2>2, <2>3, <2>4 DEF FileOK, B
  <2> QED
    BY <2>1, <2>2, <2>11, <2>12, <2>13, FilesInvKept DEF s, t
<1>10. ASSUME NEW r \in DOMAIN run, SignArtifact(r)
       PROVE  FilesInv'
  <2> DEFINE s == run[r]
             t == run'[r]
             a == Art(r, s, TRUE)
             B == CurrentBundle(project, s)
  <2>1. UNCHANGED <<project, manifest>> /\ s.pc = "sign"
    BY <1>10 DEF SignArtifact, RunAt
  <2>2. /\ OthersStay(r) /\ t.pc = "seal" /\ SameBuild(t, s)
        /\ t.pending = s.pending /\ t.refs = s.refs
        /\ signedFile' = [f \in DOMAIN signedFile \cup {SignedPath(a)} |->
                            IF f = SignedPath(a) THEN a ELSE signedFile[f]]
    BY <1>10, SignArtifactEffect
  <2>3. t.card = s.card /\ t.loaded = s.loaded /\ t.files = s.files
    BY <2>2 DEF SameBuild, SameCall, SameInputs
  <2>4. CurrentBundle(project, t) = B /\ Art(r, t, TRUE) = a
    BY <2>2, <2>3 DEF CurrentBundle, Art
  <2>5. /\ DOMAIN signedFile' = DOMAIN signedFile \cup {SignedPath(a)}
        /\ signedFile'[SignedPath(a)] = a
        /\ \A f \in DOMAIN signedFile : f # SignedPath(a) => signedFile'[f] = signedFile[f]
    BY <2>2
  <2>6. project.runs[r].signs /\ Fits(B, a)
    BY <1>0, <2>1, HeadFits DEF Work
  <2>7. IsArtifact(a) /\ a.run = r /\ a.policy = s.card.id /\ a.signed
    BY DEF Art, IsArtifact
  <2>8. Track(project, r, s, signedFile, manifest)
    BY <1>0
  <2> HIDE DEF s, t, a
  <2>9. Track(project, r, t, signedFile', manifest')
    BY <2>1, <2>2, <2>3, <2>4, <2>5, <2>8 DEF Track, RefOK
  <2>10. \A b : FileOK(project, b, s, manifest) => FileOK(project, b, t, manifest')
    BY <2>1, <2>2, <2>3, <2>4 DEF FileOK
  <2>11. FileOK(project, a, t, manifest')
    BY <2>1, <2>2, <2>3, <2>4, <2>6, <2>7 DEF FileOK, Fits
  <2>12. \A f \in DOMAIN signedFile' :
           \/ f \in DOMAIN signedFile /\ signedFile'[f] = signedFile[f]
           \/ /\ f = SignedPath(signedFile'[f]) /\ signedFile'[f].run = r
              /\ FileOK(project, signedFile'[f], t, manifest')
    BY <2>5, <2>7, <2>11
  <2> QED
    BY <2>1, <2>2, <2>5, <2>9, <2>10, <2>12, FilesInvKept DEF s, t
<1>11. ASSUME NEW r \in DOMAIN run, StoreEnvelope(r)
       PROVE  FilesInv'
  <2> DEFINE s == run[r]
             t == run'[r]
             a == Art(r, s, TRUE)
             B == CurrentBundle(project, s)
  <2>1. UNCHANGED <<project, manifest, signedFile>> /\ s.pc = "seal"
    BY <1>11 DEF StoreEnvelope, RunAt
  <2>2. OthersStay(r) /\ Emits(t, s, s.refs \cup {a})
    BY <1>11, StoreEnvelopeEffect
  <2>3. /\ t.card = s.card /\ t.loaded = s.loaded /\ t.files = s.files
        /\ t.refs = s.refs \cup {a} /\ t.pc \in {"store", "plan", "next"}
    BY <2>2 DEF Emits, SameBuild, SameCall, SameInputs
  <2>4. CurrentBundle(project, t) = B
    BY <2>3 DEF CurrentBundle
  <2>5. Track(project, r, s, signedFile, manifest) /\ Work(project, r, s, stored)
    BY <1>0
  <2>6. RefOK(r, s.card.id, B, signedFile, a)
    <3>1. Fits(B, a) /\ SignedPath(a) \in DOMAIN signedFile
      BY <2>1, <2>5, HeadFits DEF Track
    <3>2. IsArtifact(a)
      BY DEF IsArtifact, Art
    <3> QED
      BY <3>1, <3>2 DEF RefOK, Art
  <2>7. t.pc = "next" =>
          \E m \in manifest : m.run = r /\ m.policy = s.card.id /\ m.bundle = B
    <3> SUFFICES ASSUME t.pc = "next"
                 PROVE  Head(s.pending)[1] = "policy_build_manifest"
      BY <2>1, <2>5 DEF Track
    <3>1. Tail(s.pending) = <<>> /\ Head(s.pending)[1] # "resolved_policy"
      BY <2>2 DEF Emits
    <3>2. s.pending # <<ResolvedPair>>
      BY <3>1 DEF ResolvedPair
    <3>3. Planned(project, r, s)
      BY <2>1, <2>5, <3>2 DEF Work
    <3> QED
      BY <3>1, <3>3, QueueHead DEF Planned
  <2>8. \A x \in s.refs : RefOK(r, s.card.id, B, signedFile, x)
    BY <2>1, <2>5 DEF Track
  <2> HIDE DEF s, t, a, B
  <2>9. Track(project, r, t, signedFile', manifest')
    BY <2>1, <2>3, <2>4, <2>5, <2>6, <2>8 DEF Track
  <2>10. \A b : b.run = r /\ FileOK(project, b, s, manifest) => FileOK(project, b, t, manifest')
    BY <2>1, <2>3, <2>4, <2>7 DEF FileOK, B
  <2> QED
    BY <2>1, <2>2, <2>9, <2>10, FilesInvKept DEF s, t
<1>12. ASSUME NEW r \in DOMAIN run, CompileDies(r)
       PROVE  FilesInv'
  BY <1>3, <1>12, FailsEffect DEF CompileDies
<1> QED
  BY <1>1, <1>2, <1>4, <1>5, <1>6, <1>7, <1>8, <1>9, <1>10, <1>11, <1>12 DEF BuildsNext, CompileStep

LEMMA AtMostOne ==
  ASSUME NEW S, IsFiniteSet(S), Cardinality(S) <= 1, NEW x \in S, NEW y \in S
  PROVE  x = y
<1>1. IsFiniteSet(S \ {x}) /\ Cardinality(S \ {x}) = Cardinality(S) - 1
  BY FS_RemoveElement
<1>2. Cardinality(S) \in Nat /\ Cardinality(S \ {x}) \in Nat
  BY <1>1, FS_CardinalityType
<1>3. S \ {x} = {}
  BY <1>1, <1>2, FS_EmptySet
<1> QED
  BY <1>3

\* After a run that no other run disturbed, the signed files are the ones its
\* manifests name, for a policy whose id is its own and that has one adapter.
THEOREM SignedFilesMatch == BuildsSpec => []FilesMatchManifests
<1>1. FilesInv => FilesMatchManifests
  <2> SUFFICES ASSUME FilesInv, NEW r \in DOMAIN run,
                      RunAt(r, "done"), \A q \in DOMAIN run \ {r} : RunAt(q, "load"),
                      NEW m \in manifest, m.run = r,
                      Cardinality(UsedAdapters(m.bundle)) <= 1,
                      \A x \in manifest : x.run = r /\ x.policy = m.policy => x = m,
                      NEW a \in m.refs, a.signed
               PROVE  signedFile[SignedPath(a)] = a
    BY DEF FilesMatchManifests
  <2> DEFINE b == signedFile[SignedPath(a)]
  <2>1. RefOK(m.run, m.policy, m.bundle, signedFile, a) /\ IsFiniteSet(UsedAdapters(m.bundle))
    BY DEF FilesInv, NamesOwn
  <2>2. SignedPath(a) \in DOMAIN signedFile
    BY <2>1 DEF RefOK
  <2>3. SignedPath(a) = SignedPath(b) /\ b.run \in DOMAIN run /\ FileOK(project, b, run[b.run], manifest)
    BY <2>2 DEF FilesInv
  <2> HIDE DEF b
  <2>4. b.run = r
    BY <2>3 DEF FileOK, RunAt
  <2>5. b.policy = a.policy /\ b.type = a.type /\ a.policy = m.policy /\ a.run = r
    BY <2>1, <2>3 DEF SignedPath, RefOK
  <2>6. b.adapter = a.adapter
    <3>1. CASE a.type # "adapter_manifest"
      BY <2>1, <2>3, <2>5, <3>1 DEF RefOK, Fits, FileOK
    <3>2. CASE a.type = "adapter_manifest"
      <4>1. PICK x \in manifest : /\ x.run = r /\ x.policy = m.policy
                                  /\ b.adapter \in UsedAdapters(x.bundle)
        BY <2>3, <2>4, <2>5, <3>2 DEF FileOK, RunAt
      <4>2. b.adapter \in UsedAdapters(m.bundle)
        BY <4>1
      <4>3. a.adapter \in UsedAdapters(m.bundle)
        BY <2>1, <3>2 DEF RefOK, Fits
      <4> QED
        BY <2>1, <4>2, <4>3, AtMostOne
    <3> QED
      BY <3>1, <3>2
  <2>7. IsArtifact(a) /\ IsArtifact(b) /\ b.signed
    BY <2>1, <2>3 DEF RefOK, FileOK
  <2>8. b = a
    BY <2>4, <2>5, <2>6, <2>7 DEF IsArtifact
  <2> QED
    BY <2>8 DEF b
<1>2. BuildsInit => BuildsInv /\ FilesInv
  BY BuildsInvInit, FilesInvInit
<1>3. BuildsInv /\ FilesInv /\ [BuildsNext]_buildVars => (BuildsInv /\ FilesInv)'
  BY BuildsInvStep, FilesInvStep
<1> QED
  BY <1>1, <1>2, <1>3, PTL DEF BuildsSpec
=============================================================================
