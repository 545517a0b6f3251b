--------------------- MODULE AssignmentActivationProofs ---------------------
(***************************************************************************)
(* Theorems about AssignmentActivation, for every set of assignments,      *)
(* processes and adapters.                                                 *)
(*                                                                         *)
(* A process saves what it verified some steps ago.  What it knew then is  *)
(* still true when it saves: an assignment's content and, once published,  *)
(* its version do not change.  That the active assignment has not changed  *)
(* either, on which the comparison of versions rests, is only true when no *)
(* other process has saved one in between.                                 *)
(***************************************************************************)
EXTENDS AssignmentActivation, TLAPS

\* What a process knows of the assignment it holds.
Knows(s) ==
  /\ s.cur # None => version[s.cur] > 0
  /\ s.pc \in {"save", "activate"} => s.cur \notin Invalid

LoadersKnow == \A p \in Loaders : Knows(loader[p])

StoredIsPublished == \A d \in stored : version[d] > 0

IInv == TypeOK /\ StoredIsPublished /\ LoadersKnow /\ ActsOnVerified
          /\ (At("daemon", "activate") => active # None)

\* The invariant holds before anything is published.
LEMMA InvInit == Init => IInv
<1> SUFFICES ASSUME Init PROVE IInv
  OBVIOUS
<1>1. TypeOK
  BY ConstantsAssumption
  DEF Init, TypeOK, Idle, LoaderStates, Assignments
<1>2. StoredIsPublished /\ LoadersKnow /\ ActsOnVerified
  BY DEF Init, StoredIsPublished, LoadersKnow, Knows, ActsOnVerified, Idle
<1>3. ~At("daemon", "activate")
  BY ConstantsAssumption DEF Init, At, Idle
<1> QED BY <1>1, <1>2, <1>3 DEF IInv

\* A published assignment stays published, with its version.
LEMMA VersionsStay ==
  ASSUME TypeOK, [Next]_vars
  PROVE  /\ version' \in [Digests -> 0 .. MaxVersion]
         /\ \A d \in Digests : version[d] > 0 => version'[d] = version[d]
<1>1. ASSUME NEW d \in Digests, NEW v \in 1 .. MaxVersion, Publish(d, v)
      PROVE  /\ version' \in [Digests -> 0 .. MaxVersion]
             /\ \A e \in Digests : version[e] > 0 => version'[e] = version[e]
  BY <1>1, ConstantsAssumption DEF Publish, TypeOK
<1>2. CASE UNCHANGED version
  BY <1>2 DEF TypeOK
<1> QED BY <1>1, <1>2
  DEF Next, vars, forgeVars, RevokeAssignment, ForgeRestart, BeginLoad, Step,
      Fetch, Verify, Save, LoadFails, ActivateArtifacts, ActivateFails,
      DaemonRestart, Tick

\* A process takes a step to a state of a loader that knows what it holds.
LEMMA LoaderStep ==
  ASSUME IInv, [Next]_vars, NEW p \in Loaders, NEW s \in LoaderStates,
         loader' = [loader EXCEPT ![p] = s], Knows(s)'
  PROVE  loader' \in [Loaders -> LoaderStates] /\ LoadersKnow'
<1>1. loader \in [Loaders -> LoaderStates]
  BY DEF IInv, TypeOK
<1>2. loader' \in [Loaders -> LoaderStates]
  BY <1>1
<1>3. ASSUME NEW q \in Loaders PROVE Knows(loader[q])'
  <2>1. CASE q = p
    BY <1>1, <2>1 DEF Knows
  <2>2. CASE q # p
    <3> PICK r \in LoaderStates : r = loader[q]
      BY <1>1
    <3>1. loader'[q] = r
      BY <1>1, <2>2
    <3>2. Knows(r)
      BY DEF IInv, LoadersKnow
    <3>3. r.cur \in Digests \cup {None}
      BY DEF LoaderStates
    <3> QED BY <3>1, <3>2, <3>3, VersionsStay, ConstantsAssumption
        DEF Knows, IInv
  <2> QED BY <2>1, <2>2
<1> QED BY <1>2, <1>3 DEF LoadersKnow

\* A step that leaves the processes alone leaves them what they know.
LEMMA LoaderRests ==
  ASSUME IInv, [Next]_vars, UNCHANGED loader
  PROVE  loader' \in [Loaders -> LoaderStates] /\ LoadersKnow'
<1>1. loader \in [Loaders -> LoaderStates]
  BY DEF IInv, TypeOK
<1>2. ASSUME NEW q \in Loaders PROVE Knows(loader[q])'
  <2> PICK r \in LoaderStates : r = loader[q]
    BY <1>1
  <2>1. loader'[q] = r /\ Knows(r)
    BY DEF IInv, LoadersKnow
  <2>2. r.cur \in Digests \cup {None}
    BY DEF LoaderStates
  <2> QED BY <2>1, <2>2, VersionsStay, ConstantsAssumption DEF Knows, IInv
<1> QED BY <1>1, <1>2 DEF LoadersKnow

\* Every step keeps the types of the processes and what they know.
LEMMA LoadersStep ==
  ASSUME IInv, [Next]_vars
  PROVE  loader' \in [Loaders -> LoaderStates] /\ LoadersKnow'
<1> DEFINE Goal == loader' \in [Loaders -> LoaderStates] /\ LoadersKnow'
<1>a. loader \in [Loaders -> LoaderStates] /\ active \in Assignments
  BY DEF IInv, TypeOK
<1>b. Idle \in LoaderStates /\ Knows(Idle)'
  BY DEF Idle, LoaderStates, Knows
<1>1. ASSUME NEW p \in Loaders, loader' = [loader EXCEPT ![p] = Idle] PROVE Goal
  BY <1>1, <1>b, LoaderStep
<1>2. ASSUME NEW p \in Loaders, BeginLoad(p) PROVE Goal
  <2>1. PICK s \in LoaderStates :
          s = [pc |-> "fetch", base |-> active, cur |-> None]
    BY <1>a DEF LoaderStates
  <2>2. Knows(s)'
    BY <2>1 DEF Knows
  <2>3. loader' = [loader EXCEPT ![p] = s]
    BY <1>2, <2>1 DEF BeginLoad, Goto
  <2> QED BY <2>2, <2>3, LoaderStep
<1>3. ASSUME NEW p \in Loaders, Fetch(p) PROVE Goal
  <2>1. PICK d \in Digests :
          /\ Served(d)
          /\ Goto(p, [pc |-> "verify", base |-> loader[p].base, cur |-> d])
    BY <1>3 DEF Fetch
  <2>2. loader[p].base \in Assignments
    BY <1>a DEF LoaderStates, Assignments
  <2>3. PICK s \in LoaderStates :
          s = [pc |-> "verify", base |-> loader[p].base, cur |-> d]
    BY <2>2 DEF LoaderStates
  <2>4. version'[d] > 0
    BY <1>3, <2>1, ConstantsAssumption
    DEF Served, Newest, IInv, StoredIsPublished, Fetch, forgeVars
  <2>5. Knows(s)'
    BY <2>3, <2>4 DEF Knows
  <2>6. loader' = [loader EXCEPT ![p] = s]
    BY <2>1, <2>3 DEF Goto
  <2> QED BY <2>5, <2>6, LoaderStep
<1>4. ASSUME NEW p \in Loaders, NEW pc \in {"save", "activate"},
             loader[p].pc \in {"verify", "save"},
             loader[p].cur \notin Invalid,
             loader' = [loader EXCEPT ![p] = [loader[p] EXCEPT !.pc = pc]]
      PROVE  Goal
  <2> PICK r \in LoaderStates : r = loader[p]
    BY <1>a
  <2> DEFINE s == [r EXCEPT !.pc = pc]
  <2>1. s \in LoaderStates /\ s.pc = pc /\ s.cur = r.cur /\ r.cur \in Digests
    BY <1>4 DEF LoaderStates
  <2>2. version'[r.cur] > 0
    <3>1. version[r.cur] > 0
      BY <2>1, ConstantsAssumption DEF IInv, LoadersKnow, Knows
    <3> QED BY <2>1, <3>1, VersionsStay DEF IInv
  <2>3. Knows(s)'
    BY <1>4, <2>1, <2>2 DEF Knows
  <2> HIDE DEF s
  <2>4. loader' = [loader EXCEPT ![p] = s]
    BY <1>4 DEF s
  <2> QED BY <2>1, <2>3, <2>4, LoaderStep
<1>5. ASSUME NEW p \in Loaders, Verify(p) PROVE Goal
  BY <1>4, <1>5 DEF Verify, Verified, At, Goto
<1>6. ASSUME NEW p \in Loaders, Save(p) PROVE Goal
  <2>1. loader[p].cur \notin Invalid
    BY <1>6 DEF Save, At, IInv, LoadersKnow, Knows
  <2> QED BY <1>1, <1>4, <1>6, <2>1 DEF Save, At, Goto
<1>7. ASSUME NEW p \in Loaders, LoadFails(p) PROVE Goal
  BY <1>1, <1>7 DEF LoadFails, Goto
<1>8. ASSUME ActivateArtifacts \/ ActivateFails \/ DaemonRestart PROVE Goal
  BY <1>1, <1>8, ConstantsAssumption
  DEF ActivateArtifacts, ActivateFails, DaemonRestart, Goto
<1>9. ASSUME UNCHANGED loader PROVE Goal
  BY <1>9, LoaderRests
<1> HIDE DEF Goal
<1>10. ASSUME NEW p \in Loaders, Step(p) PROVE Goal
  BY <1>3, <1>5, <1>6, <1>7, <1>10 DEF Step
<1>11. ASSUME \/ \E d \in Digests, v \in 1 .. MaxVersion : Publish(d, v)
              \/ \E d \in Digests : RevokeAssignment(d)
              \/ ForgeRestart \/ Tick \/ UNCHANGED vars
       PROVE  Goal
  BY <1>9, <1>11 DEF Publish, RevokeAssignment, ForgeRestart, Tick, vars
<1>12. Goal
  BY <1>2, <1>8, <1>10, <1>11 DEF Next
<1> QED BY <1>12 DEF Goal

\* An assignment that is fit to act on stays so.
LEMMA FitStays ==
  ASSUME TypeOK, [Next]_vars, NEW d \in Digests, Fit(d)
  PROVE  Fit(d)'
<1>1. version'[d] = version[d]
  BY VersionsStay DEF Fit
<1> QED BY <1>1 DEF Fit

\* The active assignment changes only by a save, to one that is fit.
LEMMA ActiveStep ==
  ASSUME IInv, [Next]_vars
  PROVE  /\ active' \in Assignments
         /\ active' # None => Fit(active)'
         /\ active # None => active' # None
<1>1. ASSUME NEW p \in Loaders, Save(p)
      PROVE  active' \in Digests /\ Fit(active')
  <2> PICK r \in LoaderStates : r = loader[p]
    BY DEF IInv, TypeOK
  <2>1. r.pc = "save" /\ r.cur \in Digests \ Duplicated /\ active' = r.cur
    BY <1>1 DEF Save, At, LoaderStates
  <2>2. Knows(r)
    BY DEF IInv, LoadersKnow
  <2> QED BY <2>1, <2>2, ConstantsAssumption DEF Knows, Fit
<1>2. CASE \E p \in Loaders : Save(p)
  <2> PICK d \in Digests : d = active' /\ Fit(d)
    BY <1>1, <1>2
  <2>1. Fit(d)'
    BY FitStays DEF IInv
  <2> QED BY <2>1, ConstantsAssumption DEF Assignments, Fit
<1>3. CASE UNCHANGED active
  <2>1. CASE active = None
    BY <1>3, <2>1 DEF Assignments
  <2>2. CASE active # None
    <3> PICK d \in Digests : d = active /\ Fit(d)
      BY <2>2 DEF IInv, TypeOK, Assignments, ActsOnVerified
    <3>1. Fit(d)'
      BY FitStays DEF IInv
    <3> QED BY <1>3, <3>1, <2>2 DEF Assignments, Fit
  <2> QED BY <2>1, <2>2
<1> QED BY <1>2, <1>3
  DEF Next, vars, Step, Publish, RevokeAssignment, ForgeRestart, BeginLoad,
      Fetch, Verify, LoadFails, ActivateArtifacts, ActivateFails,
      DaemonRestart, Tick

\* The registry changes as a whole, to the adapters of the active assignment or,
\* by a restart, to those of the command line.
LEMMA RegistryStep ==
  ASSUME IInv, [Next]_vars
  PROVE  /\ registry' \subseteq Adapters
         /\ \/ registry' = Bootstrap
            \/ \E d \in Digests : Fit(d)' /\ registry' = AdaptersOf[d]
<1> DEFINE Goal == /\ registry' \subseteq Adapters
                   /\ \/ registry' = Bootstrap
                      \/ \E d \in Digests : Fit(d)' /\ registry' = AdaptersOf[d]
<1>1. ASSUME UNCHANGED registry PROVE Goal
  <2>1. CASE registry = Bootstrap
    BY <1>1, <2>1, ConstantsAssumption
  <2>2. ASSUME NEW d \in Digests, Fit(d), registry = AdaptersOf[d] PROVE Goal
    <3>1. Fit(d)'
      BY <2>2, FitStays DEF IInv
    <3> QED BY <1>1, <2>2, <3>1, ConstantsAssumption
  <2> QED BY <2>1, <2>2 DEF IInv, ActsOnVerified
<1>2. ASSUME ActivateArtifacts, AdaptersOf[active] # {} PROVE Goal
  <2> PICK d \in Digests : d = active /\ Fit(d)
    BY <1>2 DEF ActivateArtifacts, IInv, TypeOK, Assignments, ActsOnVerified
  <2>1. Fit(d)'
    BY FitStays DEF IInv
  <2>2. registry' = AdaptersOf[d]
    BY <1>2 DEF ActivateArtifacts
  <2> QED BY <2>1, <2>2, ConstantsAssumption
<1>3. ASSUME DaemonRestart PROVE Goal
  BY <1>3, ConstantsAssumption DEF DaemonRestart
<1> HIDE DEF Goal
<1>4. ASSUME ActivateArtifacts PROVE Goal
  BY <1>1, <1>2, <1>4 DEF ActivateArtifacts
<1>5. Goal
  BY <1>1, <1>3, <1>4
  DEF Next, vars, Step, Publish, RevokeAssignment, ForgeRestart, BeginLoad,
      Fetch, Verify, Save, LoadFails, ActivateFails, Tick
<1> QED BY <1>5 DEF Goal

\* The assignments in Forge's store are published ones.
LEMMA ForgeStep ==
  ASSUME IInv, [Next]_vars
  PROVE  /\ StoredIsPublished'
         /\ stored' \subseteq Digests
         /\ revoked' \subseteq Digests
<1>1. ASSUME NEW d \in Digests, NEW v \in 1 .. MaxVersion, Publish(d, v)
      PROVE  /\ StoredIsPublished'
             /\ stored' \subseteq Digests
             /\ revoked' \subseteq Digests
  BY <1>1, ConstantsAssumption
  DEF Publish, IInv, TypeOK, StoredIsPublished
<1>2. CASE (\E d \in Digests : RevokeAssignment(d)) \/ ForgeRestart
  BY <1>2
  DEF RevokeAssignment, ForgeRestart, IInv, TypeOK, StoredIsPublished
<1>3. CASE UNCHANGED forgeVars
  BY <1>3 DEF forgeVars, IInv, TypeOK, StoredIsPublished
<1> QED BY <1>1, <1>2, <1>3
  DEF Next, vars, forgeVars, Step, BeginLoad, Fetch, Verify, Save, LoadFails,
      ActivateArtifacts, ActivateFails, DaemonRestart, Tick

\* The clock and the number of restarts keep to their bounds.
LEMMA CountersStep ==
  ASSUME TypeOK, [Next]_vars
  PROVE  now' \in 0 .. MaxTime /\ restarts' \in 0 .. MaxRestarts
<1>1. CASE Tick \/ DaemonRestart \/ ForgeRestart
  BY <1>1, ConstantsAssumption DEF Tick, DaemonRestart, ForgeRestart, TypeOK
<1>2. CASE UNCHANGED <<now, restarts>>
  BY <1>2 DEF TypeOK
<1> QED BY <1>1, <1>2
  DEF Next, vars, forgeVars, Step, Publish, RevokeAssignment, BeginLoad, Fetch,
      Verify, Save, LoadFails, ActivateArtifacts, ActivateFails

\* The daemon activates the artifacts of an assignment after it has saved one.
LEMMA ActivateStep ==
  ASSUME IInv, [Next]_vars, At("daemon", "activate")'
  PROVE  active' # None
<1>a. loader \in [Loaders -> LoaderStates]
  BY DEF IInv, TypeOK
<1>1. CASE At("daemon", "activate")
  BY <1>1, ActiveStep DEF IInv
<1>2. CASE ~At("daemon", "activate")
  <2>1. ASSUME NEW p \in Loaders, Save(p) PROVE active' # None
    BY <1>a, <2>1, ConstantsAssumption DEF Save, At, LoaderStates
  <2>2. ASSUME NEW p \in Loaders, BeginLoad(p) \/ Fetch(p) \/ LoadFails(p)
        PROVE  FALSE
    BY <1>a, <1>2, <2>2, ConstantsAssumption
    DEF BeginLoad, Fetch, LoadFails, Goto, At, Idle
  <2>3. ASSUME NEW p \in Loaders, Verify(p) PROVE FALSE
    <3>1. CASE p = "daemon"
      <4> PICK r \in LoaderStates : r = loader[p]
        BY <1>a
      <4>1. [r EXCEPT !.pc = "save"].pc = "save"
        BY DEF LoaderStates
      <4> QED BY <1>a, <2>3, <3>1, <4>1 DEF Verify, Goto, At
    <3>2. CASE p # "daemon"
      BY <1>a, <1>2, <2>3, <3>2 DEF Verify, Goto, At
    <3> QED BY <3>1, <3>2
  <2>4. ~(ActivateArtifacts \/ ActivateFails \/ DaemonRestart)
    BY <1>a, ConstantsAssumption
    DEF ActivateArtifacts, ActivateFails, DaemonRestart, Goto, At, Idle
  <2>5. loader' # loader
    BY <1>2 DEF At
  <2> QED BY <2>1, <2>2, <2>3, <2>4, <2>5
    DEF Next, vars, Step, Publish, RevokeAssignment, ForgeRestart, Tick
<1> QED BY <1>1, <1>2

\* Every step preserves the invariant.
LEMMA InvStep == IInv /\ [Next]_vars => IInv'
<1> SUFFICES ASSUME IInv, [Next]_vars PROVE IInv'
  OBVIOUS
<1>1. TypeOK'
  BY LoadersStep, VersionsStay, ActiveStep, RegistryStep, ForgeStep, CountersStep
  DEF TypeOK, IInv
<1>2. ActsOnVerified'
  BY ActiveStep, RegistryStep DEF ActsOnVerified
<1>3. (At("daemon", "activate") => active # None)'
  BY ActivateStep
<1> QED BY <1>1, <1>2, <1>3, LoadersStep, ForgeStep DEF IInv

\* The inductive invariant holds in every reachable state.
THEOREM Invariance == Spec => []IInv
BY InvInit, InvStep, PTL DEF Spec

\* Every variable keeps its type (TypeOK).
THEOREM TypeCorrect == Spec => []TypeOK
<1>1. IInv => TypeOK
  BY DEF IInv
<1> QED BY <1>1, Invariance, PTL

\* However many processes load assignments and wherever the daemon or Forge
\* restarts, the node acts on one published and verified assignment as a whole
\* (ActsOnVerified): SaveManagedBundleActivation and activateManagedArtifacts
\* never see one that was refused.
THEOREM NodeActsOnVerified == Spec => []ActsOnVerified
<1>1. IInv => ActsOnVerified
  BY DEF IInv
<1> QED BY <1>1, Invariance, PTL

-----------------------------------------------------------------------------
(* Revoked assignments.                                                    *)

\* A node that is without a revoked assignment stays without it
\* (RevokedStaysOut): LatestAssignment does not hand it out again, and
\* SaveManagedBundleActivation stores only what it has handed out.
THEOREM RevokedIsNotActivated == Spec => RevokedStaysOut
<1>1. IInv /\ [Next]_vars =>
        [\A d \in Digests : d \in revoked /\ Without(d) => Without(d)']_vars
  <2> SUFFICES ASSUME IInv, [Next]_vars, NEW d \in Digests, d \in revoked, Without(d)
               PROVE  Without(d)'
    OBVIOUS
  <2>a. loader \in [Loaders -> LoaderStates]
    BY DEF IInv, TypeOK
  <2>b. ASSUME NEW p \in Loaders, NEW s \in LoaderStates, s.cur # d,
               loader' = [loader EXCEPT ![p] = s], UNCHANGED active
        PROVE  Without(d)'
    BY <2>a, <2>b DEF Without
  <2>c. Idle \in LoaderStates /\ Idle.cur # d
    BY ConstantsAssumption DEF Idle, LoaderStates
  <2>1. ASSUME NEW p \in Loaders, loader' = [loader EXCEPT ![p] = Idle],
               UNCHANGED active
        PROVE  Without(d)'
    BY <2>1, <2>b, <2>c
  <2>2. ASSUME NEW p \in Loaders, BeginLoad(p) PROVE Without(d)'
    BY <2>2, <2>a, ConstantsAssumption DEF BeginLoad, Goto, Without
  <2>3. ASSUME NEW p \in Loaders, Fetch(p) PROVE Without(d)'
    BY <2>3, <2>a DEF Fetch, Served, Goto, Without
  <2>4. ASSUME NEW p \in Loaders, Verify(p) \/ Save(p) PROVE Without(d)'
    <3> PICK r \in LoaderStates : r = loader[p]
      BY <2>a
    <3>1. r.cur # d /\ \A c \in {"save", "activate"} : [r EXCEPT !.pc = c].cur = r.cur
      BY DEF Without, LoaderStates
    <3>2. active' # d
      BY <2>4, <3>1 DEF Verify, Save, Without
    <3>3. ASSUME NEW q \in Loaders PROVE loader'[q].cur # d
      BY <2>a, <2>c, <2>4, <3>1 DEF Verify, Save, Goto, Without
    <3> QED BY <3>2, <3>3 DEF Without
  <2>5. ASSUME NEW p \in Loaders, LoadFails(p) PROVE Without(d)'
    BY <2>1, <2>5 DEF LoadFails, Goto
  <2>6. ASSUME ActivateArtifacts \/ ActivateFails \/ DaemonRestart
        PROVE  Without(d)'
    BY <2>1, <2>6, ConstantsAssumption
    DEF ActivateArtifacts, ActivateFails, DaemonRestart, Goto
  <2>7. ASSUME UNCHANGED <<active, loader>> PROVE Without(d)'
    BY <2>7 DEF Without
  <2> QED BY <2>2, <2>3, <2>4, <2>5, <2>6, <2>7
    DEF Next, vars, Step, Publish, RevokeAssignment, ForgeRestart, Tick
<1> QED BY <1>1, Invariance, PTL DEF Spec, RevokedStaysOut

-----------------------------------------------------------------------------
(* Versions.                                                               *)

\* What a process compared when it verified the assignment it now saves.
Compared(s) ==
  /\ s.base # None => version[s.base] > 0
  /\ s.pc = "save" => Acceptable(s.cur, s.base)

LoadersCompared == \A p \in Loaders : Compared(loader[p])

\* The comparison of two published assignments does not change.
LEMMA ComparedStays ==
  ASSUME IInv, [Next]_vars, NEW s \in LoaderStates, Knows(s), Compared(s)
  PROVE  Compared(s)'
<1>1. s.base \in Assignments /\ (s.pc = "save" => s.cur \in Digests)
  BY DEF LoaderStates, Assignments
<1>2. s.base # None => s.base \in Digests /\ version'[s.base] = version[s.base]
  BY <1>1, VersionsStay DEF IInv, Compared, Assignments
<1>3. s.pc = "save" => version'[s.cur] = version[s.cur]
  BY <1>1, VersionsStay, ConstantsAssumption DEF IInv, Knows
<1> QED BY <1>1, <1>2, <1>3, ConstantsAssumption
  DEF Compared, Acceptable, VersionOf

\* Every step keeps what the processes have compared.
LEMMA ComparedStep ==
  ASSUME IInv, LoadersCompared, [Next]_vars
  PROVE  LoadersCompared'
<1> SUFFICES ASSUME NEW q \in Loaders PROVE Compared(loader[q])'
  BY DEF LoadersCompared
<1> DEFINE Goal == Compared(loader[q])'
<1>a. loader \in [Loaders -> LoaderStates]
  BY DEF IInv, TypeOK
<1>b. PICK r \in LoaderStates : r = loader[q]
  BY <1>a
<1>c. Knows(r) /\ Compared(r) /\ Compared(r)'
  BY <1>b, ComparedStays DEF IInv, LoadersKnow, LoadersCompared
<1>1. ASSUME loader'[q] = r PROVE Goal
  BY <1>1, <1>c DEF Compared
<1>2. ASSUME NEW p \in Loaders, NEW s, q # p, Goto(p, s) PROVE Goal
  BY <1>1, <1>2, <1>a, <1>b DEF Goto
<1>3. ASSUME loader'[q] = Idle PROVE Goal
  BY <1>3 DEF Idle, Compared
<1>4. ASSUME BeginLoad(q) PROVE Goal
  <2>1. active # None => version'[active] > 0
    BY VersionsStay DEF IInv, TypeOK, Assignments, ActsOnVerified, Fit
  <2> QED BY <1>4, <1>a, <2>1 DEF BeginLoad, Goto, Compared
<1>5. ASSUME Fetch(q) PROVE Goal
  <2>1. loader'[q].base = r.base /\ loader'[q].pc = "verify"
    BY <1>5, <1>a, <1>b DEF Fetch, Goto
  <2> QED BY <1>c, <2>1 DEF Compared
<1>6. ASSUME Verify(q) PROVE Goal
  <2>1. loader'[q] = [r EXCEPT !.pc = "save"] /\ UNCHANGED version
    BY <1>6, <1>a, <1>b DEF Verify, Goto, forgeVars
  <2>2. loader'[q].base = r.base /\ loader'[q].cur = r.cur
    BY <2>1 DEF LoaderStates
  <2>3. Acceptable(r.cur, r.base)'
    BY <1>6, <1>b, <2>1 DEF Verify, Verified, Acceptable, VersionOf
  <2> QED BY <1>c, <2>2, <2>3 DEF Compared, Acceptable, VersionOf
<1>7. ASSUME Save(q) PROVE Goal
  <2>1. loader'[q] = [r EXCEPT !.pc = "activate"] \/ loader'[q] = Idle
    BY <1>7, <1>a, <1>b DEF Save, Goto
  <2>2. [r EXCEPT !.pc = "activate"].base = r.base
          /\ [r EXCEPT !.pc = "activate"].pc = "activate"
    BY DEF LoaderStates
  <2> QED BY <1>3, <1>c, <2>1, <2>2 DEF Compared
<1> HIDE DEF Goal
<1>8. ASSUME NEW p \in Loaders, BeginLoad(p) \/ Step(p) PROVE Goal
  <2>1. CASE q # p
    BY <1>2, <1>8, <2>1 DEF BeginLoad, Step, Fetch, Verify, Save, LoadFails
  <2>2. CASE q = p
    BY <1>3, <1>4, <1>5, <1>6, <1>7, <1>8, <1>a, <2>2 DEF Step, LoadFails, Goto
  <2> QED BY <2>1, <2>2
<1>9. ASSUME ActivateArtifacts \/ ActivateFails \/ DaemonRestart PROVE Goal
  BY <1>2, <1>3, <1>9, <1>a, ConstantsAssumption
  DEF ActivateArtifacts, ActivateFails, DaemonRestart, Goto
<1>10. ASSUME UNCHANGED loader PROVE Goal
  BY <1>1, <1>10, <1>b
<1>11. Goal
  BY <1>8, <1>9, <1>10
  DEF Next, vars, Publish, RevokeAssignment, ForgeRestart, Tick
<1> QED BY <1>11 DEF Goal

\* Only a save changes the active assignment.
LEMMA OnlySaveActivates ==
  ASSUME [Next]_vars, active' # active
  PROVE  \E p \in Loaders : Save(p)
BY DEF Next, vars, Step, Publish, RevokeAssignment, ForgeRestart, BeginLoad,
       Fetch, Verify, LoadFails, ActivateArtifacts, ActivateFails,
       DaemonRestart, Tick

\* However many processes load assignments, LoadManagedBundle replaces the
\* active one only by a newer one or an approved rollback, unless another
\* process has replaced the one it compared with (NoDowngrade).
THEOREM DowngradeOnlyWhenOvertaken == Spec => NoDowngrade
<1>1. Init => LoadersCompared
  <2> SUFFICES ASSUME Init, NEW p \in Loaders PROVE Compared(loader[p])
    BY DEF LoadersCompared
  <2>1. loader[p].pc = "idle" /\ loader[p].base = None
    BY DEF Init, Idle
  <2> QED BY <2>1 DEF Compared
<1>2. IInv /\ LoadersCompared /\ [Next]_vars => LoadersCompared'
  BY ComparedStep
<1>3. IInv /\ LoadersCompared /\ [Next]_vars =>
        [active' # active =>
           \/ VersionOf(active') > VersionOf(active) \/ active' \in Rollback
           \/ \E p \in Loaders : /\ At(p, "save")
                                 /\ loader[p].cur = active'
                                 /\ loader[p].base # active]_vars
  <2> SUFFICES ASSUME IInv, LoadersCompared, [Next]_vars, active' # active
               PROVE  \/ VersionOf(active') > VersionOf(active)
                      \/ active' \in Rollback
                      \/ \E p \in Loaders : /\ At(p, "save")
                                            /\ loader[p].cur = active'
                                            /\ loader[p].base # active
    OBVIOUS
  <2>1. PICK p \in Loaders : Save(p)
    BY OnlySaveActivates
  <2>2. At(p, "save") /\ active' = loader[p].cur
    BY <2>1 DEF Save
  <2>3. Acceptable(active', loader[p].base)
    BY <2>2 DEF LoadersCompared, Compared, At
  <2> QED BY <2>2, <2>3 DEF Acceptable
<1> QED BY <1>1, <1>2, <1>3, Invariance, PTL DEF Spec, NoDowngrade

-----------------------------------------------------------------------------
(* One loader.                                                             *)

\* While a load is under way, what it has read as the active assignment still
\* is the active one, and it saves only what was acceptable after it.
Fresh(s) ==
  /\ s.pc \in {"fetch", "verify", "save"} => s.base = active
  /\ s.pc = "save" => Acceptable(s.cur, active)

DaemonFresh == Fresh(loader["daemon"])

\* What is acceptable after the active assignment stays so: both are published.
LEMMA AcceptableStays ==
  ASSUME IInv, [Next]_vars, UNCHANGED active,
         NEW d \in Digests, version[d] > 0, Acceptable(d, active)
  PROVE  Acceptable(d, active)'
<1>1. version'[d] = version[d]
  BY VersionsStay DEF IInv
<1>2. active # None => version'[active] = version[active]
  BY VersionsStay DEF IInv, TypeOK, Assignments, ActsOnVerified, Fit
<1> QED BY <1>1, <1>2, ConstantsAssumption DEF Acceptable, VersionOf

\* If nobody else loads assignments, every step keeps the daemon's load fresh.
LEMMA FreshStep ==
  ASSUME Loaders = {"daemon"}, IInv, DaemonFresh, [Next]_vars
  PROVE  DaemonFresh'
<1>a. loader \in [Loaders -> LoaderStates]
  BY DEF IInv, TypeOK
<1>b. PICK r \in LoaderStates : r = loader["daemon"]
  BY <1>a, ConstantsAssumption
<1>c. Fresh(r) /\ Knows(r)
  BY <1>b, ConstantsAssumption DEF DaemonFresh, IInv, LoadersKnow
<1>1. CASE UNCHANGED <<loader, active>>
  <2>1. r.pc = "save" => Acceptable(r.cur, active)'
    BY <1>1, <1>b, <1>c, ConstantsAssumption, AcceptableStays
    DEF Fresh, Knows, LoaderStates
  <2> QED BY <1>1, <1>b, <1>c, <2>1 DEF DaemonFresh, Fresh
<1>2. CASE Goto("daemon", Idle)
  BY <1>a, <1>2, ConstantsAssumption DEF Goto, Idle, DaemonFresh, Fresh
<1>3. CASE BeginLoad("daemon")
  BY <1>a, <1>3, ConstantsAssumption DEF BeginLoad, Goto, DaemonFresh, Fresh
<1>4. CASE Fetch("daemon")
  BY <1>a, <1>b, <1>c, <1>4, ConstantsAssumption
  DEF Fetch, At, Goto, DaemonFresh, Fresh
<1>5. CASE Verify("daemon")
  <2>1. r.pc = "verify" /\ r.cur \in Digests /\ version[r.cur] > 0
    BY <1>5, <1>b, <1>c, ConstantsAssumption DEF Verify, At, LoaderStates, Knows
  <2>2. UNCHANGED active /\ r.base = active /\ Acceptable(r.cur, active)
    BY <1>5, <1>b, <1>c, <2>1 DEF Verify, Verified, Fresh
  <2>3. Acceptable(r.cur, active)'
    BY <2>1, <2>2, AcceptableStays
  <2>4. loader'["daemon"] = [r EXCEPT !.pc = "save"]
    BY <1>5, <1>a, <1>b, ConstantsAssumption DEF Verify, Goto
  <2>5. /\ loader'["daemon"].pc = "save"
        /\ loader'["daemon"].base = r.base
        /\ loader'["daemon"].cur = r.cur
    BY <2>4 DEF LoaderStates
  <2> QED BY <2>2, <2>3, <2>5 DEF DaemonFresh, Fresh
<1>6. CASE Save("daemon")
  <2>1. loader'["daemon"] = [r EXCEPT !.pc = "activate"]
    BY <1>6, <1>a, <1>b, ConstantsAssumption DEF Save, Goto
  <2>2. loader'["daemon"].pc = "activate"
    BY <2>1 DEF LoaderStates
  <2> QED BY <2>2 DEF DaemonFresh, Fresh
<1> QED BY <1>1, <1>2, <1>3, <1>4, <1>5, <1>6
  DEF Next, vars, Step, Publish, RevokeAssignment, ForgeRestart, LoadFails,
      ActivateArtifacts, ActivateFails, DaemonRestart, Tick

\* The active assignment is only replaced by a newer one or a rollback.
NeverOlder ==
  [][active' # active =>
       VersionOf(active') > VersionOf(active) \/ active' \in Rollback]_vars

\* If only the daemon loads assignments, it replaces the active one only by a
\* newer one or by an approved rollback, whatever happens between, although LoadManagedBundle
\* reads the active version before it asks Forge and saves some steps later.
THEOREM DaemonNeverDowngrades ==
  ASSUME Loaders = {"daemon"}
  PROVE  Spec => NeverOlder
<1>1. Init => DaemonFresh
  BY ConstantsAssumption DEF Init, Idle, DaemonFresh, Fresh
<1>2. IInv /\ DaemonFresh /\ [Next]_vars => DaemonFresh'
  BY FreshStep
<1>3. IInv /\ DaemonFresh /\ [Next]_vars =>
        [active' # active =>
           VersionOf(active') > VersionOf(active) \/ active' \in Rollback]_vars
  <2> SUFFICES ASSUME IInv, DaemonFresh, [Next]_vars, active' # active
               PROVE  VersionOf(active') > VersionOf(active) \/ active' \in Rollback
    OBVIOUS
  <2>1. Save("daemon")
    BY OnlySaveActivates
  <2>2. Acceptable(active', active)
    BY <2>1 DEF Save, At, DaemonFresh, Fresh
  <2> QED BY <2>2 DEF Acceptable
<1> QED BY <1>1, <1>2, <1>3, Invariance, PTL DEF Spec, NeverOlder
=============================================================================
