------------------------ MODULE AssignmentActivation ------------------------
(***************************************************************************)
(* How a node follows the assignments Forge publishes for it:              *)
(* LoadManagedBundle (internal/kliq/runtime/manager.go) over the managed   *)
(* source (internal/kliq/bundle/managed_source.go) and the node's store,   *)
(* pollManagedAssignment and activateManagedArtifacts of the daemon        *)
(* (cmd/kliq/run.go), and the assignment store of Forge                    *)
(* (internal/forge/management).                                            *)
(*                                                                         *)
(* A load reads the active version and digest, asks Forge for the latest   *)
(* assignment, verifies it and then saves it in one transaction; Forge,    *)
(* the clock and other loads (`kliq load-managed-bundle' on the same state *)
(* file) act between these steps.  The daemon then builds its adapter      *)
(* registry from what is active.  The registry is memory: a restart begins *)
(* with the adapters of the command line, of which production has none.    *)
(*                                                                         *)
(* An assignment is identified by its digest.  What an assignment says     *)
(* never changes, so it is given by constants; the version is given to it  *)
(* when it is published.  The operators named Faulty... are not part of    *)
(* the model: each is the definition that follows it with a plausible      *)
(* mistake, and a property below is violated when it takes that            *)
(* definition's place.                                                     *)
(***************************************************************************)
EXTENDS Naturals

CONSTANTS
  Loaders,      \* processes that load assignments into the state file
  Digests,      \* assignments, by digest
  Adapters,     \* adapter ids
  AdaptersOf,   \* the adapters an assignment has adapter_assignments for
  ExpiresAt,    \* the expires_at of an assignment
  Rollback,     \* the assignments approved as a rollback
  Invalid,      \* those that fail verification: signature, key, scope, artifact
  Duplicated,   \* those with two artifacts of one type, as for two adapters
  Bootstrap,    \* the adapters named on the daemon's command line
  MaxVersion,   \* bound on the versions
  MaxTime,      \* bound on the clock
  MaxRestarts,  \* bound on the restarts of the daemon and of Forge
  None          \* no assignment

ASSUME ConstantsAssumption ==
  /\ "daemon" \in Loaders
  /\ AdaptersOf \in [Digests -> SUBSET Adapters]
  /\ ExpiresAt \in [Digests -> Nat]
  /\ Rollback \subseteq Digests
  /\ Invalid \subseteq Digests
  /\ Duplicated \subseteq Digests
  /\ Bootstrap \subseteq Adapters
  /\ MaxVersion \in Nat
  /\ MaxTime \in Nat
  /\ MaxRestarts \in Nat
  /\ None \notin Digests

VARIABLES
  now,          \* the clock
  version,      \* the version of each assignment, 0 until it is published
  stored,       \* the assignments in Forge's store
  revoked,      \* the assignments revoked at Forge
  active,       \* the node's store: the active assignment with its artifacts
  registry,     \* the adapter registry of the daemon
  loader,       \* the local state of each process
  restarts      \* the number of restarts so far

vars == <<now, version, stored, revoked, active, registry, loader, restarts>>

forgeVars == <<version, stored, revoked>>

Assignments == Digests \cup {None}

\* `base' is the active assignment the load began with, `cur' the one it got.
LoaderStates ==
  [pc: {"idle"}, base: {None}, cur: {None}]
    \cup [pc: {"fetch"}, base: Assignments, cur: {None}]
    \cup [pc: {"verify", "save", "activate"}, base: Assignments, cur: Digests]

Idle == [pc |-> "idle", base |-> None, cur |-> None]

VersionOf(d) == IF d = None THEN 0 ELSE version[d]

Init ==
  /\ now = 0
  /\ version = [d \in Digests |-> 0]
  /\ stored = {}
  /\ revoked = {}
  /\ active = None
  /\ registry = Bootstrap
  /\ loader = [p \in Loaders |-> Idle]
  /\ restarts = 0

-----------------------------------------------------------------------------
(* Forge.                                                                  *)

\* SaveAssignment: a new assignment has a higher version than the newest.
Publish(d, v) ==
  /\ version[d] = 0
  /\ \A e \in stored : v > version[e]
  /\ version' = [version EXCEPT ![d] = v]
  /\ stored' = stored \cup {d}
  /\ UNCHANGED <<now, revoked, active, registry, loader, restarts>>

RevokeAssignment(d) ==
  /\ d \in stored \ revoked
  /\ revoked' = revoked \cup {d}
  /\ UNCHANGED <<now, version, stored, active, registry, loader, restarts>>

\* Forge restarts with the in-memory store and has forgotten everything.
ForgeRestart ==
  /\ stored # {}
  /\ restarts < MaxRestarts
  /\ restarts' = restarts + 1
  /\ stored' = {}
  /\ UNCHANGED <<now, version, revoked, active, registry, loader>>

Newest(d) == d \in stored /\ \A e \in stored : version[e] <= version[d]

FaultyServed(d) == Newest(d)

\* LatestAssignment: the newest one, and none if that was revoked.
Served(d) == Newest(d) /\ d \notin revoked

-----------------------------------------------------------------------------
(* LoadManagedBundle.                                                      *)

At(p, pc) == loader[p].pc = pc

Goto(p, s) == loader' = [loader EXCEPT ![p] = s]

BeginLoad(p) ==
  /\ At(p, "idle")
  /\ Goto(p, [pc |-> "fetch", base |-> active, cur |-> None])
  /\ UNCHANGED <<now, forgeVars, active, registry, restarts>>

\* Forge answers with its latest assignment.
Fetch(p) ==
  /\ At(p, "fetch")
  /\ \E d \in Digests :
       /\ Served(d)
       /\ Goto(p, [pc |-> "verify", base |-> loader[p].base, cur |-> d])
  /\ UNCHANGED <<now, forgeVars, active, registry, restarts>>

FaultyAcceptable(d, base) == TRUE

\* ValidateKLIQAssignmentActivation, its last three cases.
Acceptable(d, base) ==
  \/ VersionOf(d) > VersionOf(base)
  \/ d = base
  \/ VersionOf(d) < VersionOf(base) /\ d \in Rollback

FaultyVerified(s) ==
  /\ s.cur \notin Invalid
  /\ now < ExpiresAt[s.cur]
  /\ s.cur = s.base \/ VersionOf(s.cur) = VersionOf(s.base) + 1

\* verifyAssignment and validateManagedAssignmentArtifacts.
Verified(s) ==
  /\ s.cur \notin Invalid
  /\ now < ExpiresAt[s.cur]
  /\ Acceptable(s.cur, s.base)

Verify(p) ==
  /\ At(p, "verify")
  /\ Verified(loader[p])
  /\ Goto(p, [loader[p] EXCEPT !.pc = "save"])
  /\ UNCHANGED <<now, forgeVars, active, registry, restarts>>

FaultySave(p) ==
  /\ At(p, "save")
  /\ loader[p].cur \notin Duplicated
  /\ active' = loader[p].cur
  /\ Goto(p, IF p = "daemon" /\ loader[p].cur # loader[p].base
             THEN [loader[p] EXCEPT !.pc = "activate"]
             ELSE Idle)
  /\ UNCHANGED <<now, forgeVars, registry, restarts>>

\* SaveManagedBundleActivation.  (The key of kliq_active_artifacts allows one
\* artifact of a type.)
Save(p) ==
  /\ At(p, "save")
  /\ loader[p].cur \notin Duplicated
  /\ active' = loader[p].cur
  /\ Goto(p, IF p = "daemon" THEN [loader[p] EXCEPT !.pc = "activate"] ELSE Idle)
  /\ UNCHANGED <<now, forgeVars, registry, restarts>>

\* A load fails: Forge cannot be reached or has no assignment, it is refused,
\* or the transaction is rolled back.  (managedPollFallback changes nothing.)
LoadFails(p) ==
  /\ \/ At(p, "fetch") \/ At(p, "save")
     \/ At(p, "verify") /\ ~Verified(loader[p])
  /\ Goto(p, Idle)
  /\ UNCHANGED <<now, forgeVars, active, registry, restarts>>

FaultyActivateArtifacts ==
  /\ At("daemon", "activate")
  /\ registry' = registry \cup AdaptersOf[active]
  /\ Goto("daemon", Idle)
  /\ UNCHANGED <<now, forgeVars, active, restarts>>

\* activateManagedArtifacts: an assignment without adapters leaves the registry
\* as it is.
ActivateArtifacts ==
  /\ At("daemon", "activate")
  /\ registry' = IF AdaptersOf[active] = {} THEN registry ELSE AdaptersOf[active]
  /\ Goto("daemon", Idle)
  /\ UNCHANGED <<now, forgeVars, active, restarts>>

\* The error is recorded as a finding; the next poll tries again.
ActivateFails ==
  /\ At("daemon", "activate")
  /\ Goto("daemon", Idle)
  /\ UNCHANGED <<now, forgeVars, active, registry, restarts>>

-----------------------------------------------------------------------------

DaemonRestart ==
  /\ restarts < MaxRestarts
  /\ restarts' = restarts + 1
  /\ registry' = Bootstrap
  /\ Goto("daemon", Idle)
  /\ UNCHANGED <<now, forgeVars, active>>

Tick ==
  /\ now < MaxTime
  /\ now' = now + 1
  /\ UNCHANGED <<forgeVars, active, registry, loader, restarts>>

Step(p) == Fetch(p) \/ Verify(p) \/ Save(p) \/ LoadFails(p)

Next ==
  \/ \E d \in Digests, v \in 1 .. MaxVersion : Publish(d, v)
  \/ \E d \in Digests : RevokeAssignment(d)
  \/ ForgeRestart
  \/ \E p \in Loaders : BeginLoad(p) \/ Step(p)
  \/ ActivateArtifacts
  \/ ActivateFails
  \/ DaemonRestart
  \/ Tick

Spec == Init /\ [][Next]_vars

(***************************************************************************)
(* Fairness.  The daemon polls again and again (polling is the task that   *)
(* is never starved, see DaemonLoop) and a poll goes on; the store and the *)
(* activation of the artifacts do not fail for ever; time passes.  Forge   *)
(* may be out of reach for ever in OutageSpec, not in AvailableSpec.       *)
(***************************************************************************)
OutageSpec ==
  /\ Spec
  /\ WF_vars(Tick)
  /\ WF_vars(BeginLoad("daemon"))
  /\ WF_vars(Step("daemon"))
  /\ SF_vars(Save("daemon"))
  /\ WF_vars(ActivateArtifacts \/ ActivateFails)
  /\ SF_vars(ActivateArtifacts)

AvailableSpec == OutageSpec /\ SF_vars(Fetch("daemon"))

-----------------------------------------------------------------------------
(* Properties.                                                             *)

\* Every variable keeps its type.
TypeOK ==
  /\ now \in 0 .. MaxTime
  /\ version \in [Digests -> 0 .. MaxVersion]
  /\ stored \subseteq Digests
  /\ revoked \subseteq Digests
  /\ active \in Assignments
  /\ registry \subseteq Adapters
  /\ loader \in [Loaders -> LoaderStates]
  /\ restarts \in 0 .. MaxRestarts

Fit(d) == version[d] > 0 /\ d \notin Invalid \cup Duplicated

\* What a node acts on comes from one assignment that was published, verified
\* and stored as a whole: neither the active assignment nor the adapters of the
\* daemon stem from a refused one, nor do two assignments mix in the registry.
ActsOnVerified ==
  /\ active # None => Fit(active)
  /\ registry = Bootstrap \/ \E d \in Digests : Fit(d) /\ registry = AdaptersOf[d]

\* The node does not have d, nor is an answer of Forge that holds it under way.
Without(d) == active # d /\ \A p \in Loaders : loader[p].cur # d

\* Once an assignment is revoked at Forge, a node that is without it stays
\* without it, also while Forge forgets and publishes assignments.
RevokedStaysOut ==
  [][\A d \in Digests : d \in revoked /\ Without(d) => Without(d)']_vars

\* The active assignment is only replaced by a newer one or by an approved
\* rollback, although its version was read before Forge was asked; unless
\* another process replaced it since, and the version compared is stale.
NoDowngrade ==
  [][active' # active =>
       \/ VersionOf(active') > VersionOf(active) \/ active' \in Rollback
       \/ \E p \in Loaders : /\ At(p, "save")
                             /\ loader[p].cur = active'
                             /\ loader[p].base # active]_vars

\* A valid assignment newer than the active one is activated, or the node is at
\* least as new, unless Forge withdraws or replaces it or it expires: neither
\* a refused assignment nor a restart blocks those that follow.
NewestIsActivated ==
  \A d \in Digests \ (Invalid \cup Duplicated) :
    (Served(d) /\ VersionOf(d) > VersionOf(active)) ~>
      (VersionOf(active) >= VersionOf(d) \/ ~Served(d) \/ now >= ExpiresAt[d])

\* The daemon comes to use the adapters of the active assignment, also after a
\* restart or a failed activation, as long as Forge serves the assignment.
ServedAssignmentIsUsed ==
  \A d \in {e \in Digests \ (Invalid \cup Duplicated) : AdaptersOf[e] # {}} :
    active = d ~> \/ registry = AdaptersOf[d]
                  \/ active # d \/ ~Served(d) \/ now >= ExpiresAt[d]

\* The daemon comes to use the adapters of the active assignment until it
\* expires, whether Forge can be reached or not.
AssignmentIsUsed ==
  \A d \in {e \in Digests : AdaptersOf[e] # {}} :
    active = d ~> registry = AdaptersOf[d] \/ active # d \/ now >= ExpiresAt[d]

=============================================================================
