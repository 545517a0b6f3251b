---------------------------- MODULE ManagedNode ----------------------------
(***************************************************************************)
(* One node and the Forge that manages it: ForgeManagement with the        *)
(* processes that load the node's assignment and activate it.              *)
(*                                                                         *)
(* AssignmentActivation says what the node does and assumes a simple Forge *)
(* that publishes, revokes and serves assignments, each in one step.  Here *)
(* the answers come from the handlers of ForgeManagement and its table     *)
(* kliq_assignments, written by planners that overlap.  View says how the  *)
(* simple Forge is seen in that table; ImplementsActivation that nothing   *)
(* else can be seen.                                                       *)
(***************************************************************************)
EXTENDS ForgeManagement

CONSTANTS
  Node,         \* the node, by its kliq_id
  Loaders,      \* the constants of AssignmentActivation; the contents of an
  Adapters,     \* assignment stand for the digest of its envelope
  AdaptersOf,
  ExpiresAt,
  Rollback,
  Invalid,
  Duplicated,
  Bootstrap,
  MaxTime,
  MaxRestarts

\* What is signed as an assignment, which a revocation does not change.
Contents == [version : 1 .. MaxVersion, build : Builds, artifacts : SUBSET Artifacts]

VARIABLES
  now,          \* the variables of AssignmentActivation at the node
  active,
  registry,
  loader,
  restarts

nodeVars == <<now, active, registry, loader, restarts>>

ContentsOf(a) == [version |-> a.version, build |-> a.build, artifacts |-> a.artifacts]

Published == {ContentsOf(a) : a \in assigned[Node]}

Withdrawn == {ContentsOf(a) : a \in {b \in assigned[Node] : b.revoked}}

View == INSTANCE AssignmentActivation WITH
          Digests <- Contents,
          version <- [d \in Contents |-> IF d \in Published THEN d.version ELSE 0],
          stored  <- Published,
          revoked <- Withdrawn

\* The constants are as AssignmentActivation takes them to be.
ASSUME NodeAssumption == Node \in Kliqs /\ View!ConstantsAssumption

NodeInit ==
  /\ now = 0
  /\ active = None
  /\ registry = Bootstrap
  /\ loader = [p \in Loaders |-> View!Idle]
  /\ restarts = 0

ManagedInit == Init /\ NodeInit

-----------------------------------------------------------------------------
\* The answer of LatestAssignment, an envelope, reaches the process that asked.
\* An answer that is lost or finds nothing is a step of Forge; for the process,
\* LoadFails.
Fetch(w, p) ==
  /\ LatestAssignment(w)
  /\ request[w].kliq = Node
  /\ loader[p].pc = "fetch"
  /\ \E a \in Servable(Node) :
       /\ served'[Node] = a.version
       /\ loader' = [loader EXCEPT ![p] = [pc |-> "verify", base |-> @.base,
                                           cur |-> ContentsOf(a)]]
  /\ UNCHANGED <<now, active, registry, restarts>>

\* The node goes on by itself.
NodeStep ==
  \/ \E p \in Loaders : \/ View!BeginLoad(p) \/ View!Verify(p)
                        \/ View!Save(p) \/ View!LoadFails(p)
  \/ View!ActivateArtifacts \/ View!ActivateFails
  \/ View!DaemonRestart
  \/ View!Tick

ManagedNext ==
  \/ Next /\ UNCHANGED nodeVars
  \/ \E w \in Workers, p \in Loaders : Fetch(w, p)
  \/ UNCHANGED vars /\ NodeStep

ManagedSpec == ManagedInit /\ [][ManagedNext]_<<vars, nodeVars>>

-----------------------------------------------------------------------------
(* Properties. *)

\* Forge's handlers and the node together do what AssignmentActivation says of
\* the node and of a Forge that does everything in one step: what is published
\* has a higher version than all before and stays as it is, and the answer to
\* a node is the newest assignment or none.  That is View!Spec; a step that
\* leaves kliq_assignments and the node alone is a stutter of it.
ImplementsActivation ==
  /\ View!Init
  /\ [][UNCHANGED <<assigned, nodeVars>> \/ [View!Next]_(View!vars)]_<<assigned, nodeVars>>

\* Of what the node may act on.
Sanctioned(d) == d \in Published /\ Approved(Node, d.build, d.artifacts)

\* Every assignment in kliq_assignments rests on an approval for its node's scope
\* by somebody other than the author of the build, and so does all that the node
\* acts on: its active assignment, and the adapters that its daemon runs.
ActsOnApproved ==
  /\ PublishedIsApproved
  /\ active # None => Sanctioned(active)
  /\ registry = Bootstrap
       \/ \E d \in Published : Sanctioned(d) /\ registry = AdaptersOf[d]
=============================================================================
