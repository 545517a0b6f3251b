-------------------------- MODULE MCForgeManagement -------------------------
(***************************************************************************)
(* An instance of ForgeManagement, of ManagedNode, of TrustBundles and of  *)
(* CIValidation for TLC.  A behaviour is one of any of them (part), and    *)
(* the variables of the others stay in an initial state.                   *)
(*                                                                         *)
(* ForgeManagement: the node enrolls as k1 in scope s1 or as k2 in scope   *)
(* s2.  Token t1 is for s1, t2 fits both.  The build is by alice, so that  *)
(* only bob can approve it, who is authorised in s1.  All requests but the *)
(* pulls, which change nothing that another request reads.  ManagedNode:   *)
(* from the state in which k1 is enrolled and the build approved, with the *)
(* requests for assignments, pulls among them.  TrustBundles: three keys,  *)
(* so that two rotations of one key can overlap.  CIValidation: the        *)
(* projects of MCBuilds.                                                   *)
(***************************************************************************)
EXTENDS ManagedNode, TrustBundles, MCBuilds, TLC

CONSTANTS w1, w2, t1, t2, k1, k2, b1, c1, c2

VARIABLE part

MCScopeOf == [k \in Kliqs |-> IF k = k1 THEN "s1" ELSE "s2"]

MCTokenScope == [t \in Tokens |-> IF t = t1 THEN "s1" ELSE None]

MCMay == [p \in Principals |-> IF p = "bob" THEN {"s1"} ELSE Scopes]

MCManifest == [b \in Builds |-> [author |-> "alice", ready |-> TRUE,
                                 traced |-> TRUE, actions |-> TRUE,
                                 outputs |-> Artifacts]]

MCMaterials == [key: {"p1", "p2"},
                purpose: {"assignment_verification", "artifact_verification"}]

\* c1 brings a bundle that expires, as a starting server does, and c2 another
\* key that does not expire; either may name the wrong purpose.
MCOffer == [c \in TrustCalls |->
              [material: {m \in MCMaterials : m.key = IF c = c1 THEN "p1" ELSE "p2"},
               status: {"active"}, expiresAt: {IF c = c1 THEN 1 ELSE 0}]]

MCSymmetry == Permutations(Workers) \cup Permutations(Keys)

\* An assignment without the bundle assigns no adapter, and as the second one it
\* is a rollback.
MCAdaptersOf == [d \in Contents |-> IF "runtime_bundle" \in d.artifacts
                                   THEN {"ad1"} ELSE {}]

MCRollback == {d \in Contents : d.version = 2 /\ "runtime_bundle" \notin d.artifacts}

MCExpiresAt == [d \in Contents |-> MaxTime + 1]

\* Node k1 is registered and the build approved for its scope.
Enrolled ==
  /\ token = [t \in Tokens |-> IF t = t1 THEN [used |-> TRUE, revoked |-> FALSE]
                               ELSE None]
  /\ registration = [k \in Kliqs |-> IF k = k1 THEN [status |-> "active", token |-> t1]
                                     ELSE None]
  /\ approvals = {[build |-> b1, by |-> "bob", scope |-> "s1"]}
  /\ assigned = [k \in Kliqs |-> {}]
  /\ served = [k \in Kliqs |-> 0]
  /\ request = [w \in Workers |-> Idle]

MCInit ==
  /\ part \in {"management", "node", "trust", "builds"}
  /\ IF part = "node" THEN Enrolled ELSE Init
  /\ NodeInit
  /\ TrustInit
  /\ BuildsInit /\ (part # "builds" => Runs = <<>>)

\* Builds may come to an end; the others go on for ever.
BuildsEnd ==
  /\ \A r \in DOMAIN run : run[r].pc \in {"done", "failed"}
  /\ UNCHANGED buildVars

MCNext ==
  /\ \/ /\ part = "management"
        /\ Next
        /\ UNCHANGED <<nodeVars, trustVars, buildVars>>
        /\ \A w \in Workers : request'[w].at # "latest"
     \/ /\ part = "node"
        /\ ManagedNext
        /\ UNCHANGED <<token, registration, approvals, trustVars, buildVars>>
        /\ \A w \in Workers : request'[w].at # "revoke_token"
     \/ /\ part = "trust"
        /\ TrustNext
        /\ UNCHANGED <<vars, nodeVars, buildVars>>
     \/ /\ part = "builds"
        /\ BuildsNext \/ BuildsEnd
        /\ UNCHANGED <<vars, nodeVars, trustVars>>
  /\ UNCHANGED part

MCSpec == MCInit /\ [][MCNext]_<<vars, nodeVars, trustVars, buildVars, part>>
=============================================================================
