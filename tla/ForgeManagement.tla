-------------------------- MODULE ForgeManagement --------------------------
(***************************************************************************)
(* Forge's management of nodes over the Postgres store: enrollment tokens, *)
(* registrations, approved builds and assignments.  The handlers of the    *)
(* HTTP API run concurrently, each in a worker, and every call they make   *)
(* on the store is a step.  UseEnrollmentToken, Register and the insertion *)
(* of SaveAssignment are transactions; everything else reads first and     *)
(* writes later without a lock.                                            *)
(*                                                                         *)
(* A request that is refused before it has written anything changes        *)
(* nothing and is no step: a caller without the role, a node that is not   *)
(* registered, a token that has expired.  Expiry only ever turns a request *)
(* into such a refusal, so the time is left out.  A scope stands for       *)
(* environment, stage and scope of a request.                              *)
(***************************************************************************)
EXTENDS Integers, FiniteSets

CONSTANTS
  Workers,     \* requests that Forge serves at a time
  Tokens,      \* ids of enrollment tokens
  Kliqs,       \* ids of nodes: StableKLIQID of node and scope
  Scopes,
  Principals,  \* who may approve builds
  Builds,      \* build manifests that await review
  ScopeOf,     \* the scope each node enrolls in
  TokenScope,  \* the scope of a token, or None: it fits every scope
  May,         \* the scopes a principal is authorised in
  Manifest,    \* what a build manifest says
  None,
  MaxVersion   \* bound on assignment versions

\* What can be assigned of a build: its bundle and the manifest of its adapter.
\* Other types are checked like a bundle that needs no adapter.
Artifacts == {"runtime_bundle", "adapter_manifest"}

Manifests == [author  : Principals,
              ready   : BOOLEAN,   \* complete, with digests that agree
              traced  : BOOLEAN,   \* names bindings and actions it rests on
              actions : BOOLEAN,   \* has runtime actions
              outputs : SUBSET Artifacts]

TokenRows == [used : BOOLEAN, revoked : BOOLEAN]

Registrations == [status : {"active", "revoked"}, token : Tokens]

ASSUME ConstantsAssumption ==
  /\ ScopeOf \in [Kliqs -> Scopes]
  /\ TokenScope \in [Tokens -> Scopes \cup {None}]
  /\ May \in [Principals -> SUBSET Scopes]
  /\ Manifest \in [Builds -> Manifests]
  /\ None \notin Scopes \cup TokenRows \cup Registrations
  /\ Kliqs \cap Workers = {}
  /\ MaxVersion \in Nat

VARIABLES
  token,         \* kliq_enrollment_tokens, by its token_json
  registration,  \* kliq_registrations, with the token of its audit event
  approvals,     \* approved manifests in the artifact store
  assigned,      \* kliq_assignments
  served,        \* the version each node was answered last, 0 for none
  request        \* the request in each worker

store == <<token, registration, approvals, assigned>>
vars == <<store, served, request>>

Approvals == [build : Builds, by : Principals, scope : Scopes]

Assignments == [version : Nat \ {0}, build : Builds,
                artifacts : SUBSET Artifacts, revoked : BOOLEAN]

Idle == [at |-> "idle"]

Requests ==
  {Idle}
    \cup [at : {"register"}, kliq : Kliqs, token : Tokens]
    \cup [at : {"revoke_token"}, token : Tokens, row : TokenRows]
    \cup [at : {"latest"}, kliq : Kliqs]
    \cup [at : {"version"}, kliq : Kliqs, build : Builds,
          artifacts : SUBSET Artifacts]
    \cup [at : {"check", "insert"}, kliq : Kliqs, assignment : Assignments]

\* Every variable has its type: in particular, versions start at 1, and a
\* request holds what its handler has read so far.
TypeOK ==
  /\ token \in [Tokens -> TokenRows \cup {None}]
  /\ registration \in [Kliqs -> Registrations \cup {None}]
  /\ approvals \subseteq Approvals
  /\ assigned \in [Kliqs -> SUBSET Assignments]
  /\ served \in [Kliqs -> Nat]
  /\ request \in [Workers -> Requests]

Init ==
  /\ token = [t \in Tokens |-> None]
  /\ registration = [k \in Kliqs |-> None]
  /\ approvals = {}
  /\ assigned = [k \in Kliqs |-> {}]
  /\ served = [k \in Kliqs |-> 0]
  /\ request = [w \in Workers |-> Idle]

-----------------------------------------------------------------------------
(* How a handler moves on. *)

Go(w, r) == request' = [request EXCEPT ![w] = r]

Answer(w) == Go(w, Idle)

\* Of registration k, as ensureKLIQRegistrationActive sees it.
IsActive(k) == registration[k] # None /\ registration[k].status = "active"

-----------------------------------------------------------------------------
(* Enrollment tokens. *)

CreateEnrollmentToken(t) ==
  /\ token[t] = None
  /\ token' = [token EXCEPT ![t] = [used |-> FALSE, revoked |-> FALSE]]
  /\ UNCHANGED <<registration, approvals, assigned, served, request>>

FaultyUsable(t, k) ==
  /\ token[t] # None
  /\ ~token[t].used
  /\ TokenScope[t] \in {None, ScopeOf[k]}

Usable(t, k) ==
  /\ token[t] # None
  /\ ~token[t].used
  /\ ~token[t].revoked
  /\ TokenScope[t] \in {None, ScopeOf[k]}

\* A node presents a token: one transaction that holds the row's lock.
UseEnrollmentToken(w, k, t) ==
  /\ request[w] = Idle
  /\ Usable(t, k)
  /\ token' = [token EXCEPT ![t].used = TRUE]
  /\ Go(w, [at |-> "register", kliq |-> k, token |-> t])
  /\ UNCHANGED <<registration, approvals, assigned, served>>

FaultyRegister(w) ==
  LET r == request[w]
  IN  /\ r.at = "register"
      /\ registration' = [registration EXCEPT
                            ![r.kliq] = [status |-> "active",
                                         token |-> r.token]]
      /\ Answer(w)
      /\ UNCHANGED <<token, approvals, assigned, served>>

\* The primary key lets a node register once; the service token that the
\* answer carries is not kept by Forge.
Register(w) ==
  LET r == request[w]
  IN  /\ r.at = "register"
      /\ registration' = IF registration[r.kliq] = None
                         THEN [registration EXCEPT
                                 ![r.kliq] = [status |-> "active",
                                              token |-> r.token]]
                         ELSE registration
      /\ Answer(w)
      /\ UNCHANGED <<token, approvals, assigned, served>>

BeginRevokeToken(w, t) ==
  /\ request[w] = Idle
  /\ token[t] # None
  /\ Go(w, [at |-> "revoke_token", token |-> t, row |-> token[t]])
  /\ UNCHANGED <<store, served>>

\* Writes the row back as it was read, so a use in between is forgotten.
RevokeEnrollmentToken(w) ==
  LET r == request[w]
  IN  /\ r.at = "revoke_token"
      /\ token' = [token EXCEPT ![r.token] = [r.row EXCEPT !.revoked = TRUE]]
      /\ Answer(w)
      /\ UNCHANGED <<registration, approvals, assigned, served>>

-----------------------------------------------------------------------------
(* Registrations. *)

\* Reads the row and writes it back as revoked.  Nothing else updates a
\* registration, so what was read is what is there, and one step will do.
RevokeKLIQ(k) ==
  /\ registration[k] # None
  /\ registration' = [registration EXCEPT ![k].status = "revoked"]
  /\ UNCHANGED <<token, approvals, assigned, served, request>>

-----------------------------------------------------------------------------
(* Approval of builds.  The artifact store keeps what it is given by       *)
(* content, so an approval is never withdrawn or changed.                  *)

ApprovePolicyBuildManifest(p, b, s) ==
  /\ s \in May[p]
  /\ Manifest[b].ready
  /\ p # Manifest[b].author
  /\ approvals' = approvals \cup {[build |-> b, by |-> p, scope |-> s]}
  /\ UNCHANGED <<token, registration, assigned, served, request>>

FaultyValidateApprovedBuildAuthority(a, k) ==
  a.by # Manifest[a.build].author

ValidateApprovedBuildAuthority(a, k) ==
  /\ a.by # Manifest[a.build].author
  /\ a.scope = ScopeOf[k]

\* A bundle with runtime actions comes with the adapter manifest it needs.
PairedWithAdapter(b, artifacts) ==
  "runtime_bundle" \in artifacts /\ Manifest[b].actions
     => "adapter_manifest" \in artifacts

ValidateApprovedBuild(a, k, artifacts) ==
  /\ ValidateApprovedBuildAuthority(a, k)
  /\ Manifest[a.build].ready
  /\ Manifest[a.build].traced
  /\ artifacts \subseteq Manifest[a.build].outputs
  /\ PairedWithAdapter(a.build, artifacts)

-----------------------------------------------------------------------------
(* Planning and serving of assignments. *)

VersionsOf(k) == {a.version : a \in assigned[k]}

NextVersion(k) ==
  IF assigned[k] = {} THEN 1
  ELSE (CHOOSE v \in VersionsOf(k) : \A u \in VersionsOf(k) : u <= v) + 1

BeginPlan(w, k, a, artifacts) ==
  /\ request[w] = Idle
  /\ IsActive(k)
  /\ artifacts # {}
  /\ ValidateApprovedBuild(a, k, artifacts)
  /\ Go(w, [at |-> "version", kliq |-> k, build |-> a.build,
            artifacts |-> artifacts])
  /\ UNCHANGED <<store, served>>

\* The version becomes part of what is signed.
NextAssignmentVersion(w) ==
  LET r == request[w]
  IN  /\ r.at = "version"
      /\ NextVersion(r.kliq) <= MaxVersion
      /\ Go(w, [at |-> "check", kliq |-> r.kliq,
                assignment |-> [version |-> NextVersion(r.kliq),
                                build |-> r.build,
                                artifacts |-> r.artifacts,
                                revoked |-> FALSE]])
      /\ UNCHANGED <<store, served>>

\* The first half of SaveAssignment: two planners never sign the same
\* payload, so a version that is taken is an error.
CheckAssignment(w) ==
  LET r == request[w]
  IN  /\ r.at = "check"
      /\ IF r.assignment.version < NextVersion(r.kliq)
         THEN Answer(w)
         ELSE Go(w, [r EXCEPT !.at = "insert"])
      /\ UNCHANGED <<store, served>>

FaultyInsertAssignment(w) ==
  LET r == request[w]
      others == {a \in assigned[r.kliq] : a.version # r.assignment.version}
  IN  /\ r.at = "insert"
      /\ assigned' = [assigned EXCEPT ![r.kliq] = others \cup {r.assignment}]
      /\ Answer(w)
      /\ UNCHANGED <<token, registration, approvals, served>>

\* The second half, a transaction: the primary key refuses a version that
\* another planner has inserted since.
InsertAssignment(w) ==
  LET r == request[w]
  IN  /\ r.at = "insert"
      /\ assigned' = IF r.assignment.version \in VersionsOf(r.kliq)
                     THEN assigned
                     ELSE [assigned EXCEPT ![r.kliq] = @ \cup {r.assignment}]
      /\ Answer(w)
      /\ UNCHANGED <<token, registration, approvals, served>>

\* Row a after an UPDATE of the rows with version v.
MarkRevoked(a, v) == [a EXCEPT !.revoked = @ \/ a.version = v]

\* One UPDATE; revoking again only changes the time and the reason.
RevokeAssignment(k, v) ==
  /\ registration[k] # None
  /\ v \in VersionsOf(k)
  /\ assigned' = [assigned EXCEPT ![k] = {MarkRevoked(a, v) : a \in @}]
  /\ UNCHANGED <<token, registration, approvals, served, request>>

BeginPull(w, k) ==
  /\ request[w] = Idle
  /\ IsActive(k)
  /\ Go(w, [at |-> "latest", kliq |-> k])
  /\ UNCHANGED <<store, served>>

FaultyServable(k) ==
  LET live == {a \in assigned[k] : ~a.revoked}
  IN  {a \in live : \A b \in live : b.version <= a.version}

\* The newest assignment if it is not revoked, else nothing: an older one is
\* never an answer.
Servable(k) ==
  {a \in assigned[k] : ~a.revoked /\ \A b \in assigned[k] : b.version <= a.version}

LatestAssignment(w) ==
  LET r == request[w]
  IN  /\ r.at = "latest"
      /\ \/ \E a \in Servable(r.kliq) :
              served' = [served EXCEPT ![r.kliq] = a.version]
         \/ Servable(r.kliq) = {} /\ UNCHANGED served
      /\ Answer(w)
      /\ UNCHANGED store

-----------------------------------------------------------------------------
\* A store call fails, the caller goes away or Forge stops: the request ends
\* and what it has stored stays.  An audit event that cannot be saved after a
\* transaction has the same effect.
Fail(w) ==
  /\ request[w] # Idle
  /\ Answer(w)
  /\ UNCHANGED <<store, served>>

Next ==
  \/ \E t \in Tokens : CreateEnrollmentToken(t)
  \/ \E w \in Workers, k \in Kliqs, t \in Tokens : UseEnrollmentToken(w, k, t)
  \/ \E w \in Workers : Register(w)
  \/ \E w \in Workers, t \in Tokens : BeginRevokeToken(w, t)
  \/ \E w \in Workers : RevokeEnrollmentToken(w)
  \/ \E k \in Kliqs : RevokeKLIQ(k)
  \/ \E p \in Principals, b \in Builds, s \in Scopes :
       ApprovePolicyBuildManifest(p, b, s)
  \/ \E w \in Workers, k \in Kliqs, a \in approvals, artifacts \in SUBSET Artifacts :
       BeginPlan(w, k, a, artifacts)
  \/ \E w \in Workers : NextAssignmentVersion(w)
  \/ \E w \in Workers : CheckAssignment(w)
  \/ \E w \in Workers : InsertAssignment(w)
  \/ \E k \in Kliqs, v \in 1..MaxVersion : RevokeAssignment(k, v)
  \/ \E w \in Workers, k \in Kliqs : BeginPull(w, k)
  \/ \E w \in Workers : LatestAssignment(w)
  \/ \E w \in Workers : Fail(w)

Spec == Init /\ [][Next]_vars

-----------------------------------------------------------------------------
(* Properties. *)

\* The nodes a token has let in, and the requests it is about to let in.
AdmittedBy(t) ==
  {k \in Kliqs : registration[k] # None /\ registration[k].token = t}
    \cup {w \in Workers : request[w].at = "register" /\ request[w].token = t}

\* An enrollment token lets in one node, and counts for one request, although
\* RevokeEnrollmentToken may write back a row that says it was not used.
TokenAdmitsOnce ==
  \A t \in Tokens : \A x, y \in AdmittedBy(t) : x = y

\* Revocation is for good: no request that was under way when a token, a
\* registration or an assignment was revoked makes it valid again.
RevocationIsFinal ==
  [][/\ \A t \in Tokens :
          token[t] # None /\ token[t].revoked => token'[t].revoked
     /\ \A k \in Kliqs :
          /\ registration[k] # None /\ registration[k].status = "revoked"
               => registration'[k].status = "revoked"
          /\ \A a \in assigned[k] : a.revoked => a \in assigned'[k]]_vars

\* Concurrent planners neither replace what is published nor leave a gap or go
\* back: a new assignment of a node has the version after all others, and those
\* keep their contents.
VersionsGrowByOne ==
  [][\A k \in Kliqs :
       /\ \A a \in assigned[k] :
            \E b \in assigned'[k] : b = [a EXCEPT !.revoked = b.revoked]
       /\ \A b \in assigned'[k] :
            b.version \in VersionsOf(k) \/ b.version = NextVersion(k)]_vars

\* Assigning these artifacts of build b to node k has been approved.
Approved(k, b, artifacts) ==
  /\ \E p \in approvals : /\ p.build = b
                          /\ p.by # Manifest[b].author
                          /\ p.scope = ScopeOf[k]
  /\ artifacts \subseteq Manifest[b].outputs
  /\ PairedWithAdapter(b, artifacts)

\* Every assignment of a node rests on an approval for the node's scope by
\* somebody other than the author of the build, and assigns only artifacts of
\* the build, a bundle together with the adapter manifest it needs.
PublishedIsApproved ==
  \A k \in Kliqs : \A a \in assigned[k] : Approved(k, a.build, a.artifacts)

\* In the order in which latestKLIQAssignment reads them, a node is never answered
\* an older assignment than before, also when the newest is revoked in between.
AnswersNeverGoBack ==
  [][\A k \in Kliqs : served'[k] >= served[k]]_vars
=============================================================================
