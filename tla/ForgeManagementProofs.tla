----------------------- MODULE ForgeManagementProofs -----------------------
(***************************************************************************)
(* Theorems about ForgeManagement and ManagedNode, for every value of the  *)
(* constants, and about TrustBundles, for any number of keys and of        *)
(* requests under way.                                                     *)
(*                                                                         *)
(* SaveTrustBundle and RotateTrustBundle write what they read some         *)
(* statements ago.  The argument is that what they read is still good      *)
(* enough: Shrinks says how the table may have changed in between, Sound   *)
(* what a request may rely on all the same, and no more than that.         *)
(***************************************************************************)
EXTENDS ManagedNode, TrustBundles, TLAPS

\* What a handler holds is told by where it is.
LEMMA RequestShape ==
  ASSUME NEW r \in Requests
  PROVE  /\ r.at = "register" => r.kliq \in Kliqs /\ r.token \in Tokens
         /\ r.at = "revoke_token" => r.token \in Tokens /\ r.row \in TokenRows
         /\ r.at = "latest" => r.kliq \in Kliqs
         /\ r.at = "version" => /\ r.kliq \in Kliqs
                                /\ r.build \in Builds
                                /\ r.artifacts \in SUBSET Artifacts
         /\ r.at = "check" => /\ r \in [at : {"check", "insert"}, kliq : Kliqs,
                                        assignment : Assignments]
                              /\ r.kliq \in Kliqs
                              /\ r.assignment \in Assignments
         /\ r.at = "insert" => r.kliq \in Kliqs /\ r.assignment \in Assignments
         /\ r.at \in {"idle", "register", "revoke_token", "latest", "version",
                      "check", "insert"}
  BY DEF Requests, Idle

\* Answering ends a request, going on gives it another shape.
LEMMA RequestTypes ==
  ASSUME TypeOK, NEW w \in Workers, NEW r \in Requests, Go(w, r)
  PROVE  request' \in [Workers -> Requests]
  BY DEF TypeOK, Go

LEMMA IdleIsRequest == Idle \in Requests
  BY DEF Requests, Idle

\* Revocation changes an assignment in nothing else, and is not taken back.
LEMMA MarkRevokedFacts ==
  ASSUME NEW a \in Assignments, NEW v
  PROVE  /\ MarkRevoked(a, v) \in Assignments
         /\ MarkRevoked(a, v).version = a.version
         /\ MarkRevoked(a, v).build = a.build
         /\ MarkRevoked(a, v).artifacts = a.artifacts
         /\ MarkRevoked(a, v) = [a EXCEPT !.revoked = MarkRevoked(a, v).revoked]
         /\ a.revoked => MarkRevoked(a, v) = a
  BY DEF Assignments, MarkRevoked

-----------------------------------------------------------------------------
(* The inductive invariant. *)

\* A token that has let somebody in shows it: the use is either still in its
\* row or was overwritten by a revocation.
TokensSpent ==
  \A t \in Tokens : AdmittedBy(t) # {} =>
    token[t] # None /\ (token[t].used \/ token[t].revoked)

\* The versions of a node have no gap.
Dense == \A k \in Kliqs : \E n \in Nat : VersionsOf(k) = 1..n

\* What was answered exists, now and later.
ServedExists == \A k \in Kliqs : served[k] = 0 \/ served[k] \in VersionsOf(k)

\* What a planner has validated stays approved, and the version it took is not
\* ahead of the store.
Planned(r) ==
  /\ r.at = "version" => Approved(r.kliq, r.build, r.artifacts)
  /\ r.at \in {"check", "insert"} =>
       /\ Approved(r.kliq, r.assignment.build, r.assignment.artifacts)
       /\ r.assignment.version <= NextVersion(r.kliq)

PlansStand == \A w \in Workers : Planned(request[w])

IInv == /\ TypeOK
        /\ TokenAdmitsOnce
        /\ TokensSpent
        /\ Dense
        /\ ServedExists
        /\ PlansStand
        /\ PublishedIsApproved

\* NextVersion as a function of the rows, so that it can be used of the rows
\* before and after a step.
Versions(rows) == {a.version : a \in rows}

After(rows) ==
  IF rows = {} THEN 1
  ELSE (CHOOSE v \in Versions(rows) : \A u \in Versions(rows) : u <= v) + 1

\* The version after versions 1 to n is n + 1.
LEMMA AfterIs ==
  ASSUME NEW rows, NEW n \in Nat, Versions(rows) = 1..n
  PROVE  After(rows) = n + 1
<1>1. CASE n = 0
  <2>1. rows = {}
    BY <1>1 DEF Versions
  <2> QED
    BY <1>1, <2>1 DEF After
<1>2. CASE n # 0
  <2>1. n \in Versions(rows) /\ \A u \in Versions(rows) : u <= n
    BY <1>2
  <2>2. rows # {}
    BY <2>1 DEF Versions
  <2>3. \A v \in Versions(rows) : (\A u \in Versions(rows) : u <= v) => v = n
    BY <2>1
  <2> QED
    BY <2>1, <2>2, <2>3 DEF After
<1> QED
  BY <1>1, <1>2

LEMMA NextVersionIs ==
  ASSUME NEW k, NEW n \in Nat, VersionsOf(k) = 1..n
  PROVE  NextVersion(k) = n + 1
<1>1. Versions(assigned[k]) = 1..n /\ NextVersion(k) = After(assigned[k])
  BY DEF Versions, After, VersionsOf, NextVersion
<1> QED
  BY <1>1, AfterIs

LEMMA NextVersionPositive ==
  ASSUME Dense, NEW k \in Kliqs
  PROVE  NextVersion(k) \in Nat \ {0}
<1>1. PICK n \in Nat : VersionsOf(k) = 1..n
  BY DEF Dense
<1> QED
  BY <1>1, NextVersionIs

-----------------------------------------------------------------------------
(* Types. *)

\* A version in use is positive, and so is the next one.
LEMMA TypeStep == TypeOK /\ Dense /\ [Next]_vars => TypeOK'
<1> SUFFICES ASSUME TypeOK, Dense, [Next]_vars PROVE TypeOK'
  OBVIOUS
<1> USE DEF store
<1>0. /\ \A w \in Workers : request[w] \in Requests
      /\ \A w \in Workers : Answer(w) => request' \in [Workers -> Requests]
  BY RequestTypes, IdleIsRequest DEF TypeOK, Answer
<1>1. ASSUME NEW t \in Tokens, CreateEnrollmentToken(t) PROVE TypeOK'
  BY <1>1 DEF CreateEnrollmentToken, TypeOK, TokenRows
<1>2. ASSUME NEW w \in Workers, NEW k \in Kliqs, NEW t \in Tokens,
             UseEnrollmentToken(w, k, t)
      PROVE  TypeOK'
  <2>1. token[t] \in TokenRows
    BY <1>2 DEF TypeOK, UseEnrollmentToken, Usable
  <2>2. token' \in [Tokens -> TokenRows \cup {None}]
    BY <1>2, <2>1 DEF TypeOK, UseEnrollmentToken, TokenRows
  <2>3. [at |-> "register", kliq |-> k, token |-> t] \in Requests
    BY DEF Requests
  <2>4. request' \in [Workers -> Requests]
    BY <1>2, <2>3, RequestTypes DEF UseEnrollmentToken
  <2> QED
    BY <1>2, <2>2, <2>4 DEF TypeOK, UseEnrollmentToken
<1>3. ASSUME NEW w \in Workers, Register(w) PROVE TypeOK'
  <2>1. request[w].kliq \in Kliqs /\ request[w].token \in Tokens
    BY <1>0, <1>3, RequestShape DEF Register
  <2>2. registration' \in [Kliqs -> Registrations \cup {None}]
    BY <1>3, <2>1 DEF TypeOK, Register, Registrations
  <2> QED
    BY <1>0, <1>3, <2>2 DEF TypeOK, Register
<1>4. ASSUME NEW w \in Workers, NEW t \in Tokens, BeginRevokeToken(w, t)
      PROVE  TypeOK'
  <2>1. [at |-> "revoke_token", token |-> t, row |-> token[t]] \in Requests
    BY <1>4 DEF TypeOK, BeginRevokeToken, Requests
  <2>2. request' \in [Workers -> Requests]
    BY <1>4, <2>1, RequestTypes DEF BeginRevokeToken
  <2> QED
    BY <1>4, <2>2 DEF TypeOK, BeginRevokeToken
<1>5. ASSUME NEW w \in Workers, RevokeEnrollmentToken(w) PROVE TypeOK'
  <2>1. request[w].token \in Tokens /\ request[w].row \in TokenRows
    BY <1>0, <1>5, RequestShape DEF RevokeEnrollmentToken
  <2>2. token' \in [Tokens -> TokenRows \cup {None}]
    BY <1>5, <2>1 DEF TypeOK, RevokeEnrollmentToken, TokenRows
  <2> QED
    BY <1>0, <1>5, <2>2 DEF TypeOK, RevokeEnrollmentToken
<1>6. ASSUME NEW k \in Kliqs, RevokeKLIQ(k) PROVE TypeOK'
  <2>1. registration[k] \in Registrations
    BY <1>6 DEF TypeOK, RevokeKLIQ
  <2> QED
    BY <1>6, <2>1 DEF TypeOK, RevokeKLIQ, Registrations
<1>7. ASSUME NEW p \in Principals, NEW b \in Builds, NEW s \in Scopes,
             ApprovePolicyBuildManifest(p, b, s)
      PROVE  TypeOK'
  BY <1>7 DEF TypeOK, ApprovePolicyBuildManifest, Approvals
<1>8. ASSUME NEW w \in Workers, NEW k \in Kliqs, NEW a \in approvals,
             NEW artifacts \in SUBSET Artifacts, BeginPlan(w, k, a, artifacts)
      PROVE  TypeOK'
  <2>1. a.build \in Builds
    BY DEF TypeOK, Approvals
  <2>2. [at |-> "version", kliq |-> k, build |-> a.build,
         artifacts |-> artifacts] \in Requests
    BY <2>1 DEF Requests
  <2>3. request' \in [Workers -> Requests]
    BY <1>8, <2>2, RequestTypes DEF BeginPlan
  <2> QED
    BY <1>8, <2>3 DEF TypeOK, BeginPlan
<1>9. ASSUME NEW w \in Workers, NextAssignmentVersion(w) PROVE TypeOK'
  <2> DEFINE r == request[w]
             a == [version |-> NextVersion(r.kliq), build |-> r.build,
                   artifacts |-> r.artifacts, revoked |-> FALSE]
  <2>1. /\ r.kliq \in Kliqs
        /\ r.build \in Builds
        /\ r.artifacts \in SUBSET Artifacts
    BY <1>0, <1>9, RequestShape DEF NextAssignmentVersion
  <2>2. a \in Assignments
    BY <2>1, NextVersionPositive DEF Assignments
  <2>3. [at |-> "check", kliq |-> r.kliq, assignment |-> a] \in Requests
    BY <2>1, <2>2 DEF Requests
  <2>4. request' \in [Workers -> Requests]
    BY <1>9, <2>3, RequestTypes DEF NextAssignmentVersion
  <2> QED
    BY <1>9, <2>4 DEF TypeOK, NextAssignmentVersion
<1>10. ASSUME NEW w \in Workers, CheckAssignment(w) PROVE TypeOK'
  <2>1. request[w] \in [at : {"check", "insert"}, kliq : Kliqs,
                        assignment : Assignments]
    BY <1>0, <1>10, RequestShape DEF CheckAssignment
  <2>2. [request[w] EXCEPT !.at = "insert"] \in Requests
    BY <2>1 DEF Requests
  <2>3. request' \in [Workers -> Requests]
    BY <1>0, <1>10, <2>2, RequestTypes DEF CheckAssignment
  <2> QED
    BY <1>10, <2>3 DEF TypeOK, CheckAssignment
<1>11. ASSUME NEW w \in Workers, InsertAssignment(w) PROVE TypeOK'
  <2>1. request[w].kliq \in Kliqs /\ request[w].assignment \in Assignments
    BY <1>0, <1>11, RequestShape DEF InsertAssignment
  <2>2. assigned' \in [Kliqs -> SUBSET Assignments]
    BY <1>11, <2>1 DEF TypeOK, InsertAssignment
  <2> QED
    BY <1>0, <1>11, <2>2 DEF TypeOK, InsertAssignment
<1>12. ASSUME NEW k \in Kliqs, NEW v \in 1..MaxVersion, RevokeAssignment(k, v)
       PROVE  TypeOK'
  <2>1. assigned' \in [Kliqs -> SUBSET Assignments]
    BY <1>12, MarkRevokedFacts DEF TypeOK, RevokeAssignment
  <2> QED
    BY <1>12, <2>1 DEF TypeOK, RevokeAssignment
<1>13. ASSUME NEW w \in Workers, NEW k \in Kliqs, BeginPull(w, k) PROVE TypeOK'
  <2>1. [at |-> "latest", kliq |-> k] \in Requests
    BY DEF Requests
  <2>2. request' \in [Workers -> Requests]
    BY <1>13, <2>1, RequestTypes DEF BeginPull
  <2> QED
    BY <1>13, <2>2 DEF TypeOK, BeginPull
<1>14. ASSUME NEW w \in Workers, LatestAssignment(w) PROVE TypeOK'
  <2>1. request[w].kliq \in Kliqs
    BY <1>0, <1>14, RequestShape DEF LatestAssignment
  <2>2. \A a \in Servable(request[w].kliq) : a.version \in Nat
    BY <2>1 DEF Servable, TypeOK, Assignments
  <2>3. served' \in [Kliqs -> Nat]
    BY <1>14, <2>1, <2>2 DEF TypeOK, LatestAssignment
  <2> QED
    BY <1>0, <1>14, <2>3 DEF TypeOK, LatestAssignment
<1>15. ASSUME NEW w \in Workers, Fail(w) PROVE TypeOK'
  BY <1>0, <1>15 DEF TypeOK, Fail
<1>16. CASE UNCHANGED vars
  BY <1>16 DEF TypeOK, vars
<1> QED
  BY <1>1, <1>2, <1>3, <1>4, <1>5, <1>6, <1>7, <1>8, <1>9, <1>10, <1>11, <1>12,
     <1>13, <1>14, <1>15, <1>16 DEF Next

-----------------------------------------------------------------------------
(* Tokens. *)

\* Only the use of a token, which its row must allow, adds to whom it lets in;
\* registration replaces the request by the node.
LEMMA TokenStep ==
  TypeOK /\ TokenAdmitsOnce /\ TokensSpent /\ [Next]_vars
    => TokenAdmitsOnce' /\ TokensSpent'
<1> SUFFICES ASSUME TypeOK, TokenAdmitsOnce, TokensSpent, [Next]_vars
             PROVE  TokenAdmitsOnce' /\ TokensSpent'
  OBVIOUS
<1> USE DEF store
<1>0. \A w \in Workers : request[w] \in Requests
  BY DEF TypeOK
<1>a. ASSUME \A t \in Tokens : AdmittedBy(t)' \subseteq AdmittedBy(t),
             \A t \in Tokens : token[t] # None /\ (token[t].used \/ token[t].revoked)
               => token'[t] # None /\ (token'[t].used \/ token'[t].revoked)
      PROVE  TokenAdmitsOnce' /\ TokensSpent'
  BY <1>a DEF TokenAdmitsOnce, TokensSpent
<1>b. ASSUME UNCHANGED registration, NEW w \in Workers, NEW r, Go(w, r),
             r.at # "register"
      PROVE  \A t \in Tokens : AdmittedBy(t)' \subseteq AdmittedBy(t)
  BY <1>b DEF AdmittedBy, Go, TypeOK
<1>c. Idle.at # "register"
  BY DEF Idle
<1>1. ASSUME NEW t \in Tokens, CreateEnrollmentToken(t)
      PROVE  TokenAdmitsOnce' /\ TokensSpent'
  <2>1. \A u \in Tokens : AdmittedBy(u)' = AdmittedBy(u)
    BY <1>1 DEF CreateEnrollmentToken, AdmittedBy
  <2>2. \A u \in Tokens : token[u] # None => token'[u] = token[u]
    BY <1>1 DEF CreateEnrollmentToken, TypeOK
  <2> QED
    BY <1>a, <2>1, <2>2
<1>2. ASSUME NEW w \in Workers, NEW k \in Kliqs, NEW t \in Tokens,
             UseEnrollmentToken(w, k, t)
      PROVE  TokenAdmitsOnce' /\ TokensSpent'
  <2>1. AdmittedBy(t) = {}
    BY <1>2 DEF UseEnrollmentToken, Usable, TokensSpent
  <2>2. token[t] \in TokenRows
    BY <1>2 DEF TypeOK, UseEnrollmentToken, Usable
  <2>3. token'[t] # None /\ token'[t].used
    <3>1. token'[t] = [token[t] EXCEPT !.used = TRUE]
      BY <1>2 DEF UseEnrollmentToken, TypeOK
    <3>2. token'[t] \in TokenRows /\ token'[t].used
      BY <2>2, <3>1 DEF TokenRows
    <3> QED
      BY <3>2, ConstantsAssumption
  <2>4. \A u \in Tokens \ {t} : token'[u] = token[u]
    BY <1>2 DEF UseEnrollmentToken, TypeOK
  <2>5. AdmittedBy(t)' = {w}
    BY <1>2, <2>1 DEF UseEnrollmentToken, AdmittedBy, Go, TypeOK
  <2>6. \A u \in Tokens \ {t} : AdmittedBy(u)' \subseteq AdmittedBy(u)
    BY <1>2 DEF UseEnrollmentToken, AdmittedBy, Go, TypeOK
  <2> QED
    BY <2>3, <2>4, <2>5, <2>6 DEF TokenAdmitsOnce, TokensSpent
<1>3. ASSUME NEW w \in Workers, Register(w)
      PROVE  TokenAdmitsOnce' /\ TokensSpent'
  <2>0. PICK k \in Kliqs, t \in Tokens :
          k = request[w].kliq /\ t = request[w].token
    BY <1>0, <1>3, RequestShape DEF Register
  <2>1. w \in AdmittedBy(t)
    BY <1>3, <2>0 DEF Register, AdmittedBy
  <2>2. AdmittedBy(t) = {w}
    BY <2>1 DEF TokenAdmitsOnce
  <2>3. AdmittedBy(t)' \subseteq {k}
    <3> SUFFICES ASSUME NEW x \in AdmittedBy(t)', x # k PROVE FALSE
      OBVIOUS
    <3>1. request' = [request EXCEPT ![w] = Idle]
      BY <1>3 DEF Register, Answer, Go
    <3>2. CASE x \in Workers /\ request'[x].at = "register" /\ request'[x].token = t
      <4>1. x # w /\ request'[x] = request[x]
        BY <1>c, <3>1, <3>2 DEF TypeOK
      <4> QED
        BY <2>2, <3>2, <4>1 DEF AdmittedBy
    <3>3. CASE x \in Kliqs /\ registration'[x] # None /\ registration'[x].token = t
      <4>1. registration'[x] = registration[x]
        BY <1>3, <2>0, <3>3 DEF Register, TypeOK
      <4>2. x \in AdmittedBy(t)
        BY <3>3, <4>1 DEF AdmittedBy
      <4> QED
        BY <2>2, <3>3, <4>2, ConstantsAssumption
    <3> QED
      BY <3>2, <3>3 DEF AdmittedBy
  <2>4. \A u \in Tokens \ {t} : AdmittedBy(u)' \subseteq AdmittedBy(u)
    <3> SUFFICES ASSUME NEW u \in Tokens \ {t}, NEW x \in AdmittedBy(u)'
                 PROVE  x \in AdmittedBy(u)
      OBVIOUS
    <3>1. request' = [request EXCEPT ![w] = Idle]
      BY <1>3 DEF Register, Answer, Go
    <3>2. CASE x \in Workers /\ request'[x].at = "register" /\ request'[x].token = u
      <4>1. x # w /\ request'[x] = request[x]
        BY <1>c, <3>1, <3>2 DEF TypeOK
      <4> QED
        BY <3>2, <4>1 DEF AdmittedBy
    <3>3. CASE x \in Kliqs /\ registration'[x] # None /\ registration'[x].token = u
      <4>1. registration'[x] = registration[x]
        BY <1>3, <2>0, <3>3 DEF Register, TypeOK
      <4> QED
        BY <3>3, <4>1 DEF AdmittedBy
    <3> QED
      BY <3>2, <3>3 DEF AdmittedBy
  <2>5. token' = token
    BY <1>3 DEF Register
  <2>6. token[t] # None /\ (token[t].used \/ token[t].revoked)
    BY <2>1 DEF TokensSpent
  <2>7. TokenAdmitsOnce'
    <3> SUFFICES ASSUME NEW u \in Tokens,
                        NEW x \in AdmittedBy(u)', NEW y \in AdmittedBy(u)'
                 PROVE  x = y
      BY DEF TokenAdmitsOnce
    <3>1. CASE u = t
      BY <2>3, <3>1
    <3>2. CASE u # t
      BY <2>4, <3>2 DEF TokenAdmitsOnce
    <3> QED
      BY <3>1, <3>2
  <2>8. TokensSpent'
    <3> SUFFICES ASSUME NEW u \in Tokens, AdmittedBy(u)' # {}
                 PROVE  token[u] # None /\ (token[u].used \/ token[u].revoked)
      BY <2>5 DEF TokensSpent
    <3>1. CASE u # t
      BY <2>4, <3>1 DEF TokensSpent
    <3> QED
      BY <2>6, <3>1
  <2> QED
    BY <2>7, <2>8
<1>4. ASSUME NEW w \in Workers, NEW t \in Tokens, BeginRevokeToken(w, t)
      PROVE  TokenAdmitsOnce' /\ TokensSpent'
  <2> DEFINE r == [at |-> "revoke_token", token |-> t, row |-> token[t]]
  <2>1. r.at # "register"
    OBVIOUS
  <2>2. Go(w, r) /\ UNCHANGED <<registration, token>>
    BY <1>4 DEF BeginRevokeToken
  <2> QED
    BY <1>a, <1>b, <2>1, <2>2
<1>5. ASSUME NEW w \in Workers, RevokeEnrollmentToken(w)
      PROVE  TokenAdmitsOnce' /\ TokensSpent'
  <2> DEFINE t == request[w].token
             row == request[w].row
  <2>1. t \in Tokens /\ row \in TokenRows
    BY <1>0, <1>5, RequestShape DEF RevokeEnrollmentToken
  <2>2. token'[t] = [row EXCEPT !.revoked = TRUE]
    BY <1>5, <2>1 DEF RevokeEnrollmentToken, TypeOK
  <2>3. token'[t] \in TokenRows /\ token'[t].revoked
    BY <2>1, <2>2 DEF TokenRows
  <2>4. token'[t] # None
    BY <2>3, ConstantsAssumption
  <2>5. \A u \in Tokens \ {t} : token'[u] = token[u]
    BY <1>5, <2>1 DEF RevokeEnrollmentToken, TypeOK
  <2>6. Go(w, Idle) /\ UNCHANGED registration
    BY <1>5 DEF RevokeEnrollmentToken, Answer
  <2>7. \A u \in Tokens : AdmittedBy(u)' \subseteq AdmittedBy(u)
    BY <1>b, <1>c, <2>6
  <2> QED
    BY <1>a, <2>3, <2>4, <2>5, <2>7
<1>6. ASSUME NEW k \in Kliqs, RevokeKLIQ(k)
      PROVE  TokenAdmitsOnce' /\ TokensSpent'
  <2>1. registration[k] \in Registrations
    BY <1>6 DEF TypeOK, RevokeKLIQ
  <2>2. registration'[k] = [registration[k] EXCEPT !.status = "revoked"]
    BY <1>6 DEF TypeOK, RevokeKLIQ
  <2>3. registration'[k].token = registration[k].token
    BY <2>1, <2>2 DEF Registrations
  <2>4. \A j \in Kliqs \ {k} : registration'[j] = registration[j]
    BY <1>6 DEF TypeOK, RevokeKLIQ
  <2>5. UNCHANGED <<token, request>> /\ registration[k] # None
    BY <1>6 DEF RevokeKLIQ
  <2>6. \A u \in Tokens : AdmittedBy(u)' \subseteq AdmittedBy(u)
    BY <2>3, <2>4, <2>5 DEF AdmittedBy
  <2> QED
    BY <1>a, <2>5, <2>6
<1>7. ASSUME NEW p \in Principals, NEW b \in Builds, NEW s \in Scopes,
             ApprovePolicyBuildManifest(p, b, s)
      PROVE  TokenAdmitsOnce' /\ TokensSpent'
  <2>1. UNCHANGED <<token, registration, request>>
    BY <1>7 DEF ApprovePolicyBuildManifest
  <2> QED
    BY <1>a, <2>1 DEF AdmittedBy
<1>8. ASSUME NEW k \in Kliqs, NEW v \in 1..MaxVersion, RevokeAssignment(k, v)
      PROVE  TokenAdmitsOnce' /\ TokensSpent'
  <2>1. UNCHANGED <<token, registration, request>>
    BY <1>8 DEF RevokeAssignment
  <2> QED
    BY <1>a, <2>1 DEF AdmittedBy
<1>9. ASSUME NEW w \in Workers,
             \/ \E k \in Kliqs, a \in approvals, artifacts \in SUBSET Artifacts :
                  BeginPlan(w, k, a, artifacts)
             \/ NextAssignmentVersion(w)
             \/ CheckAssignment(w)
             \/ InsertAssignment(w)
             \/ \E k \in Kliqs : BeginPull(w, k)
             \/ LatestAssignment(w)
             \/ Fail(w)
      PROVE  TokenAdmitsOnce' /\ TokensSpent'
  <2>1. UNCHANGED <<token, registration>>
    BY <1>9 DEF BeginPlan, NextAssignmentVersion, CheckAssignment,
                InsertAssignment, BeginPull, LatestAssignment, Fail
  <2>2. \E r : Go(w, r) /\ r.at # "register"
    <3> DEFINE Goal == \E r : Go(w, r) /\ r.at # "register"
    <3>1. ASSUME NEW k \in Kliqs, NEW a \in approvals,
                 NEW artifacts \in SUBSET Artifacts, BeginPlan(w, k, a, artifacts)
          PROVE  Goal
      <4> DEFINE r == [at |-> "version", kliq |-> k, build |-> a.build,
                       artifacts |-> artifacts]
      <4>1. r.at # "register"
        OBVIOUS
      <4>2. Go(w, r)
        BY <3>1 DEF BeginPlan
      <4> QED
        BY <4>1, <4>2
    <3>2. ASSUME NextAssignmentVersion(w) PROVE Goal
      <4> DEFINE r == [at |-> "check", kliq |-> request[w].kliq,
                       assignment |-> [version |-> NextVersion(request[w].kliq),
                                       build |-> request[w].build,
                                       artifacts |-> request[w].artifacts,
                                       revoked |-> FALSE]]
      <4>1. r.at # "register"
        OBVIOUS
      <4>2. Go(w, r)
        BY <3>2 DEF NextAssignmentVersion
      <4> QED
        BY <4>1, <4>2
    <3>3. ASSUME CheckAssignment(w) PROVE Goal
      <4>1. [request[w] EXCEPT !.at = "insert"].at = "insert"
        BY <1>0, <3>3, RequestShape DEF CheckAssignment
      <4> QED
        BY <1>c, <3>3, <4>1 DEF CheckAssignment, Answer
    <3>4. ASSUME NEW k \in Kliqs, BeginPull(w, k) PROVE Goal
      <4> DEFINE r == [at |-> "latest", kliq |-> k]
      <4>1. r.at # "register"
        OBVIOUS
      <4>2. Go(w, r)
        BY <3>4 DEF BeginPull
      <4> QED
        BY <4>1, <4>2
    <3>5. ASSUME InsertAssignment(w) \/ LatestAssignment(w) \/ Fail(w) PROVE Goal
      <4>1. Go(w, Idle)
        BY <3>5 DEF InsertAssignment, LatestAssignment, Fail, Answer
      <4> QED
        BY <1>c, <4>1
    <3> QED
      BY <1>9, <3>1, <3>2, <3>3, <3>4, <3>5
  <2> QED
    BY <1>a, <1>b, <2>1, <2>2
<1>10. CASE UNCHANGED vars
  BY <1>a, <1>10 DEF AdmittedBy, vars
<1> QED
  BY <1>1, <1>2, <1>3, <1>4, <1>5, <1>6, <1>7, <1>8, <1>9, <1>10 DEF Next

-----------------------------------------------------------------------------
(* Assignments. *)

\* What a step may do to the assignments of a node.
Grown(k) ==
  /\ VersionsOf(k)' \in {VersionsOf(k), VersionsOf(k) \cup {NextVersion(k)}}
  /\ \A a \in assigned[k] :
       /\ \E b \in assigned'[k] : b = [a EXCEPT !.revoked = b.revoked]
       /\ a.revoked => a \in assigned'[k]
  /\ \A b \in assigned'[k] : Approved(k, b.build, b.artifacts)

\* A planner inserts a version that is not ahead of the store and, by the
\* primary key, not in it: it is the next one.
LEMMA Growth ==
  ASSUME IInv, [Next]_vars, NEW k \in Kliqs
  PROVE  Grown(k)
<1> USE DEF store
<1>0. /\ \A w \in Workers : request[w] \in Requests
      /\ assigned[k] \subseteq Assignments
  BY DEF IInv, TypeOK
<1>1. ASSUME assigned'[k] = assigned[k] PROVE Grown(k)
  <2>1. VersionsOf(k)' = VersionsOf(k)
    BY <1>1 DEF VersionsOf
  <2>2. \A a \in assigned[k] : a = [a EXCEPT !.revoked = a.revoked]
    BY <1>0 DEF Assignments
  <2>3. \A b \in assigned'[k] : Approved(k, b.build, b.artifacts)
    BY <1>1 DEF IInv, PublishedIsApproved
  <2> QED
    BY <1>1, <2>1, <2>2, <2>3 DEF Grown
<1>2. ASSUME NEW w \in Workers, InsertAssignment(w) PROVE Grown(k)
  <2>1. PICK j \in Kliqs, x \in Assignments :
          j = request[w].kliq /\ x = request[w].assignment
    BY <1>0, <1>2, RequestShape DEF InsertAssignment
  <2>2. CASE j # k \/ x.version \in VersionsOf(j)
    <3>1. assigned'[k] = assigned[k]
      BY <1>2, <2>1, <2>2 DEF InsertAssignment, IInv, TypeOK
    <3> QED
      BY <1>1, <3>1
  <2>3. CASE j = k /\ x.version \notin VersionsOf(k)
    <3>1. assigned'[k] = assigned[k] \cup {x}
      BY <1>2, <2>1, <2>3 DEF InsertAssignment, IInv, TypeOK
    <3>2. /\ x.version <= NextVersion(k)
          /\ Approved(k, x.build, x.artifacts)
      BY <1>2, <2>1, <2>3 DEF InsertAssignment, IInv, PlansStand, Planned
    <3>3. PICK n \in Nat : VersionsOf(k) = 1..n
      BY DEF IInv, Dense
    <3>4. x.version = NextVersion(k)
      <4>1. NextVersion(k) = n + 1
        BY <3>3, NextVersionIs
      <4>2. x.version \in Nat \ {0}
        BY DEF Assignments
      <4> QED
        BY <2>3, <3>2, <3>3, <4>1, <4>2
    <3>5. VersionsOf(k)' = VersionsOf(k) \cup {NextVersion(k)}
      BY <3>1, <3>4 DEF VersionsOf
    <3>6. \A a \in assigned[k] : a = [a EXCEPT !.revoked = a.revoked]
      BY <1>0 DEF Assignments
    <3>7. \A b \in assigned'[k] : Approved(k, b.build, b.artifacts)
      BY <3>1, <3>2 DEF IInv, PublishedIsApproved
    <3> QED
      BY <3>1, <3>5, <3>6, <3>7 DEF Grown
  <2> QED
    BY <2>2, <2>3
<1>3. ASSUME NEW j \in Kliqs, NEW v \in 1..MaxVersion, RevokeAssignment(j, v)
      PROVE  Grown(k)
  <2>1. CASE j # k
    <3>1. assigned'[k] = assigned[k]
      BY <1>3, <2>1 DEF RevokeAssignment, IInv, TypeOK
    <3> QED
      BY <1>1, <3>1
  <2>2. CASE j = k
    <3>1. assigned'[k] = {MarkRevoked(a, v) : a \in assigned[k]}
      BY <1>3, <2>2 DEF RevokeAssignment, IInv, TypeOK
    <3>2. VersionsOf(k)' = VersionsOf(k)
      BY <1>0, <3>1, MarkRevokedFacts DEF VersionsOf
    <3>3. \A a \in assigned[k] :
            /\ \E b \in assigned'[k] : b = [a EXCEPT !.revoked = b.revoked]
            /\ a.revoked => a \in assigned'[k]
      BY <1>0, <3>1, MarkRevokedFacts
    <3>4. \A b \in assigned'[k] : Approved(k, b.build, b.artifacts)
      BY <1>0, <3>1, MarkRevokedFacts DEF IInv, PublishedIsApproved
    <3> QED
      BY <3>2, <3>3, <3>4 DEF Grown
  <2> QED
    BY <2>1, <2>2
<1>4. CASE UNCHANGED assigned
  BY <1>1, <1>4
<1> QED
  BY <1>2, <1>3, <1>4
     DEF Next, vars, CreateEnrollmentToken, UseEnrollmentToken, Register,
         BeginRevokeToken, RevokeEnrollmentToken, RevokeKLIQ,
         ApprovePolicyBuildManifest, BeginPlan, NextAssignmentVersion,
         CheckAssignment, BeginPull, LatestAssignment, Fail

\* Versions stay without a gap, and the next version does not go back.
LEMMA GrownVersions ==
  ASSUME Dense, NEW k \in Kliqs, Grown(k)
  PROVE  /\ \E n \in Nat : VersionsOf(k)' = 1..n
         /\ VersionsOf(k) \subseteq VersionsOf(k)'
         /\ NextVersion(k) \in Nat
         /\ NextVersion(k)' \in Nat
         /\ NextVersion(k) <= NextVersion(k)'
<1>1. PICK n \in Nat : VersionsOf(k) = 1..n
  BY DEF Dense
<1>2. NextVersion(k) = n + 1
  BY <1>1, NextVersionIs
<1>3. PICK m \in {n, n + 1} : VersionsOf(k)' = 1..m
  <2>1. (1..n) \cup {n + 1} = 1..(n + 1)
    OBVIOUS
  <2>2. VersionsOf(k)' = 1..n \/ VersionsOf(k)' = 1..(n + 1)
    BY <1>1, <1>2, <2>1 DEF Grown
  <2> QED
    BY <2>2
<1>4. Versions(assigned'[k]) = 1..m /\ NextVersion(k)' = After(assigned'[k])
  BY <1>3 DEF Versions, After, VersionsOf, NextVersion
<1>5. NextVersion(k)' = m + 1
  BY <1>3, <1>4, AfterIs
<1> QED
  BY <1>1, <1>2, <1>3, <1>5 DEF Grown

\* Approvals are never withdrawn.
LEMMA ApprovalStays ==
  ASSUME [Next]_vars, NEW k, NEW b, NEW artifacts, Approved(k, b, artifacts)
  PROVE  Approved(k, b, artifacts)'
<1>1. approvals \subseteq approvals'
  BY DEF Next, vars, store, CreateEnrollmentToken, UseEnrollmentToken, Register,
         BeginRevokeToken, RevokeEnrollmentToken, RevokeKLIQ,
         ApprovePolicyBuildManifest, BeginPlan, NextAssignmentVersion,
         CheckAssignment, InsertAssignment, RevokeAssignment, BeginPull,
         LatestAssignment, Fail
<1> QED
  BY <1>1 DEF Approved, PairedWithAdapter

\* What a planner relies on between its steps is not disturbed by others.
LEMMA PlanStays ==
  ASSUME IInv, [Next]_vars, NEW r \in Requests, Planned(r)
  PROVE  Planned(r)'
<1>1. ASSUME r.at = "version" PROVE Approved(r.kliq, r.build, r.artifacts)'
  BY <1>1, ApprovalStays DEF Planned
<1>2. ASSUME r.at \in {"check", "insert"}
      PROVE  /\ Approved(r.kliq, r.assignment.build, r.assignment.artifacts)'
             /\ r.assignment.version <= NextVersion(r.kliq)'
  <2>1. PICK k \in Kliqs, x \in Assignments : k = r.kliq /\ x = r.assignment
    BY <1>2, RequestShape
  <2>2. Approved(k, x.build, x.artifacts) /\ x.version <= NextVersion(k)
    BY <1>2, <2>1 DEF Planned
  <2>3. Approved(k, x.build, x.artifacts)'
    BY <2>2, ApprovalStays
  <2>4. /\ NextVersion(k) \in Nat
        /\ NextVersion(k)' \in Nat
        /\ NextVersion(k) <= NextVersion(k)'
    BY Growth, GrownVersions DEF IInv
  <2>5. x.version \in Nat
    BY DEF Assignments
  <2>6. x.version <= NextVersion(k)'
    BY <2>2, <2>4, <2>5
  <2> QED
    BY <2>1, <2>3, <2>6
<1> QED
  BY <1>1, <1>2 DEF Planned

LEMMA PlansStep == ASSUME IInv, [Next]_vars PROVE PlansStand'
<1> USE DEF store
<1>0. \A w \in Workers : request[w] \in Requests
  BY DEF IInv, TypeOK
<1>a. ASSUME NEW w \in Workers, NEW r, Go(w, r), Planned(r)' PROVE PlansStand'
  <2> SUFFICES ASSUME NEW v \in Workers PROVE Planned(request[v])'
    BY DEF PlansStand
  <2>1. CASE v = w
    <3>1. request'[v] = r
      BY <1>a, <2>1 DEF Go, IInv, TypeOK
    <3> QED
      BY <1>a, <3>1 DEF Planned
  <2>2. CASE v # w
    <3>1. PICK q \in Requests : q = request[v]
      BY <1>0
    <3>2. Planned(q)'
      BY <3>1, PlanStays DEF IInv, PlansStand
    <3>3. request'[v] = q
      BY <1>a, <2>2, <3>1 DEF Go, IInv, TypeOK
    <3> QED
      BY <3>2, <3>3 DEF Planned
  <2> QED
    BY <2>1, <2>2
<1>b. ASSUME UNCHANGED request PROVE PlansStand'
  <2> SUFFICES ASSUME NEW v \in Workers PROVE Planned(request[v])'
    BY DEF PlansStand
  <2>1. PICK q \in Requests : q = request[v]
    BY <1>0
  <2>2. Planned(q)'
    BY <2>1, PlanStays DEF IInv, PlansStand
  <2> QED
    BY <1>b, <2>1, <2>2 DEF Planned
<1>c. ASSUME NEW r, r.at \notin {"version", "check", "insert"} PROVE Planned(r)'
  BY <1>c DEF Planned
<1>d. ASSUME NEW w \in Workers, Answer(w) PROVE PlansStand'
  BY <1>a, <1>c, <1>d DEF Answer, Idle
<1>1. ASSUME NEW w \in Workers, NEW k \in Kliqs, NEW t \in Tokens,
             UseEnrollmentToken(w, k, t)
      PROVE  PlansStand'
  <2> DEFINE r == [at |-> "register", kliq |-> k, token |-> t]
  <2>1. r.at \notin {"version", "check", "insert"}
    OBVIOUS
  <2> QED
    BY <1>1, <1>a, <1>c, <2>1 DEF UseEnrollmentToken
<1>2. ASSUME NEW w \in Workers, NEW t \in Tokens, BeginRevokeToken(w, t)
      PROVE  PlansStand'
  <2>1. PICK r \in Requests :
          r = [at |-> "revoke_token", token |-> t, row |-> token[t]]
    BY <1>2 DEF BeginRevokeToken, IInv, TypeOK, Requests
  <2>2. r.at \notin {"version", "check", "insert"}
    BY <2>1
  <2> QED
    BY <1>2, <1>a, <1>c, <2>1, <2>2 DEF BeginRevokeToken
<1>3. ASSUME NEW w \in Workers, NEW k \in Kliqs, NEW a \in approvals,
             NEW artifacts \in SUBSET Artifacts, BeginPlan(w, k, a, artifacts)
      PROVE  PlansStand'
  <2> DEFINE r == [at |-> "version", kliq |-> k, build |-> a.build,
                   artifacts |-> artifacts]
  <2>1. Approved(k, a.build, artifacts)
    BY <1>3 DEF BeginPlan, ValidateApprovedBuild,
                ValidateApprovedBuildAuthority, Approved
  <2>2. r.at = "version" /\ r.kliq = k /\ r.build = a.build
          /\ r.artifacts = artifacts
    OBVIOUS
  <2>3. Planned(r)'
    BY <2>1, <2>2, ApprovalStays DEF Planned
  <2> QED
    BY <1>3, <1>a, <2>3 DEF BeginPlan
<1>4. ASSUME NEW w \in Workers, NextAssignmentVersion(w) PROVE PlansStand'
  <2>1. PICK q \in Requests : q = request[w]
    BY <1>0
  <2>2. q.at = "version" /\ q.kliq \in Kliqs
    BY <1>4, <2>1, RequestShape DEF NextAssignmentVersion
  <2>3. PICK n \in Nat : n = NextVersion(q.kliq)
    BY <2>2, NextVersionPositive DEF IInv
  <2> DEFINE a == [version |-> n, build |-> q.build,
                   artifacts |-> q.artifacts, revoked |-> FALSE]
             r == [at |-> "check", kliq |-> q.kliq, assignment |-> a]
  <2>4. Approved(q.kliq, q.build, q.artifacts)
    BY <2>1, <2>2 DEF IInv, PlansStand, Planned
  <2>5. Approved(q.kliq, q.build, q.artifacts)'
    BY <2>4, ApprovalStays
  <2>6. n <= NextVersion(q.kliq)'
    BY <2>2, <2>3, Growth, GrownVersions DEF IInv
  <2>7. Planned(r)'
    BY <2>5, <2>6 DEF Planned
  <2>8. Go(w, r)
    BY <1>4, <2>1, <2>3 DEF NextAssignmentVersion
  <2> QED
    BY <1>a, <2>7, <2>8
<1>5. ASSUME NEW w \in Workers, CheckAssignment(w) PROVE PlansStand'
  <2>1. PICK q \in Requests : q = request[w]
    BY <1>0
  <2>2. /\ q.at = "check"
        /\ q \in [at : {"check", "insert"}, kliq : Kliqs,
                  assignment : Assignments]
    BY <1>5, <2>1, RequestShape DEF CheckAssignment
  <2>3. Planned(q)'
    BY <2>1, PlanStays DEF IInv, PlansStand
  <2> DEFINE r == [q EXCEPT !.at = "insert"]
  <2>4. r.at = "insert" /\ r.kliq = q.kliq /\ r.assignment = q.assignment
    BY <2>2
  <2>5. Planned(r)'
    BY <2>2, <2>3, <2>4 DEF Planned
  <2>6. Answer(w) \/ Go(w, r)
    BY <1>5, <2>1 DEF CheckAssignment
  <2> QED
    BY <1>a, <1>d, <2>5, <2>6
<1>6. ASSUME NEW w \in Workers, NEW k \in Kliqs, BeginPull(w, k)
      PROVE  PlansStand'
  <2> DEFINE r == [at |-> "latest", kliq |-> k]
  <2>1. r.at \notin {"version", "check", "insert"}
    OBVIOUS
  <2> QED
    BY <1>6, <1>a, <1>c, <2>1 DEF BeginPull
<1>7. ASSUME NEW w \in Workers,
             \/ Register(w) \/ RevokeEnrollmentToken(w) \/ InsertAssignment(w)
             \/ LatestAssignment(w) \/ Fail(w)
      PROVE  PlansStand'
  BY <1>7, <1>d DEF Register, RevokeEnrollmentToken, InsertAssignment,
                    LatestAssignment, Fail
<1>8. CASE UNCHANGED request
  BY <1>b, <1>8
<1> QED
  BY <1>1, <1>2, <1>3, <1>4, <1>5, <1>6, <1>7, <1>8
     DEF Next, vars, CreateEnrollmentToken, RevokeKLIQ,
         ApprovePolicyBuildManifest, RevokeAssignment

\* What is answered is the newest version, and versions do not disappear.
LEMMA ServedStep ==
  ASSUME IInv, [Next]_vars
  PROVE  ServedExists' /\ \A k \in Kliqs : served'[k] >= served[k]
<1> USE DEF store
<1>0. /\ \A w \in Workers : request[w] \in Requests
      /\ served \in [Kliqs -> Nat]
      /\ \A k \in Kliqs : VersionsOf(k) \subseteq VersionsOf(k)'
  BY Growth, GrownVersions DEF IInv, TypeOK
<1>1. CASE UNCHANGED served
  BY <1>0, <1>1 DEF IInv, ServedExists
<1>2. ASSUME NEW w \in Workers, LatestAssignment(w),
             NEW a \in Servable(request[w].kliq),
             served' = [served EXCEPT ![request[w].kliq] = a.version]
      PROVE  ServedExists' /\ \A k \in Kliqs : served'[k] >= served[k]
  <2>1. PICK j \in Kliqs : j = request[w].kliq
    BY <1>0, <1>2, RequestShape DEF LatestAssignment
  <2>2. /\ a.version \in Nat
        /\ a.version \in VersionsOf(j)
        /\ \A v \in VersionsOf(j) : v <= a.version
    <3>1. assigned[j] \subseteq Assignments
      BY <2>1 DEF IInv, TypeOK
    <3>2. a \in assigned[j] /\ \A b \in assigned[j] : b.version <= a.version
      BY <1>2, <2>1 DEF Servable
    <3> QED BY <3>1, <3>2 DEF VersionsOf, Assignments
  <2>3. a.version >= served[j]
    BY <1>0, <2>2 DEF IInv, ServedExists
  <2>4. /\ served'[j] = a.version
        /\ \A k \in Kliqs \ {j} : served'[k] = served[k]
    BY <1>0, <1>2, <2>1
  <2>5. \A k \in Kliqs : served'[k] >= served[k]
    BY <1>0, <2>3, <2>4
  <2>6. ServedExists'
    BY <1>0, <2>2, <2>4 DEF IInv, ServedExists
  <2> QED
    BY <2>5, <2>6
<1>3. ASSUME NEW w \in Workers, LatestAssignment(w)
      PROVE  ServedExists' /\ \A k \in Kliqs : served'[k] >= served[k]
  BY <1>1, <1>2, <1>3 DEF LatestAssignment
<1> QED
  BY <1>1, <1>3
     DEF Next, vars, CreateEnrollmentToken, UseEnrollmentToken, Register,
         BeginRevokeToken, RevokeEnrollmentToken, RevokeKLIQ,
         ApprovePolicyBuildManifest, BeginPlan, NextAssignmentVersion,
         CheckAssignment, InsertAssignment, RevokeAssignment, BeginPull, Fail

-----------------------------------------------------------------------------
(* Theorems. *)

LEMMA InitIInv == Init => IInv
<1> SUFFICES ASSUME Init PROVE IInv
  OBVIOUS
<1>1. TypeOK
  BY IdleIsRequest DEF Init, TypeOK
<1>2. \A t \in Tokens : AdmittedBy(t) = {}
  <2>1. \A w \in Workers : request[w].at = "idle"
    BY DEF Init, Idle
  <2> QED
    BY <2>1 DEF Init, AdmittedBy
<1>3. \A k \in Kliqs : VersionsOf(k) = 1..0
  BY DEF Init, VersionsOf
<1>4. PlansStand
  BY DEF Init, Idle, PlansStand, Planned
<1>5. ServedExists /\ PublishedIsApproved
  BY DEF Init, ServedExists, PublishedIsApproved
<1> QED
  BY <1>1, <1>2, <1>3, <1>4, <1>5
     DEF IInv, TokenAdmitsOnce, TokensSpent, Dense

LEMMA StepIInv == IInv /\ [Next]_vars => IInv'
<1> SUFFICES ASSUME IInv, [Next]_vars PROVE IInv'
  OBVIOUS
<1>1. TypeOK'
  BY TypeStep DEF IInv
<1>2. TokenAdmitsOnce' /\ TokensSpent'
  BY TokenStep DEF IInv
<1>3. Dense'
  BY Growth, GrownVersions DEF IInv, Dense
<1>4. PublishedIsApproved'
  <2> SUFFICES ASSUME NEW k \in Kliqs, NEW b \in assigned'[k]
               PROVE  Approved(k, b.build, b.artifacts)'
    BY DEF PublishedIsApproved
  <2>1. Approved(k, b.build, b.artifacts)
    BY Growth DEF Grown
  <2> QED
    BY <2>1, ApprovalStays
<1> QED
  BY <1>1, <1>2, <1>3, <1>4, ServedStep, PlansStep DEF IInv

\* The inductive invariant holds in every reachable state of the management
\* store and its handlers.
THEOREM Invariance == Spec => []IInv
  BY InitIInv, StepIInv, PTL DEF Spec

\* Every variable has its type; versions are positive (NextAssignmentVersion).
THEOREM TypeCorrect == Spec => []TypeOK
<1>1. IInv => TypeOK
  BY DEF IInv
<1> QED
  BY <1>1, Invariance, PTL

\* UseEnrollmentToken: a token lets in one node, however its uses and
\* revocations interleave.
THEOREM SingleUse == Spec => []TokenAdmitsOnce
<1>1. IInv => TokenAdmitsOnce
  BY DEF IInv
<1> QED
  BY <1>1, Invariance, PTL

\* planKLIQAssignment: what is published was approved by somebody else than its
\* author, for the scope of the node.
THEOREM OnlyApproved == Spec => []PublishedIsApproved
<1>1. IInv => PublishedIsApproved
  BY DEF IInv
<1> QED
  BY <1>1, Invariance, PTL

\* SaveAssignment: any number of concurrent planners give the versions of a node
\* out one by one and replace none.
THEOREM PlannersDoNotCollide == Spec => VersionsGrowByOne
<1> DEFINE A == \A k \in Kliqs :
                  /\ \A a \in assigned[k] :
                       \E b \in assigned'[k] : b = [a EXCEPT !.revoked = b.revoked]
                  /\ \A b \in assigned'[k] :
                       b.version \in VersionsOf(k) \/ b.version = NextVersion(k)
<1>1. IInv /\ [Next]_vars => A
  <2> SUFFICES ASSUME IInv, [Next]_vars, NEW k \in Kliqs
               PROVE  /\ \A a \in assigned[k] :
                           \E b \in assigned'[k] :
                             b = [a EXCEPT !.revoked = b.revoked]
                      /\ \A b \in assigned'[k] :
                           \/ b.version \in VersionsOf(k)
                           \/ b.version = NextVersion(k)
    OBVIOUS
  <2>1. \A b \in assigned'[k] : b.version \in VersionsOf(k)'
    BY DEF VersionsOf
  <2> QED
    BY <2>1, Growth DEF Grown
<1>2. IInv /\ [Next]_vars => [A]_vars
  BY <1>1
<1> QED
  BY <1>2, Invariance, PTL DEF Spec, VersionsGrowByOne

\* LatestAssignment: the answers to a node never go back to an older version.
THEOREM AnswersMoveForward == Spec => AnswersNeverGoBack
<1> DEFINE A == \A k \in Kliqs : served'[k] >= served[k]
<1>1. IInv /\ [Next]_vars => [A]_vars
  BY ServedStep
<1> QED
  BY <1>1, Invariance, PTL DEF Spec, AnswersNeverGoBack

\* A revoked token or registration stays so.
LEMMA RevokedRowsStay ==
  ASSUME IInv, [Next]_vars
  PROVE  /\ \A t \in Tokens :
              token[t] # None /\ token[t].revoked => token'[t].revoked
         /\ \A k \in Kliqs :
              registration[k] # None /\ registration[k].status = "revoked"
                => registration'[k].status = "revoked"
<1> DEFINE TokensStay == \A t \in Tokens :
             token[t] # None /\ token[t].revoked => token'[t].revoked
           NodesStay == \A k \in Kliqs :
             registration[k] # None /\ registration[k].status = "revoked"
               => registration'[k].status = "revoked"
<1> USE DEF store
<1>0. \A w \in Workers : request[w] \in Requests
  BY DEF IInv, TypeOK
<1>1. ASSUME NEW w \in Workers, RevokeEnrollmentToken(w) PROVE TokensStay
  <2>1. PICK t \in Tokens, row \in TokenRows :
          t = request[w].token /\ row = request[w].row
    BY <1>0, <1>1, RequestShape DEF RevokeEnrollmentToken
  <2>2. token'[t] = [row EXCEPT !.revoked = TRUE]
    BY <1>1, <2>1 DEF RevokeEnrollmentToken, IInv, TypeOK
  <2>3. token'[t].revoked
    BY <2>2 DEF TokenRows
  <2>4. \A u \in Tokens \ {t} : token'[u] = token[u]
    BY <1>1, <2>1 DEF RevokeEnrollmentToken, IInv, TypeOK
  <2> QED
    BY <2>3, <2>4
<1>2. ASSUME NEW w \in Workers, NEW k \in Kliqs, NEW t \in Tokens,
             UseEnrollmentToken(w, k, t)
      PROVE  TokensStay
  <2>1. \A u \in Tokens \ {t} : token'[u] = token[u]
    BY <1>2 DEF UseEnrollmentToken, IInv, TypeOK
  <2> QED
    BY <1>2, <2>1 DEF UseEnrollmentToken, Usable
<1>3. ASSUME NEW t \in Tokens, CreateEnrollmentToken(t) PROVE TokensStay
  BY <1>3 DEF CreateEnrollmentToken, IInv, TypeOK
<1>4. ASSUME NEW w \in Workers, Register(w) PROVE NodesStay
  <2>1. PICK j \in Kliqs : j = request[w].kliq
    BY <1>0, <1>4, RequestShape DEF Register
  <2>2. \A k \in Kliqs : registration[k] # None => registration'[k] = registration[k]
    BY <1>4, <2>1 DEF Register, IInv, TypeOK
  <2> QED
    BY <2>2
<1>5. ASSUME NEW k \in Kliqs, RevokeKLIQ(k) PROVE NodesStay
  <2>1. registration[k] \in Registrations
    BY <1>5 DEF RevokeKLIQ, IInv, TypeOK
  <2>2. registration'[k] = [registration[k] EXCEPT !.status = "revoked"]
    BY <1>5 DEF RevokeKLIQ, IInv, TypeOK
  <2>3. registration'[k].status = "revoked"
    BY <2>1, <2>2 DEF Registrations
  <2>4. \A j \in Kliqs \ {k} : registration'[j] = registration[j]
    BY <1>5 DEF RevokeKLIQ, IInv, TypeOK
  <2> QED
    BY <2>3, <2>4
<1>6. UNCHANGED token => TokensStay
  OBVIOUS
<1>7. UNCHANGED registration => NodesStay
  OBVIOUS
<1> HIDE DEF TokensStay, NodesStay
<1>8. TokensStay
  BY <1>1, <1>2, <1>3, <1>6
     DEF Next, vars, Register, BeginRevokeToken, RevokeKLIQ,
         ApprovePolicyBuildManifest, BeginPlan, NextAssignmentVersion,
         CheckAssignment, InsertAssignment, RevokeAssignment, BeginPull,
         LatestAssignment, Fail
<1>9. NodesStay
  BY <1>4, <1>5, <1>7
     DEF Next, vars, CreateEnrollmentToken, UseEnrollmentToken,
         BeginRevokeToken, RevokeEnrollmentToken,
         ApprovePolicyBuildManifest, BeginPlan, NextAssignmentVersion,
         CheckAssignment, InsertAssignment, RevokeAssignment, BeginPull,
         LatestAssignment, Fail
<1> QED
  BY <1>8, <1>9 DEF TokensStay, NodesStay

\* RevokeEnrollmentToken, RevokeKLIQ, RevokeAssignment: no request under way
\* takes a revocation back.
THEOREM RevocationStands == Spec => RevocationIsFinal
<1> DEFINE A ==
      /\ \A t \in Tokens :
           token[t] # None /\ token[t].revoked => token'[t].revoked
      /\ \A k \in Kliqs :
           /\ registration[k] # None /\ registration[k].status = "revoked"
                => registration'[k].status = "revoked"
           /\ \A a \in assigned[k] : a.revoked => a \in assigned'[k]
<1>1. IInv /\ [Next]_vars => A
  BY RevokedRowsStay, Growth DEF Grown
<1>2. IInv /\ [Next]_vars => [A]_vars
  BY <1>1
<1> QED
  BY <1>2, Invariance, PTL DEF Spec, RevocationIsFinal

-----------------------------------------------------------------------------
(* A managed node.  The handlers of Forge implement the Forge that         *)
(* AssignmentActivation assumes, so its theorems hold of a node and the    *)
(* handlers, and together with those above they tell what a node acts on.  *)

\* An assignment that has been signed is in the bounds and not revoked.
Draft(r) ==
  r.at \in {"check", "insert"} =>
    r.assignment.version <= MaxVersion /\ ~r.assignment.revoked

Drafts == \A w \in Workers : Draft(request[w])

\* The primary key: a version tells the row of a node.
Keyed(rows) ==
  /\ \A a \in rows : a.version <= MaxVersion
  /\ \A a, b \in rows : a.version = b.version => a = b

ManagedInv == IInv /\ Drafts /\ \A k \in Kliqs : Keyed(assigned[k])

\* What a step may do to the rows of a node.
LEMMA TableStep ==
  ASSUME TypeOK, [Next]_vars, NEW k \in Kliqs
  PROVE  \/ assigned'[k] = assigned[k]
         \/ \E w \in Workers :
              /\ request[w].at = "insert"
              /\ request[w].kliq = k
              /\ request[w].assignment.version \notin VersionsOf(k)
              /\ assigned'[k] = assigned[k] \cup {request[w].assignment}
         \/ \E v \in VersionsOf(k) :
              assigned'[k] = {MarkRevoked(a, v) : a \in assigned[k]}
<1> DEFINE Goal ==
         \/ assigned'[k] = assigned[k]
         \/ \E w \in Workers :
              /\ request[w].at = "insert"
              /\ request[w].kliq = k
              /\ request[w].assignment.version \notin VersionsOf(k)
              /\ assigned'[k] = assigned[k] \cup {request[w].assignment}
         \/ \E v \in VersionsOf(k) :
              assigned'[k] = {MarkRevoked(a, v) : a \in assigned[k]}
<1> USE DEF store
<1>0. assigned \in [Kliqs -> SUBSET Assignments]
  BY DEF TypeOK
<1>1. ASSUME NEW w \in Workers, InsertAssignment(w) PROVE Goal
  <2>1. CASE request[w].kliq # k
    BY <1>0, <1>1, <2>1 DEF InsertAssignment
  <2>2. CASE request[w].assignment.version \in VersionsOf(request[w].kliq)
    BY <1>1, <2>2 DEF InsertAssignment
  <2>3. CASE request[w].kliq = k /\ request[w].assignment.version \notin VersionsOf(k)
    <3>1. assigned'[k] = assigned[k] \cup {request[w].assignment}
      BY <1>0, <1>1, <2>3 DEF InsertAssignment
    <3> QED BY <1>1, <2>3, <3>1 DEF InsertAssignment
  <2> QED BY <2>1, <2>2, <2>3
<1>2. ASSUME NEW j \in Kliqs, NEW v \in 1..MaxVersion, RevokeAssignment(j, v)
      PROVE  Goal
  <2>1. CASE j # k
    BY <1>0, <1>2, <2>1 DEF RevokeAssignment
  <2>2. CASE j = k
    <3>1. assigned'[k] = {MarkRevoked(a, v) : a \in assigned[k]}
      BY <1>0, <1>2, <2>2 DEF RevokeAssignment
    <3>2. v \in VersionsOf(k)
      BY <1>2, <2>2 DEF RevokeAssignment
    <3> QED BY <3>1, <3>2
  <2> QED BY <2>1, <2>2
<1>3. UNCHANGED assigned => Goal
  OBVIOUS
<1> HIDE DEF Goal
<1>4. Goal
  BY <1>1, <1>2, <1>3
     DEF Next, vars, CreateEnrollmentToken, UseEnrollmentToken, Register,
         BeginRevokeToken, RevokeEnrollmentToken, RevokeKLIQ,
         ApprovePolicyBuildManifest, BeginPlan, NextAssignmentVersion,
         CheckAssignment, BeginPull, LatestAssignment, Fail
<1> QED BY <1>4 DEF Goal

\* A planner signs only the next version, if it is in the bounds.
LEMMA DraftsStep == ASSUME TypeOK, Dense, Drafts, [Next]_vars PROVE Drafts'
<1> USE DEF store
<1>0. request \in [Workers -> Requests]
  BY DEF TypeOK
<1>a. ASSUME NEW w \in Workers, NEW r, Go(w, r), Draft(r) PROVE Drafts'
  <2> SUFFICES ASSUME NEW v \in Workers PROVE Draft(request'[v])
    BY DEF Drafts, Draft
  <2>1. CASE v = w
    BY <1>0, <1>a, <2>1 DEF Go
  <2>2. CASE v # w
    <3>1. request'[v] = request[v]
      BY <1>0, <1>a, <2>2 DEF Go
    <3> QED BY <3>1 DEF Drafts
  <2> QED BY <2>1, <2>2
<1>b. ASSUME NEW r, r.at \notin {"check", "insert"} PROVE Draft(r)
  BY <1>b DEF Draft
<1>c. ASSUME NEW w \in Workers, Answer(w) PROVE Drafts'
  BY <1>a, <1>b, <1>c DEF Answer, Idle
<1>1. ASSUME NEW w \in Workers, NEW k \in Kliqs, NEW t \in Tokens,
             UseEnrollmentToken(w, k, t)
      PROVE  Drafts'
  BY <1>1, <1>a, <1>b DEF UseEnrollmentToken
<1>2. ASSUME NEW w \in Workers, NEW t \in Tokens, BeginRevokeToken(w, t)
      PROVE  Drafts'
  BY <1>2, <1>a, <1>b DEF BeginRevokeToken
<1>3. ASSUME NEW w \in Workers, NEW k \in Kliqs, NEW a \in approvals,
             NEW artifacts \in SUBSET Artifacts, BeginPlan(w, k, a, artifacts)
      PROVE  Drafts'
  BY <1>3, <1>a, <1>b DEF BeginPlan
<1>4. ASSUME NEW w \in Workers, NextAssignmentVersion(w) PROVE Drafts'
  <2> DEFINE n == NextVersion(request[w].kliq)
             x == [version |-> n, build |-> request[w].build,
                   artifacts |-> request[w].artifacts, revoked |-> FALSE]
             r == [at |-> "check", kliq |-> request[w].kliq, assignment |-> x]
  <2>1. Go(w, r) /\ n <= MaxVersion
    BY <1>4 DEF NextAssignmentVersion
  <2>2. r.assignment = x /\ x.version = n /\ x.revoked = FALSE
    OBVIOUS
  <2>3. Draft(r)
    BY <2>1, <2>2 DEF Draft
  <2> HIDE DEF r
  <2> QED BY <1>a, <2>1, <2>3
<1>5. ASSUME NEW w \in Workers, CheckAssignment(w) PROVE Drafts'
  <2>1. PICK q \in Requests : q = request[w]
    BY <1>0
  <2>2. /\ q.at = "check"
        /\ q \in [at : {"check", "insert"}, kliq : Kliqs,
                  assignment : Assignments]
    BY <1>5, <2>1, RequestShape DEF CheckAssignment
  <2>3. Draft(q)
    BY <2>1 DEF Drafts
  <2>4. PICK r : r = [q EXCEPT !.at = "insert"]
    OBVIOUS
  <2>5. r.assignment = q.assignment
    BY <2>2, <2>4
  <2>6. Draft(r)
    BY <2>2, <2>3, <2>5 DEF Draft
  <2>7. Answer(w) \/ Go(w, r)
    BY <1>5, <2>1, <2>4 DEF CheckAssignment
  <2> QED BY <1>a, <1>c, <2>6, <2>7
<1>6. ASSUME NEW w \in Workers, NEW k \in Kliqs, BeginPull(w, k)
      PROVE  Drafts'
  BY <1>6, <1>a, <1>b DEF BeginPull
<1>7. ASSUME NEW w \in Workers,
             \/ Register(w) \/ RevokeEnrollmentToken(w) \/ InsertAssignment(w)
             \/ LatestAssignment(w) \/ Fail(w)
      PROVE  Drafts'
  BY <1>7, <1>c DEF Register, RevokeEnrollmentToken, InsertAssignment,
                    LatestAssignment, Fail
<1>8. UNCHANGED request => Drafts'
  BY DEF Drafts, Draft
<1> QED
  BY <1>1, <1>2, <1>3, <1>4, <1>5, <1>6, <1>7, <1>8
     DEF Next, vars, CreateEnrollmentToken, RevokeKLIQ,
         ApprovePolicyBuildManifest, RevokeAssignment

\* The primary key: every step keeps a node's versions apart.
LEMMA KeyedStep ==
  ASSUME ManagedInv, [Next]_vars, NEW k \in Kliqs
  PROVE  Keyed(assigned'[k])
<1>0. Keyed(assigned[k]) /\ assigned[k] \subseteq Assignments /\ TypeOK
  BY DEF ManagedInv, IInv, TypeOK
<1>1. ASSUME NEW w \in Workers,
             request[w].at = "insert",
             request[w].kliq = k,
             request[w].assignment.version \notin VersionsOf(k),
             assigned'[k] = assigned[k] \cup {request[w].assignment}
      PROVE  Keyed(assigned'[k])
  <2>1. PICK x : x = request[w].assignment
    OBVIOUS
  <2>2. x.version <= MaxVersion
    BY <1>1, <2>1 DEF ManagedInv, Drafts, Draft
  <2>3. \A a \in assigned[k] : a.version # x.version
    BY <1>1, <2>1 DEF VersionsOf
  <2> QED BY <1>0, <1>1, <2>1, <2>2, <2>3 DEF Keyed
<1>2. ASSUME NEW v, assigned'[k] = {MarkRevoked(a, v) : a \in assigned[k]}
      PROVE  Keyed(assigned'[k])
  <2>1. \A a \in assigned[k] : MarkRevoked(a, v).version = a.version
    BY <1>0, MarkRevokedFacts
  <2> QED BY <1>0, <1>2, <2>1 DEF Keyed
<1> QED BY <1>0, <1>1, <1>2, TableStep

\* The contents of a row in the bounds.
LEMMA ContentsFacts ==
  ASSUME NEW a \in Assignments, a.version <= MaxVersion
  PROVE  /\ ContentsOf(a) \in Contents
         /\ ContentsOf(a).version = a.version
         /\ ContentsOf(a).build = a.build
         /\ ContentsOf(a).artifacts = a.artifacts
  BY ConstantsAssumption DEF Assignments, ContentsOf, Contents

\* The rows of the node and what View shows of them.
LEMMA RowsOfNode ==
  ASSUME ManagedInv
  PROVE  /\ assigned[Node] \subseteq Assignments
         /\ Keyed(assigned[Node])
         /\ Published \subseteq Contents
         /\ \A d \in Published : d.version \in VersionsOf(Node)
<1>1. assigned[Node] \subseteq Assignments /\ Keyed(assigned[Node])
  BY NodeAssumption DEF ManagedInv, IInv, TypeOK
<1>2. ASSUME NEW d \in Published
      PROVE  d \in Contents /\ d.version \in VersionsOf(Node)
  <2>1. PICK a \in assigned[Node] : d = ContentsOf(a)
    BY DEF Published
  <2>2. a \in Assignments /\ a.version <= MaxVersion
    BY <1>1 DEF Keyed
  <2> QED BY <2>1, <2>2, ContentsFacts DEF VersionsOf
<1> QED BY <1>1, <1>2

\* A step that leaves the rows of the node alone is not seen.
LEMMA NotSeen ==
  ASSUME assigned'[Node] = assigned[Node], UNCHANGED nodeVars
  PROVE  UNCHANGED View!vars
<1>1. Published' = Published /\ Withdrawn' = Withdrawn
  BY DEF Published, Withdrawn
<1> QED BY <1>1 DEF nodeVars, View!vars

\* SaveAssignment's insertion is seen as Publish.
LEMMA InsertIsPublish ==
  ASSUME ManagedInv, NEW x \in Assignments, x.version <= MaxVersion, ~x.revoked,
         \A u \in VersionsOf(Node) : u < x.version,
         assigned'[Node] = assigned[Node] \cup {x}, UNCHANGED nodeVars
  PROVE  View!Next
<1> DEFINE d == ContentsOf(x)
<1>1. d \in Contents /\ d.version = x.version /\ x.version \in 1 .. MaxVersion
  <2>1. d \in Contents /\ d.version = x.version
    BY ContentsFacts
  <2>2. x.version \in Nat \ {0} /\ MaxVersion \in Nat
    BY ConstantsAssumption DEF Assignments
  <2> HIDE DEF d
  <2> QED BY <2>1, <2>2
<1>2. Published' = Published \cup {d}
  BY DEF Published
<1>3. Withdrawn' = Withdrawn
  BY DEF Withdrawn
<1>4. \A e \in Published : e \in Contents /\ e.version < x.version
  BY RowsOfNode
<1> HIDE DEF d
<1>5. d \notin Published
  <2>1. x.version \in Nat
    BY DEF Assignments
  <2> QED BY <1>1, <1>4, <2>1
<1>6. [c \in Contents |-> IF c \in Published' THEN c.version ELSE 0] =
        [[c \in Contents |-> IF c \in Published THEN c.version ELSE 0]
           EXCEPT ![d] = x.version]
  BY <1>1, <1>2
<1>7. View!Publish(d, x.version)
  BY <1>1, <1>2, <1>3, <1>4, <1>5, <1>6 DEF View!Publish, nodeVars
<1> QED BY <1>1, <1>7 DEF View!Next

\* RevokeAssignment's update is seen as RevokeAssignment, or was done before.
LEMMA UpdateIsRevoke ==
  ASSUME ManagedInv, NEW v \in VersionsOf(Node),
         assigned'[Node] = {MarkRevoked(a, v) : a \in assigned[Node]},
         UNCHANGED nodeVars
  PROVE  View!Next \/ UNCHANGED View!vars
<1>0. /\ assigned[Node] \subseteq Assignments
      /\ \A a \in assigned[Node] : a.version <= MaxVersion
      /\ \A a, b \in assigned[Node] : a.version = b.version => a = b
  BY RowsOfNode DEF Keyed
<1>1. PICK x \in assigned[Node] : x.version = v
  BY DEF VersionsOf
<1> DEFINE d == ContentsOf(x)
<1>2. \A a \in assigned[Node] : /\ ContentsOf(MarkRevoked(a, v)) = ContentsOf(a)
                                /\ MarkRevoked(a, v).revoked <=> a.revoked \/ a = x
  <2> SUFFICES ASSUME NEW a \in assigned[Node]
               PROVE  /\ ContentsOf(MarkRevoked(a, v)) = ContentsOf(a)
                      /\ MarkRevoked(a, v).revoked <=> a.revoked \/ a = x
    OBVIOUS
  <2>1. a \in Assignments
    BY <1>0
  <2>2. ContentsOf(MarkRevoked(a, v)) = ContentsOf(a)
    BY <2>1, MarkRevokedFacts DEF ContentsOf
  <2>3. MarkRevoked(a, v).revoked <=> a.revoked \/ a.version = v
    BY <2>1 DEF MarkRevoked, Assignments
  <2>4. a.version = v <=> a = x
    BY <1>0, <1>1
  <2> QED BY <2>2, <2>3, <2>4
<1>3. Published' = Published
  BY <1>2 DEF Published
<1>4. Withdrawn' = Withdrawn \cup {d}
  BY <1>1, <1>2 DEF Withdrawn
<1>5. d \in Published /\ d \in Contents
  BY <1>0, <1>1, ContentsFacts DEF Published
<1> HIDE DEF d
<1>6. CASE d \in Withdrawn
  <2>1. Withdrawn' = Withdrawn
    BY <1>4, <1>6
  <2> QED BY <1>3, <2>1 DEF nodeVars, View!vars
<1>7. CASE d \notin Withdrawn
  <2>1. View!RevokeAssignment(d)
    BY <1>3, <1>4, <1>5, <1>7 DEF View!RevokeAssignment, nodeVars
  <2> QED BY <1>5, <2>1 DEF View!Next
<1> QED BY <1>6, <1>7

\* What LatestAssignment answers, the node sees as served.
LEMMA AnswerIsServed ==
  ASSUME ManagedInv, NEW a \in Servable(Node)
  PROVE  ContentsOf(a) \in Contents /\ View!Served(ContentsOf(a))
<1>0. /\ assigned[Node] \subseteq Assignments
      /\ \A b \in assigned[Node] : b.version <= MaxVersion
      /\ \A b, c \in assigned[Node] : b.version = c.version => b = c
  BY RowsOfNode DEF Keyed
<1>1. /\ a \in assigned[Node]
      /\ ~a.revoked
      /\ \A b \in assigned[Node] : b.version <= a.version
  BY DEF Servable
<1> DEFINE d == ContentsOf(a)
<1>2. d \in Contents /\ d \in Published /\ d.version = a.version
  BY <1>0, <1>1, ContentsFacts DEF Published
<1>3. d \notin Withdrawn
  <2> SUFFICES ASSUME NEW b \in assigned[Node], b.revoked, d = ContentsOf(b)
               PROVE  FALSE
    BY DEF Withdrawn
  <2>1. b.version = a.version
    BY <1>0, <1>2, ContentsFacts
  <2> QED BY <1>0, <1>1, <2>1
<1>4. \A e \in Published : e \in Contents /\ e.version <= d.version
  <2> SUFFICES ASSUME NEW b \in assigned[Node]
               PROVE  ContentsOf(b) \in Contents /\ ContentsOf(b).version <= d.version
    BY DEF Published
  <2> QED BY <1>0, <1>1, <1>2, ContentsFacts
<1> HIDE DEF d
<1>5. View!Newest(d)
  BY <1>2, <1>4 DEF View!Newest
<1>6. View!Served(d)
  BY <1>3, <1>5 DEF View!Served
<1> QED BY <1>2, <1>6 DEF d

\* An answer that reaches a process is seen as Fetch.
LEMMA FetchIsFetch ==
  ASSUME ManagedInv, NEW w \in Workers, NEW p \in Loaders, Fetch(w, p)
  PROVE  View!Next
<1>1. UNCHANGED assigned
  BY DEF Fetch, LatestAssignment, store
<1>2. Published' = Published /\ Withdrawn' = Withdrawn
  BY <1>1 DEF Published, Withdrawn
<1>3. PICK a \in Servable(Node) :
        loader' = [loader EXCEPT ![p] = [pc |-> "verify", base |-> loader[p].base,
                                         cur |-> ContentsOf(a)]]
  BY DEF Fetch
<1>4. ContentsOf(a) \in Contents /\ View!Served(ContentsOf(a))
  BY AnswerIsServed
<1>5. View!Fetch(p)
  BY <1>2, <1>3, <1>4 DEF Fetch, View!Fetch, View!At, View!Goto, View!forgeVars
<1> QED BY <1>5 DEF View!Next, View!Step

\* Every step of Forge and the node is one of AssignmentActivation or is not
\* seen there.
LEMMA ManagedStepIsSeen ==
  ASSUME ManagedInv, [ManagedNext]_<<vars, nodeVars>>
  PROVE  [View!Next]_(View!vars)
<1>1. CASE [Next]_vars /\ UNCHANGED nodeVars
  <2>0. TypeOK /\ Node \in Kliqs
    BY NodeAssumption DEF ManagedInv, IInv
  <2>1. CASE assigned'[Node] = assigned[Node]
    BY <1>1, <2>1, NotSeen
  <2>2. ASSUME NEW w \in Workers,
               request[w].at = "insert",
               request[w].kliq = Node,
               request[w].assignment.version \notin VersionsOf(Node),
               assigned'[Node] = assigned[Node] \cup {request[w].assignment}
        PROVE  View!Next
    <3>1. PICK x \in Assignments : x = request[w].assignment
      BY <2>0, <2>2, RequestShape DEF TypeOK
    <3>2. x.version <= MaxVersion /\ ~x.revoked
      BY <2>2, <3>1 DEF ManagedInv, Drafts, Draft
    <3>3. x.version <= NextVersion(Node)
      BY <2>2, <3>1 DEF ManagedInv, IInv, PlansStand, Planned
    <3>4. PICK n \in Nat : VersionsOf(Node) = 1..n
      BY <2>0 DEF ManagedInv, IInv, Dense
    <3>5. NextVersion(Node) = n + 1
      BY <2>0, <3>4, NextVersionIs
    <3>6. x.version \in Nat \ {0}
      BY DEF Assignments
    <3>7. \A u \in VersionsOf(Node) : u < x.version
      <4>1. PICK v \in Nat \ {0} : v = x.version
        BY <3>6
      <4>2. v \notin 1..n
        BY <2>2, <3>1, <3>4, <4>1
      <4>3. \A u \in 1..n : u < v
        BY <4>2
      <4> QED BY <3>4, <4>1, <4>3
    <3> QED BY <1>1, <2>2, <3>1, <3>2, <3>7, InsertIsPublish
  <2>3. ASSUME NEW v \in VersionsOf(Node),
               assigned'[Node] = {MarkRevoked(a, v) : a \in assigned[Node]}
        PROVE  View!Next \/ UNCHANGED View!vars
    BY <1>1, <2>3, UpdateIsRevoke
  <2> QED BY <1>1, <2>0, <2>1, <2>2, <2>3, TableStep
<1>2. ASSUME NEW w \in Workers, NEW p \in Loaders, Fetch(w, p) PROVE View!Next
  BY <1>2, FetchIsFetch
<1>3. NodeStep => View!Next
  BY DEF NodeStep, View!Next, View!Step
<1> QED BY <1>1, <1>2, <1>3 DEF ManagedNext

\* Forge does in every step what it does by itself.
LEMMA ForgeStepsOnly ==
  ASSUME [ManagedNext]_<<vars, nodeVars>>
  PROVE  [Next]_vars
<1>1. ASSUME NEW w \in Workers, NEW p \in Loaders, Fetch(w, p) PROVE Next
  BY <1>1 DEF Fetch, Next
<1> QED BY <1>1 DEF ManagedNext

\* Every step of Forge or the node keeps the invariant.
LEMMA ManagedInvStep ==
  ManagedInv /\ [ManagedNext]_<<vars, nodeVars>> => ManagedInv'
<1> SUFFICES ASSUME ManagedInv, [ManagedNext]_<<vars, nodeVars>> PROVE ManagedInv'
  OBVIOUS
<1>1. [Next]_vars
  BY ForgeStepsOnly
<1>2. IInv'
  BY <1>1, StepIInv DEF ManagedInv
<1>3. Drafts'
  BY <1>1, DraftsStep DEF ManagedInv, IInv
<1>4. \A k \in Kliqs : Keyed(assigned[k])'
  BY <1>1, KeyedStep DEF Keyed
<1> QED BY <1>2, <1>3, <1>4 DEF ManagedInv

\* An empty table is seen as a Forge that has published nothing.
LEMMA ManagedInvInit == ManagedInit => ManagedInv /\ View!Init
<1> SUFFICES ASSUME ManagedInit PROVE ManagedInv /\ View!Init
  OBVIOUS
<1>1. IInv
  BY InitIInv DEF ManagedInit
<1>2. Drafts
  BY DEF ManagedInit, Init, Drafts, Draft, Idle
<1>3. \A k \in Kliqs : assigned[k] = {}
  BY DEF ManagedInit, Init
<1>4. \A k \in Kliqs : Keyed(assigned[k])
  BY <1>3 DEF Keyed
<1>5. Published = {} /\ Withdrawn = {}
  BY <1>3, NodeAssumption DEF Published, Withdrawn
<1>6. View!Init
  BY <1>5 DEF ManagedInit, NodeInit, View!Init
<1> QED BY <1>1, <1>2, <1>4, <1>6 DEF ManagedInv

\* The invariant holds in every reachable state.
LEMMA ManagedInvariance == ManagedSpec => []ManagedInv
BY ManagedInvInit, ManagedInvStep, PTL DEF ManagedSpec

\* Forge's handlers over Postgres, whose planners overlap, publish, revoke and
\* serve assignments as AssignmentActivation takes for granted: with them the
\* node behaves as specified there (View!Spec, ImplementsActivation).
THEOREM ManagedNodeImplements == ManagedSpec => View!Spec /\ ImplementsActivation
<1> DEFINE A == UNCHANGED <<assigned, nodeVars>> \/ [View!Next]_(View!vars)
<1>1. ManagedInv /\ [ManagedNext]_<<vars, nodeVars>> => [View!Next]_(View!vars)
  BY ManagedStepIsSeen
<1>2. ManagedInv /\ [ManagedNext]_<<vars, nodeVars>> => [A]_<<assigned, nodeVars>>
  BY <1>1
<1>3. ManagedSpec => View!Spec
  BY <1>1, ManagedInvInit, ManagedInvariance, PTL DEF ManagedSpec, View!Spec
<1>4. ManagedSpec => ImplementsActivation
  BY <1>2, ManagedInvInit, ManagedInvariance, PTL
  DEF ManagedSpec, ImplementsActivation
<1> QED BY <1>3, <1>4

\* The theorems about AssignmentActivation, of the node and its view of Forge.
Activation == INSTANCE AssignmentActivationProofs WITH
                Digests <- Contents,
                version <- [d \in Contents |-> IF d \in Published THEN d.version ELSE 0],
                stored  <- Published,
                revoked <- Withdrawn

\* Activation has the same definitions as View.
LEMMA ViewIsActivation == View!Spec => Activation!Spec
<1>1. View!Init => Activation!Init
  BY DEF View!Init, Activation!Init, View!Idle, Activation!Idle
<1>2. [View!Next]_(View!vars) => [Activation!Next]_(Activation!vars)
  <2>1. View!vars = Activation!vars /\ (View!vars)' = (Activation!vars)'
    BY DEF View!vars, Activation!vars
  <2>2. View!Next => Activation!Next
    BY DEF View!Next, Activation!Next, View!Publish, Activation!Publish,
           View!RevokeAssignment, Activation!RevokeAssignment,
           View!ForgeRestart, Activation!ForgeRestart, View!BeginLoad,
           Activation!BeginLoad, View!Step, Activation!Step, View!Fetch,
           Activation!Fetch, View!Verify, Activation!Verify, View!Save,
           Activation!Save, View!LoadFails, Activation!LoadFails,
           View!ActivateArtifacts, Activation!ActivateArtifacts,
           View!ActivateFails, Activation!ActivateFails, View!DaemonRestart,
           Activation!DaemonRestart, View!Tick, Activation!Tick, View!Served,
           Activation!Served, View!Newest, Activation!Newest, View!At,
           Activation!At, View!Goto, Activation!Goto, View!Verified,
           Activation!Verified, View!Acceptable, Activation!Acceptable,
           View!VersionOf, Activation!VersionOf, View!Idle, Activation!Idle,
           View!forgeVars, Activation!forgeVars
  <2> QED BY <2>1, <2>2
<1> QED BY <1>1, <1>2, PTL DEF View!Spec, Activation!Spec

\* They apply: the constants are as AssignmentActivation takes them to be.
LEMMA AssumptionsHold == Activation!ConstantsAssumption
  BY NodeAssumption

\* A published assignment of the node is approved.
LEMMA PublishedSanctioned ==
  ASSUME ManagedInv, NEW d \in Published
  PROVE  Sanctioned(d)
<1>1. PICK a \in assigned[Node] : d = ContentsOf(a)
  BY DEF Published
<1>2. d.build = a.build /\ d.artifacts = a.artifacts
  BY <1>1 DEF ContentsOf
<1>3. Approved(Node, a.build, a.artifacts)
  BY NodeAssumption DEF ManagedInv, IInv, PublishedIsApproved
<1> QED BY <1>2, <1>3 DEF Sanctioned

\* What ApprovePolicyBuildManifest, SaveAssignment, LatestAssignment,
\* LoadManagedBundle and activateManagedArtifacts do, each at its own time, adds
\* up: a node acts only on approved assignments of its own (ActsOnApproved).
THEOREM NodeActsOnApproved == ManagedSpec => []ActsOnApproved
<1>1. ManagedInv /\ Activation!TypeOK /\ Activation!ActsOnVerified => ActsOnApproved
  <2> SUFFICES ASSUME ManagedInv, Activation!TypeOK, Activation!ActsOnVerified
               PROVE  ActsOnApproved
    OBVIOUS
  <2>1. ASSUME NEW d \in Contents, Activation!Fit(d) PROVE Sanctioned(d)
    <3>1. d \in Published
      BY <2>1 DEF Activation!Fit
    <3> QED BY <3>1, PublishedSanctioned
  <2>2. active # None => Sanctioned(active)
    BY <2>1 DEF Activation!TypeOK, Activation!Assignments, Activation!ActsOnVerified
  <2>3. registry = Bootstrap
          \/ \E d \in Published : Sanctioned(d) /\ registry = AdaptersOf[d]
    BY <2>1 DEF Activation!ActsOnVerified, Sanctioned
  <2>4. PublishedIsApproved
    BY DEF ManagedInv, IInv
  <2> QED BY <2>2, <2>3, <2>4 DEF ActsOnApproved
<1>2. Activation!Spec => []Activation!TypeOK /\ []Activation!ActsOnVerified
  BY AssumptionsHold, Activation!TypeCorrect, Activation!NodeActsOnVerified
<1> QED BY <1>1, <1>2, ManagedInvariance, ManagedNodeImplements,
           ViewIsActivation, PTL

\* Once RevokeAssignment has marked a row of the node, a node that is without the
\* assignment stays without it: the planners and requests under way at Forge do
\* not bring it back, nor do loads of the node that overlap with them.
THEOREM RevocationReachesNode == ManagedSpec => View!RevokedStaysOut
<1> DEFINE A == \A d \in Contents : d \in Withdrawn /\ View!Without(d) => View!Without(d)'
           B == \A d \in Contents :
                  d \in Withdrawn /\ Activation!Without(d) => Activation!Without(d)'
<1>1. [B]_(Activation!vars) => [A]_(View!vars)
  BY DEF View!Without, Activation!Without, View!vars, Activation!vars
<1>2. Activation!Spec => [][B]_(Activation!vars)
  BY AssumptionsHold, Activation!RevokedIsNotActivated DEF Activation!RevokedStaysOut
<1> HIDE DEF A, B
<1>3. ManagedSpec => [][A]_(View!vars)
  BY <1>1, <1>2, ManagedNodeImplements, ViewIsActivation, PTL
<1> QED BY <1>3 DEF A, View!RevokedStaysOut

\* The version in kliq_assignments of what the node acts on only grows, or the
\* change is an approved rollback.
NodeMovesForward ==
  [][active' # active /\ active # None =>
       active'.version > active.version \/ active' \in Rollback]_<<vars, nodeVars>>

\* If only the daemon loads assignments, the node follows the versions that
\* Forge has given out and never goes back on its own, although LoadManagedBundle
\* reads the active version before it asks Forge, whose planners publish and
\* revoke in between.
THEOREM NodeFollowsForge ==
  ASSUME Loaders = {"daemon"}
  PROVE  ManagedSpec => NodeMovesForward
<1> DEFINE A == active' # active /\ active # None =>
                  active'.version > active.version \/ active' \in Rollback
           B == active' # active =>
                  Activation!VersionOf(active') > Activation!VersionOf(active)
                    \/ active' \in Rollback
<1>1. ManagedInv /\ ActsOnApproved /\ Activation!TypeOK' /\ [B]_(Activation!vars)
        => [A]_<<vars, nodeVars>>
  <2> SUFFICES ASSUME ManagedInv, ActsOnApproved, Activation!TypeOK',
                      [B]_(Activation!vars), active' # active, active # None
               PROVE  active'.version > active.version \/ active' \in Rollback
    OBVIOUS
  <2>1. B
    BY DEF Activation!vars
  <2>2. CASE active' \in Rollback
    BY <2>2
  <2>3. CASE Activation!VersionOf(active') > Activation!VersionOf(active)
    <3>1. active \in Published /\ active \in Contents
      BY RowsOfNode DEF ActsOnApproved, Sanctioned
    <3>2. Activation!VersionOf(active) = active.version /\ active.version \in Nat \ {0}
      BY <3>1 DEF Activation!VersionOf, Contents
    <3>3. active' \in Contents
      <4>1. active' # None
        BY <2>3, <3>2 DEF Activation!VersionOf
      <4> QED BY <4>1 DEF Activation!TypeOK, Activation!Assignments
    <3>4. active' \in Published
      <4> SUFFICES ASSUME active' \notin Published PROVE FALSE
        OBVIOUS
      <4>1. active' # None
        BY <3>3, AssumptionsHold DEF Activation!ConstantsAssumption
      <4>2. Activation!VersionOf(active') = 0
        BY <3>3, <4>1 DEF Activation!VersionOf
      <4> QED BY <2>3, <3>2, <4>2
    <3>5. Activation!VersionOf(active') = active'.version
      BY <3>3, <3>4, AssumptionsHold DEF Activation!VersionOf
    <3> QED BY <2>3, <3>2, <3>5
  <2> QED BY <2>1, <2>2, <2>3
<1>2. Activation!Spec => [][B]_(Activation!vars)
  <2>1. Activation!Spec => Activation!NeverOlder
    BY AssumptionsHold, Activation!DaemonNeverDowngrades
  <2> QED BY <2>1 DEF Activation!NeverOlder
<1>4. Activation!Spec => []Activation!TypeOK
  BY AssumptionsHold, Activation!TypeCorrect
<1> HIDE DEF A, B
<1>3. ManagedSpec => [][A]_<<vars, nodeVars>>
  BY <1>1, <1>2, <1>4, ManagedInvariance, NodeActsOnApproved,
     ManagedNodeImplements, ViewIsActivation, PTL
<1> QED BY <1>3 DEF A, NodeMovesForward

-----------------------------------------------------------------------------
(* Trust bundles.                                                          *)

Calls ==
  [pc: {"idle", "validate", "save", "record", "rotate"}, key: Keys \cup {Absent},
   next: Keys \cup {Absent}, bundle: Bundles \cup {Absent},
   read: Bundles \cup {Absent}]

TrustTypeOK ==
  /\ trust \in [Keys -> Bundles \cup {Absent}]
  /\ revocation \in SUBSET Keys
  /\ successor \in [Keys -> SUBSET Keys]
  /\ reseeded \in SUBSET Keys
  /\ call \in [TrustCalls -> Calls]

\* The table t becomes u: except for the keys in d, a bundle that stays active
\* does not change, and one that changes keeps its material and its expiry.
Shrinks(t, u, d) ==
  \A k \in Keys :
    t[k] # Absent =>
      /\ u[k] # Absent
      /\ k \notin d =>
           /\ u[k].material = t[k].material
           /\ t[k].status = "revoked" => u[k].status = "revoked"
           /\ u[k].status = "active" => u[k] = t[k]
           /\ u[k].status = "revoked" \/ u[k].expiresAt = t[k].expiresAt

\* What a request in state s relies on, for a table t with reseeded keys d.
Sound(s, t, d) ==
  /\ s.pc \in {"validate", "save", "record"} =>
       /\ s.key \in Keys /\ s.bundle \in Bundles
       /\ s.bundle.status \in {"active", "revoked"}
  /\ s.pc \in {"validate", "save"} /\ s.bundle.status = "revoked" =>
       /\ t[s.key] # Absent
       /\ s.key \in d \/ t[s.key].material = s.bundle.material
  /\ s.pc = "record" =>
       /\ t[s.key] # Absent
       /\ s.key \in d \/ t[s.key].status = "revoked"
  /\ s.pc = "rotate" =>
       /\ s.key \in Keys /\ s.next \in Keys /\ s.key # s.next
       /\ s.bundle \in Bundles /\ s.bundle.status = "active"
       /\ s.read \in Bundles
       /\ t[s.key] # Absent
       /\ \/ s.key \in d
          \/ /\ t[s.key].material = s.read.material
             /\ t[s.key].status = "active" => t[s.key] = s.read

CallsSound == \A c \in TrustCalls : Sound(call[c], trust, reseeded)

TrustIInv == TrustTypeOK /\ CallsSound /\ OneSuccessor

-----------------------------------------------------------------------------
(* What a request relies on.                                               *)

\* It stays true while others change the table.
LEMMA SoundStays ==
  ASSUME NEW s, NEW t, NEW u, NEW d, NEW e,
         Sound(s, t, d), Shrinks(t, u, e), d \subseteq e
  PROVE  Sound(s, u, e)
<1>1. CASE s.pc \in {"validate", "save", "record"}
  BY <1>1 DEF Sound, Shrinks
<1>2. CASE s.pc = "rotate"
  BY <1>2 DEF Sound, Shrinks
<1> QED BY <1>1, <1>2 DEF Sound

\* An idle call relies on nothing.
LEMMA IdleSound ==
  ASSUME NEW t, NEW d
  PROVE  CallIdle \in Calls /\ Sound(CallIdle, t, d)
BY DEF CallIdle, Calls, Sound

\* A table that does not change shrinks.
LEMMA ShrinksSame == ASSUME NEW t, NEW d PROVE Shrinks(t, t, d)
BY DEF Shrinks

\* A step that moves one call, to a sound state, keeps the calls sound.
LEMMA CallStep ==
  ASSUME TrustTypeOK, CallsSound, NEW c \in TrustCalls, NEW s \in Calls,
         call' = [call EXCEPT ![c] = s], Sound(s, trust', reseeded'),
         Shrinks(trust, trust', reseeded'), reseeded \subseteq reseeded'
  PROVE  call' \in [TrustCalls -> Calls] /\ CallsSound'
<1>1. call \in [TrustCalls -> Calls]
  BY DEF TrustTypeOK
<1>2. ASSUME NEW b \in TrustCalls PROVE Sound(call'[b], trust', reseeded')
  <2>1. CASE b = c
    BY <1>1, <2>1
  <2>2. CASE b # c
    <3>1. call'[b] = call[b]
      BY <1>1, <2>2
    <3>2. Sound(call[b], trust, reseeded)
      BY DEF CallsSound
    <3> QED BY <3>1, <3>2, SoundStays
  <2> QED BY <2>1, <2>2
<1> QED BY <1>1, <1>2 DEF CallsSound

\* A step that only moves a call, to a sound state, preserves the invariant.
LEMMA OnlyCall ==
  ASSUME TrustIInv, NEW c \in TrustCalls, NEW s \in Calls,
         Sound(s, trust, reseeded), CallTo(c, s),
         UNCHANGED <<trust, revocation, successor, reseeded>>
  PROVE  TrustIInv' /\ Shrinks(trust, trust', reseeded')
<1>1. Shrinks(trust, trust', reseeded') /\ Sound(s, trust', reseeded')
  BY ShrinksSame
<1>2. call' \in [TrustCalls -> Calls] /\ CallsSound'
  BY <1>1, CallStep DEF CallTo, TrustIInv
<1> QED BY <1>1, <1>2 DEF TrustIInv, TrustTypeOK, OneSuccessor

-----------------------------------------------------------------------------
(* The actions.                                                            *)

\* The empty table satisfies the invariant.
LEMMA InvInit == TrustInit => TrustIInv
<1> SUFFICES ASSUME TrustInit PROVE TrustIInv
  OBVIOUS
<1>1. TrustTypeOK
  BY IdleSound DEF TrustInit, TrustTypeOK
<1>2. CallsSound
  BY IdleSound DEF TrustInit, CallsSound
<1>3. OneSuccessor
  BY DEF TrustInit, OneSuccessor
<1> QED BY <1>1, <1>2, <1>3 DEF TrustIInv

\* A call that ends, or is cut off, leaves the table alone.
LEMMA EndStep ==
  ASSUME TrustIInv, NEW c \in TrustCalls, CallEnds(c)
  PROVE  TrustIInv' /\ Shrinks(trust, trust', reseeded')
BY IdleSound, OnlyCall DEF CallEnds

\* SeedTrust starts with the bundle that the server brings along.
LEMMA SeedStep ==
  ASSUME TrustIInv, NEW c \in TrustCalls, NEW k \in Keys, NEW b \in Offer[c],
         SeedTrust(c, k, b)
  PROVE  TrustIInv' /\ Shrinks(trust, trust', reseeded')
<1>1. PICK s : s = [CallIdle EXCEPT !.pc = "validate", !.key = k, !.bundle = b]
  OBVIOUS
<1>2. s = [pc |-> "validate", key |-> k, next |-> Absent, bundle |-> b,
           read |-> Absent]
  BY <1>1 DEF CallIdle
<1>3. b \in Bundles /\ b.status = "active"
  BY TrustAssumption DEF Bundles, Statuses
<1>4. s \in Calls /\ Sound(s, trust, reseeded)
  BY <1>2, <1>3 DEF Calls, Sound
<1>5. CallTo(c, s) /\ UNCHANGED <<trust, revocation, successor, reseeded>>
  BY <1>1 DEF SeedTrust
<1> QED BY <1>4, <1>5, OnlyCall

\* RevokeTrust starts with the bundle it read.
LEMMA RevokeStep ==
  ASSUME TrustIInv, NEW c \in TrustCalls, NEW k \in Keys, RevokeTrust(c, k)
  PROVE  TrustIInv' /\ Shrinks(trust, trust', reseeded')
<1>1. PICK b : b = [trust[k] EXCEPT !.status = "revoked"]
  OBVIOUS
<1>2. trust[k] \in Bundles /\ trust[k] # Absent
  BY DEF RevokeTrust, TrustIInv, TrustTypeOK
<1>3. b \in Bundles /\ b.status = "revoked" /\ b.material = trust[k].material
  BY <1>1, <1>2 DEF Bundles, Statuses
<1>4. PICK s : s = [CallIdle EXCEPT !.pc = "validate", !.key = k, !.bundle = b]
  OBVIOUS
<1>5. s = [pc |-> "validate", key |-> k, next |-> Absent, bundle |-> b,
           read |-> Absent]
  BY <1>4 DEF CallIdle
<1>6. s \in Calls /\ Sound(s, trust, reseeded)
  BY <1>2, <1>3, <1>5 DEF Calls, Sound
<1>7. CallTo(c, s) /\ UNCHANGED <<trust, revocation, successor, reseeded>>
  BY <1>1, <1>4 DEF RevokeTrust
<1> QED BY <1>6, <1>7, OnlyCall

\* RotateTrust goes on with the bundle it read.
LEMMA RotateStep ==
  ASSUME TrustIInv, NEW c \in TrustCalls, NEW k \in Keys, NEW n \in Keys,
         NEW b \in Offer[c], RotateTrust(c, k, n, b)
  PROVE  TrustIInv' /\ Shrinks(trust, trust', reseeded')
<1>1. PICK s : s = [CallIdle EXCEPT !.pc = "rotate", !.key = k, !.next = n,
                                    !.bundle = b, !.read = trust[k]]
  OBVIOUS
<1>2. s = [pc |-> "rotate", key |-> k, next |-> n, bundle |-> b,
           read |-> trust[k]]
  BY <1>1 DEF CallIdle
<1>3. b \in Bundles /\ b.status = "active"
  BY TrustAssumption DEF Bundles, Statuses
<1>4. trust[k] \in Bundles /\ trust[k] # Absent /\ n # k
  BY DEF RotateTrust, TrustIInv, TrustTypeOK
<1>5. s \in Calls /\ Sound(s, trust, reseeded)
  BY <1>2, <1>3, <1>4 DEF Calls, Sound
<1>6. CallTo(c, s) /\ UNCHANGED <<trust, revocation, successor, reseeded>>
  BY <1>1 DEF RotateTrust
<1> QED BY <1>5, <1>6, OnlyCall

\* ValidateSave goes on to the write, or ends.
LEMMA ValidateStep ==
  ASSUME TrustIInv, NEW c \in TrustCalls, ValidateSave(c)
  PROVE  TrustIInv' /\ Shrinks(trust, trust', reseeded')
<1>1. PICK s : s = [call[c] EXCEPT !.pc = "save"]
  OBVIOUS
<1>2. call[c] \in Calls /\ call[c].pc = "validate"
      /\ Sound(call[c], trust, reseeded)
  BY DEF ValidateSave, CallAt, TrustIInv, TrustTypeOK, CallsSound
<1>3. s \in Calls /\ s.pc = "save" /\ s.key = call[c].key
      /\ s.bundle = call[c].bundle
  BY <1>1, <1>2 DEF Calls
<1>4. Sound(s, trust, reseeded)
  BY <1>2, <1>3 DEF Sound
<1>5. CASE CallTo(c, s) /\ UNCHANGED <<trust, revocation, successor, reseeded>>
  BY <1>3, <1>4, <1>5, OnlyCall
<1>6. CASE CallEnds(c)
  BY <1>6, EndStep
<1> QED BY <1>1, <1>5, <1>6 DEF ValidateSave

\* WriteSave writes a revoked bundle, or seeds one.
LEMMA WriteStep ==
  ASSUME TrustIInv, NEW c \in TrustCalls, WriteSave(c)
  PROVE  TrustIInv' /\ Shrinks(trust, trust', reseeded')
<1>1. PICK s : s = call[c]
  OBVIOUS
<1>2. PICK k, b : k = s.key /\ b = s.bundle
  OBVIOUS
<1>3. s \in Calls /\ s.pc = "save" /\ Sound(s, trust, reseeded)
  BY <1>1 DEF WriteSave, CallAt, TrustIInv, TrustTypeOK, CallsSound
<1>4. k \in Keys /\ b \in Bundles /\ b.status \in {"active", "revoked"} /\ b # Absent
  BY <1>2, <1>3, TrustAssumption DEF Sound, Bundles, Statuses
<1>5. b.status = "revoked" =>
        trust[k] # Absent /\ (k \in reseeded \/ trust[k].material = b.material)
  BY <1>2, <1>3 DEF Sound
<1>6. /\ reseeded' = IF b.status = "active" /\ trust[k] # Absent
                     THEN reseeded \cup {k} ELSE reseeded
      /\ trust' = [trust EXCEPT ![k] = b]
      /\ UNCHANGED <<revocation, successor>>
  BY <1>1, <1>2 DEF WriteSave
<1>7. PICK r : r = IF b.status = "revoked" THEN [s EXCEPT !.pc = "record"] ELSE CallIdle
  OBVIOUS
<1>8. CallTo(c, r)
  BY <1>1, <1>2, <1>7 DEF WriteSave
<1>9. trust \in [Keys -> Bundles \cup {Absent}] /\ reseeded \in SUBSET Keys
  BY DEF TrustIInv, TrustTypeOK
<1>10. reseeded \subseteq reseeded' /\ trust'[k] = b
       /\ \A j \in Keys \ {k} : trust'[j] = trust[j]
  BY <1>4, <1>6, <1>9
<1>11. Shrinks(trust, trust', reseeded')
  <2> SUFFICES ASSUME NEW j \in Keys, trust[j] # Absent
               PROVE  /\ trust'[j] # Absent
                      /\ j \notin reseeded' =>
                           /\ trust'[j].material = trust[j].material
                           /\ trust[j].status = "revoked" => trust'[j].status = "revoked"
                           /\ trust'[j].status = "active" => trust'[j] = trust[j]
                           /\ \/ trust'[j].status = "revoked"
                              \/ trust'[j].expiresAt = trust[j].expiresAt
    BY DEF Shrinks
  <2>1. CASE j # k
    BY <1>10, <2>1
  <2>2. CASE j = k
    BY <1>4, <1>5, <1>6, <1>10, <2>2
  <2> QED BY <2>1, <2>2
<1>12. r \in Calls /\ Sound(r, trust', reseeded')
  <2>1. CASE b.status = "revoked"
    <3>1. r \in Calls /\ r.pc = "record" /\ r.key = k /\ r.bundle = b
      BY <1>2, <1>3, <1>7, <2>1 DEF Calls
    <3> QED BY <1>4, <1>10, <2>1, <3>1 DEF Sound
  <2>2. CASE b.status # "revoked"
    BY <1>7, <2>2, IdleSound
  <2> QED BY <2>1, <2>2
<1>13. call' \in [TrustCalls -> Calls] /\ CallsSound'
  BY <1>8, <1>10, <1>11, <1>12, CallStep DEF CallTo, TrustIInv
<1>14. TrustTypeOK'
  BY <1>4, <1>6, <1>9, <1>13 DEF TrustIInv, TrustTypeOK
<1>15. OneSuccessor'
  <2> SUFFICES ASSUME NEW j \in Keys, j \notin reseeded'
               PROVE  /\ \A m, n \in successor[j] : m = n
                      /\ successor[j] # {} =>
                           trust'[j] # Absent /\ trust'[j].status # "active"
                      /\ j \in revocation =>
                           trust'[j] # Absent /\ trust'[j].status = "revoked"
    BY <1>6 DEF OneSuccessor
  <2>1. /\ \A m, n \in successor[j] : m = n
        /\ successor[j] # {} => trust[j] # Absent /\ trust[j].status # "active"
        /\ j \in revocation => trust[j] # Absent /\ trust[j].status = "revoked"
    BY <1>10 DEF TrustIInv, OneSuccessor
  <2>2. CASE j # k
    BY <1>10, <2>1, <2>2
  <2>3. CASE j = k
    BY <1>4, <1>6, <1>10, <2>1, <2>3
  <2> QED BY <2>2, <2>3
<1> QED BY <1>11, <1>13, <1>14, <1>15 DEF TrustIInv

\* RecordRevocation follows a write of the revoked bundle.
LEMMA RecordStep ==
  ASSUME TrustIInv, NEW c \in TrustCalls, RecordRevocation(c)
  PROVE  TrustIInv' /\ Shrinks(trust, trust', reseeded')
<1>1. call[c].pc = "record" /\ Sound(call[c], trust, reseeded)
  BY DEF RecordRevocation, CallAt, TrustIInv, CallsSound
<1>2. PICK k \in Keys : /\ k = call[c].key /\ trust[k] # Absent
                        /\ k \in reseeded \/ trust[k].status = "revoked"
  BY <1>1 DEF Sound
<1>3. revocation' = revocation \cup {k} /\ CallTo(c, CallIdle)
      /\ UNCHANGED <<trust, successor, reseeded>>
  BY <1>2 DEF RecordRevocation
<1>4. Shrinks(trust, trust', reseeded') /\ Sound(CallIdle, trust', reseeded')
      /\ CallIdle \in Calls
  BY <1>3, ShrinksSame, IdleSound
<1>5. call' \in [TrustCalls -> Calls] /\ CallsSound'
  BY <1>3, <1>4, CallStep DEF CallTo, TrustIInv
<1>6. TrustTypeOK' /\ OneSuccessor'
  <2>1. revocation' \subseteq Keys /\ TrustTypeOK /\ OneSuccessor
    BY <1>3 DEF TrustIInv, TrustTypeOK
  <2>2. TrustTypeOK'
    BY <1>3, <1>5, <2>1 DEF TrustTypeOK
  <2>3. OneSuccessor'
    BY <1>2, <1>3, <2>1 DEF OneSuccessor
  <2> QED BY <2>2, <2>3
<1> QED BY <1>4, <1>5, <1>6 DEF TrustIInv

\* CommitRotation finds the key active, and so as it was read.
LEMMA CommitStep ==
  ASSUME TrustIInv, NEW c \in TrustCalls, CommitRotation(c)
  PROVE  TrustIInv' /\ Shrinks(trust, trust', reseeded')
<1>1. PICK s : s = call[c]
  OBVIOUS
<1>2. PICK k, n, b, p : /\ k = s.key /\ n = s.next /\ b = s.bundle
                        /\ p = [s.read EXCEPT !.status = "previous"]
  OBVIOUS
<1>3. s \in Calls /\ s.pc = "rotate" /\ Sound(s, trust, reseeded)
  BY <1>1 DEF CommitRotation, CallAt, TrustIInv, TrustTypeOK, CallsSound
<1>4. /\ k \in Keys /\ n \in Keys /\ k # n /\ b \in Bundles /\ b.status = "active"
      /\ s.read \in Bundles /\ trust[k] # Absent
      /\ k \notin reseeded /\ trust[k].status = "active" => trust[k] = s.read
  BY <1>2, <1>3 DEF Sound
<1>5. p \in Bundles /\ p.status = "previous" /\ p.material = s.read.material
      /\ p.expiresAt = s.read.expiresAt
  BY <1>2, <1>4 DEF Bundles, Statuses
<1>6. CASE CallEnds(c)
  BY <1>6, EndStep
<1>7. CASE /\ trust[k].status = "active" /\ trust[n] = Absent
           /\ trust' = [trust EXCEPT ![k] = p, ![n] = b]
           /\ successor' = [successor EXCEPT ![k] = @ \cup {n}]
           /\ CallTo(c, CallIdle)
           /\ UNCHANGED <<revocation, reseeded>>
  <2>1. /\ trust \in [Keys -> Bundles \cup {Absent}]
        /\ successor \in [Keys -> SUBSET Keys]
    BY DEF TrustIInv, TrustTypeOK
  <2>2. /\ trust'[k] = p /\ trust'[n] = b
        /\ \A j \in Keys \ {k, n} : trust'[j] = trust[j]
        /\ successor'[k] = successor[k] \cup {n}
        /\ \A j \in Keys \ {k} : successor'[j] = successor[j]
    BY <1>4, <1>7, <2>1
  <2>3. p # Absent /\ b # Absent
    BY <1>4, <1>5, TrustAssumption DEF Bundles, Statuses
  <2>4. Shrinks(trust, trust', reseeded')
    <3> SUFFICES ASSUME NEW j \in Keys, trust[j] # Absent
                 PROVE  /\ trust'[j] # Absent
                        /\ j \notin reseeded =>
                             /\ trust'[j].material = trust[j].material
                             /\ trust[j].status = "revoked" => trust'[j].status = "revoked"
                             /\ trust'[j].status = "active" => trust'[j] = trust[j]
                             /\ \/ trust'[j].status = "revoked"
                                \/ trust'[j].expiresAt = trust[j].expiresAt
      BY <1>7 DEF Shrinks
    <3>1. CASE j = k
      BY <1>4, <1>5, <1>7, <2>2, <2>3, <3>1
    <3>2. CASE j # k
      BY <1>7, <2>2, <3>2
    <3> QED BY <3>1, <3>2
  <2>5. call' \in [TrustCalls -> Calls] /\ CallsSound'
    BY <1>7, <2>4, IdleSound, CallStep DEF CallTo, TrustIInv
  <2>6. TrustTypeOK'
    BY <1>4, <1>5, <1>7, <2>1, <2>5 DEF TrustIInv, TrustTypeOK
  <2>7. OneSuccessor'
    <3> SUFFICES ASSUME NEW j \in Keys, j \notin reseeded
                 PROVE  /\ \A x, y \in successor'[j] : x = y
                        /\ successor'[j] # {} =>
                             trust'[j] # Absent /\ trust'[j].status # "active"
                        /\ j \in revocation =>
                             trust'[j] # Absent /\ trust'[j].status = "revoked"
      BY <1>7 DEF OneSuccessor
    <3>1. /\ \A x, y \in successor[j] : x = y
          /\ successor[j] # {} => trust[j] # Absent /\ trust[j].status # "active"
          /\ j \in revocation => trust[j] # Absent /\ trust[j].status = "revoked"
      BY DEF TrustIInv, OneSuccessor
    <3>2. CASE j = k
      <4>1. successor[j] = {} /\ successor'[j] = {n} /\ j \notin revocation
        BY <1>5, <1>7, <2>2, <3>1, <3>2
      <4>2. trust'[j] # Absent /\ trust'[j].status # "active"
        BY <1>5, <1>7, <2>2, <2>3, <3>2
      <4> QED BY <4>1, <4>2
    <3>3. CASE j = n
      BY <1>4, <1>7, <2>2, <3>1, <3>3
    <3>4. CASE j # k /\ j # n
      BY <2>2, <3>1, <3>4
    <3> QED BY <3>2, <3>3, <3>4
  <2> QED BY <2>4, <2>5, <2>6, <2>7 DEF TrustIInv
<1> QED BY <1>1, <1>2, <1>6, <1>7 DEF CommitRotation

\* Every step preserves the invariant and lets the trust only shrink.
LEMMA InvStep ==
  ASSUME TrustIInv, [TrustNext]_trustVars
  PROVE  TrustIInv' /\ Shrinks(trust, trust', reseeded')
<1>1. CASE UNCHANGED trustVars
  <2>1. TrustIInv'
    BY <1>1 DEF trustVars, TrustIInv, TrustTypeOK, CallsSound, OneSuccessor
  <2> QED BY <1>1, <2>1, ShrinksSame DEF trustVars
<1>2. CASE TrustNext
  <2>1. PICK c \in TrustCalls :
          \/ \E k \in Keys : RevokeTrust(c, k)
          \/ \E k \in Keys, b \in Offer[c] : SeedTrust(c, k, b)
          \/ \E k, n \in Keys, b \in Offer[c] : RotateTrust(c, k, n, b)
          \/ ValidateSave(c) \/ WriteSave(c) \/ RecordRevocation(c)
          \/ CommitRotation(c) \/ CallFails(c)
    BY <1>2 DEF TrustNext
  <2>2. CASE CallFails(c)
    BY <2>2, EndStep DEF CallFails
  <2> QED BY <2>1, <2>2, SeedStep, RevokeStep, RotateStep, ValidateStep, WriteStep,
             RecordStep, CommitStep
<1> QED BY <1>1, <1>2

\* The invariant holds throughout.
LEMMA TrustInvariance == TrustSpec => []TrustIInv
<1>1. TrustIInv /\ [TrustNext]_trustVars => TrustIInv'
  BY InvStep
<1> QED BY <1>1, InvInit, PTL DEF TrustSpec

-----------------------------------------------------------------------------
(* The theorems.                                                           *)

\* Rotations and revocations that overlap leave a key with one successor, not
\* active next to it, and a recorded revocation in force (RotateTrustBundle,
\* RevokeTrustBundle), unless a starting server seeded the key late.
THEOREM RotationsDoNotCollide == TrustSpec => []OneSuccessor
BY TrustInvariance, PTL DEF TrustIInv

\* No request widens the trust in a key, whatever it read before: the bundles
\* that SaveTrustBundle and RotateTrustBundle write have the material of the
\* one they replace, no later expiry and no stronger status.
THEOREM TrustNeverGrows == TrustSpec => TrustOnlyShrinks
<1> DEFINE Narrower(k) ==
      trust[k] # Absent =>
         /\ trust'[k] # Absent
         /\ trust'[k].material = trust[k].material
         /\ trust[k].status = "revoked" => trust'[k].status = "revoked"
         /\ trust[k].status = "previous" => trust'[k].status # "active"
         /\ \/ trust'[k].status = "revoked"
            \/ 0 < trust'[k].expiresAt /\ trust'[k].expiresAt <= trust[k].expiresAt
            \/ trust[k].expiresAt = 0
<1>1. TrustIInv /\ [TrustNext]_trustVars => [\A k \in Keys \ reseeded' : Narrower(k)]_trustVars
  <2> SUFFICES ASSUME TrustIInv, [TrustNext]_trustVars, NEW k \in Keys \ reseeded',
                      trust[k] # Absent
               PROVE  Narrower(k)
    OBVIOUS
  <2>1. Shrinks(trust, trust', reseeded')
    BY InvStep
  <2>2. trust[k].expiresAt \in Nat
    BY TrustAssumption DEF TrustIInv, TrustTypeOK, Bundles
  <2>3. /\ trust'[k] # Absent
        /\ trust'[k].material = trust[k].material
        /\ trust[k].status = "revoked" => trust'[k].status = "revoked"
        /\ trust'[k].status = "active" => trust'[k] = trust[k]
        /\ trust'[k].status = "revoked" \/ trust'[k].expiresAt = trust[k].expiresAt
    BY <2>1, Zenon DEF Shrinks
  <2>4. trust[k].status = "previous" => trust'[k].status # "active"
    BY <2>3
  <2>5. \/ trust'[k].status = "revoked"
        \/ 0 < trust'[k].expiresAt /\ trust'[k].expiresAt <= trust[k].expiresAt
        \/ trust[k].expiresAt = 0
    <3> HIDE DEF Narrower
    <3> SUFFICES ASSUME trust'[k].expiresAt = trust[k].expiresAt, trust[k].expiresAt # 0
                 PROVE  0 < trust'[k].expiresAt /\ trust'[k].expiresAt <= trust[k].expiresAt
      BY <2>3
    <3>1. PICK e \in Nat : e = trust[k].expiresAt
      BY <2>2
    <3>2. 0 < e /\ e <= e
      BY <3>1
    <3> QED BY <3>1, <3>2
  <2> QED BY <2>3, <2>4, <2>5
<1> QED BY <1>1, TrustInvariance, PTL DEF TrustSpec, TrustOnlyShrinks
=============================================================================
