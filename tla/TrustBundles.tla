---------------------------- MODULE TrustBundles ----------------------------
(***************************************************************************)
(* The trust bundles of Forge: the public keys that verify what Forge      *)
(* signs.  Administrators rotate and revoke them through the API, and a    *)
(* Forge server that starts in development checks or seeds its own         *)
(* (internal/forge/management/postgres.go, internal/forge/api, cmd/forge). *)
(*                                                                         *)
(* Each statement on Postgres is a step; a request may end between any two *)
(* of them.  The in-memory store does the same under one lock, which is    *)
(* one of the interleavings.  What a key id stands for, its public key,    *)
(* purpose and issuer, is a record (material) of which only the purpose is *)
(* ever looked at by itself; an expiry of 0 is none.                       *)
(***************************************************************************)
EXTENDS Naturals

CONSTANTS
  Keys,         \* key ids
  Materials,    \* what a key id stands for, a record with a purpose
  Expiries,     \* the times bundles expire at, 0 for never
  TrustCalls,   \* requests and starting servers
  Offer,        \* the bundles that a call may bring along
  Absent        \* no bundle

ASSUME TrustAssumption ==
  /\ Expiries \subseteq Nat
  /\ Offer \in [TrustCalls -> SUBSET [material: Materials, status: {"active"},
                                      expiresAt: Expiries]]
  /\ Absent \notin [material: Materials, status: {"active", "previous", "revoked"},
                    expiresAt: Expiries]

VARIABLES
  trust,        \* table trust_bundles
  revocation,   \* table kliq_revocations, the trust keys in it
  successor,    \* history: what a key was rotated to
  reseeded,     \* history: keys that a late seed has overwritten
  call          \* the progress of a call

trustVars == <<trust, revocation, successor, reseeded, call>>

Statuses == {"active", "previous", "revoked"}

Bundles == [material: Materials, status: Statuses, expiresAt: Expiries]

CallIdle == [pc |-> "idle", key |-> Absent, next |-> Absent, bundle |-> Absent,
             read |-> Absent]

TrustInit ==
  /\ trust = [k \in Keys |-> Absent]
  /\ revocation = {}
  /\ successor = [k \in Keys |-> {}]
  /\ reseeded = {}
  /\ call = [c \in TrustCalls |-> CallIdle]

CallAt(c, pc) == call[c].pc = pc

CallTo(c, s) == call' = [call EXCEPT ![c] = s]

CallEnds(c) ==
  CallTo(c, CallIdle) /\ UNCHANGED <<trust, revocation, successor, reseeded>>

-----------------------------------------------------------------------------
(* SaveTrustBundle.                                                        *)

\* validateTrustBundleUpdate.
UpdateAllowed(old, new) ==
  /\ old.material = new.material
  /\ old.expiresAt # 0 /\ new.expiresAt # 0 => new.expiresAt <= old.expiresAt
  /\ old.status = "previous" => new.status # "active"
  /\ old.status = "revoked" => new.status = "revoked"

\* The existing bundle is read and the update compared with it.
ValidateSave(c) ==
  /\ CallAt(c, "validate")
  /\ LET old == trust[call[c].key]
     IN  IF old = Absent \/ UpdateAllowed(old, call[c].bundle)
         THEN /\ CallTo(c, [call[c] EXCEPT !.pc = "save"])
              /\ UNCHANGED <<trust, revocation, successor, reseeded>>
         ELSE CallEnds(c)

\* INSERT ... ON CONFLICT DO UPDATE, whatever is there by now.  A late seed
\* is one that overwrites a bundle.
WriteSave(c) ==
  /\ CallAt(c, "save")
  /\ reseeded' = IF /\ call[c].bundle.status = "active"
                    /\ trust[call[c].key] # Absent
                 THEN reseeded \cup {call[c].key} ELSE reseeded
  /\ trust' = [trust EXCEPT ![call[c].key] = call[c].bundle]
  /\ CallTo(c, IF call[c].bundle.status = "revoked"
               THEN [call[c] EXCEPT !.pc = "record"] ELSE CallIdle)
  /\ UNCHANGED <<revocation, successor>>

-----------------------------------------------------------------------------
(* The calls.                                                              *)

\* validateOrSeedManagementTrustBundle: an existing bundle is only checked.
SeedTrust(c, k, b) ==
  /\ CallAt(c, "idle")
  /\ trust[k] = Absent
  /\ b.material.purpose = "assignment_verification" /\ b.expiresAt # 0
  /\ CallTo(c, [CallIdle EXCEPT !.pc = "validate", !.key = k, !.bundle = b])
  /\ UNCHANGED <<trust, revocation, successor, reseeded>>

\* RevokeTrustBundle: the bundle is read, saved as revoked and recorded.
RevokeTrust(c, k) ==
  /\ CallAt(c, "idle")
  /\ trust[k] # Absent
  /\ CallTo(c, [CallIdle EXCEPT !.pc = "validate", !.key = k,
                                !.bundle = [trust[k] EXCEPT !.status = "revoked"]])
  /\ UNCHANGED <<trust, revocation, successor, reseeded>>

RecordRevocation(c) ==
  /\ CallAt(c, "record")
  /\ revocation' = revocation \cup {call[c].key}
  /\ CallTo(c, CallIdle)
  /\ UNCHANGED <<trust, successor, reseeded>>

\* RotateTrustBundle reads both keys and compares (bundles are never deleted,
\* so the two reads are one step) ...
RotateTrust(c, k, n, b) ==
  /\ CallAt(c, "idle")
  /\ trust[k] # Absent
  /\ trust[k].status = "active"
  /\ n # k /\ trust[n] = Absent
  /\ b.material.purpose = trust[k].material.purpose
  /\ CallTo(c, [CallIdle EXCEPT !.pc = "rotate", !.key = k, !.next = n,
                                !.bundle = b, !.read = trust[k]])
  /\ UNCHANGED <<trust, revocation, successor, reseeded>>

FaultyCommitRotation(c) ==
  /\ CallAt(c, "rotate")
  /\ LET k == call[c].key
         n == call[c].next
     IN  IF trust[n] = Absent
         THEN /\ trust' = [trust EXCEPT ![k] = [call[c].read EXCEPT !.status = "previous"],
                                        ![n] = call[c].bundle]
              /\ successor' = [successor EXCEPT ![k] = @ \cup {n}]
              /\ CallTo(c, CallIdle)
              /\ UNCHANGED <<revocation, reseeded>>
         ELSE CallEnds(c)

\* ... and the transaction depends on the status it finds and on the key not
\* being there.
CommitRotation(c) ==
  /\ CallAt(c, "rotate")
  /\ LET k == call[c].key
         n == call[c].next
     IN  IF trust[k].status = "active" /\ trust[n] = Absent
         THEN /\ trust' = [trust EXCEPT ![k] = [call[c].read EXCEPT !.status = "previous"],
                                        ![n] = call[c].bundle]
              /\ successor' = [successor EXCEPT ![k] = @ \cup {n}]
              /\ CallTo(c, CallIdle)
              /\ UNCHANGED <<revocation, reseeded>>
         ELSE CallEnds(c)

\* A statement fails or the server stops: what was written stays.
CallFails(c) == ~CallAt(c, "idle") /\ CallEnds(c)

TrustNext ==
  \E c \in TrustCalls :
    \/ \E k \in Keys : RevokeTrust(c, k)
    \/ \E k \in Keys, b \in Offer[c] : SeedTrust(c, k, b)
    \/ \E k, n \in Keys, b \in Offer[c] : RotateTrust(c, k, n, b)
    \/ ValidateSave(c)
    \/ WriteSave(c)
    \/ RecordRevocation(c)
    \/ CommitRotation(c)
    \/ CallFails(c)

TrustSpec == TrustInit /\ [][TrustNext]_trustVars

-----------------------------------------------------------------------------
(* Properties.                                                             *)

\* Trust only shrinks: a key keeps its material, its status only goes from
\* active to previous to revoked and its expiry is not moved out as long as it
\* is not revoked, whatever rotations and revocations overlap.  SaveTrustBundle
\* validates and writes in two statements, so the exception is the late seed of
\* a starting server.
TrustOnlyShrinks ==
  [][\A k \in Keys \ reseeded' :
       trust[k] # Absent =>
         /\ trust'[k] # Absent
         /\ trust'[k].material = trust[k].material
         /\ trust[k].status = "revoked" => trust'[k].status = "revoked"
         /\ trust[k].status = "previous" => trust'[k].status # "active"
         /\ \/ trust'[k].status = "revoked"
            \/ 0 < trust'[k].expiresAt /\ trust'[k].expiresAt <= trust[k].expiresAt
            \/ trust[k].expiresAt = 0]_trustVars

\* Of two rotations that overlap, or a rotation and a revocation, the later
\* transaction finds the key no longer active: a key has one successor and is
\* not active next to it, and a recorded revocation is in force.
OneSuccessor ==
  \A k \in Keys \ reseeded :
    /\ \A m, n \in successor[k] : m = n
    /\ successor[k] # {} => trust[k] # Absent /\ trust[k].status # "active"
    /\ k \in revocation => trust[k] # Absent /\ trust[k].status = "revoked"

=============================================================================
