--------------------------- MODULE ActionLifecycle ---------------------------
(***************************************************************************)
(* What KLIQ promises about runtime actions, without saying how: an action *)
(* is authorised in the audit spool, then put in force by an adapter, then *)
(* entered in the book of leases, in that order.  The book has at most one *)
(* live lease for a dedup key and never changes the expiry of an entry.    *)
(*                                                                         *)
(* RuntimeActions implements this specification, with any number of        *)
(* processes, crashes, failed calls and lost answers.                      *)
(***************************************************************************)
EXTENDS Naturals

CONSTANTS
  Actions,      \* runtime action ids
  Keys,         \* dedup keys
  KeyOf,        \* the dedup key of an action
  Times         \* the expiry times a lease may have

VARIABLES
  authorised,   \* actions with an activation record in the audit spool
  activated,    \* actions an adapter has put in force at least once
  book          \* the leases

vars == <<authorised, activated, book>>

LiveStatus == {"active", "unknown"}

Status == LiveStatus \cup {"none", "expired", "failed"}

Init ==
  /\ authorised = {}
  /\ activated = {}
  /\ book = [a \in Actions |-> [status |-> "none", expiresAt |-> 0]]

Authorise(a) ==
  /\ authorised' = authorised \cup {a}
  /\ UNCHANGED <<activated, book>>

\* Only what was authorised comes into force.
Activate(a) ==
  /\ a \in authorised
  /\ activated' = activated \cup {a}
  /\ UNCHANGED <<authorised, book>>

\* An entry that makes a lease live is for an action that was in force, and no
\* other lease of its key is live.
MayRecord(a, status) ==
  status \in LiveStatus =>
    /\ a \in activated
    /\ \A b \in Actions :
         (b # a /\ KeyOf[b] = KeyOf[a]) => book[b].status \notin LiveStatus

Open(a, status, expiresAt) ==
  /\ book[a].status = "none"
  /\ MayRecord(a, status)
  /\ book' = [book EXCEPT ![a] = [status |-> status, expiresAt |-> expiresAt]]
  /\ UNCHANGED <<authorised, activated>>

Update(a, status) ==
  /\ book[a].status # "none"
  /\ MayRecord(a, status)
  /\ book' = [book EXCEPT ![a].status = status]
  /\ UNCHANGED <<authorised, activated>>

Next ==
  \E a \in Actions :
    \/ Authorise(a)
    \/ Activate(a)
    \/ \E status \in Status \ {"none"} :
         \/ Update(a, status)
         \/ \E expiresAt \in Times : Open(a, status, expiresAt)

Spec == Init /\ [][Next]_vars

=============================================================================
