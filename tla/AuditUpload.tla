----------------------------- MODULE AuditUpload -----------------------------
(***************************************************************************)
(* The upload of the audit spool: flushAuditSpool and auditRetryDue of the *)
(* daemon (cmd/kliq/run.go), the spool's rows (internal/kliq/actionstate/  *)
(* sqlite.go) and recordKLIQAuditUpload of Forge (internal/forge/api/      *)
(* kliq_management.go), with requests and answers that are lost, store     *)
(* calls that fail, crashes of the daemon and revocation of the node.      *)
(*                                                                         *)
(* Time is kept as ages, in seconds, that stop growing when no backoff     *)
(* tells them apart any more.  The operators named Faulty... are not part  *)
(* of the model: each is the definition that follows it with a plausible   *)
(* mistake, and a property below is violated when it takes that            *)
(* definition's place.                                                     *)
(***************************************************************************)
EXTENDS Naturals

CONSTANTS
  Count,        \* number of audit records, numbered by their created_at
  Refused,      \* records that Forge never accepts
  MaxShift,     \* the backoff doubles at most this often (8 in the code)
  BackoffCap,   \* upper bound of the backoff (300 in the code)
  MaxCrashes,   \* bound on the number of crashes
  NoRecord      \* no record

Uploads == 1 .. Count

ASSUME UploadAssumption ==
  /\ Count \in Nat
  /\ Refused \subseteq Uploads
  /\ MaxShift \in Nat
  /\ BackoffCap \in Nat \ {0}
  /\ MaxCrashes \in Nat
  /\ NoRecord \notin Uploads

VARIABLES
  row,          \* the status of each record in audit_spool
  retries,      \* its retry_count
  age,          \* the time since its last_attempt_at
  received,     \* the records in Forge's management_audit_events
  registration, \* the node's registration at Forge
  flush,        \* the local state of flushAuditSpool
  crashes       \* the number of crashes so far

uploadVars == <<row, retries, age, received, registration, flush, crashes>>

\* No larger retry_count has a longer backoff.
MaxRetries == MaxShift + 1

\* `age' is the time since the attempt began (uploadedAt).
FlushStates ==
  [pc: {"idle", "next", "post", "failed", "acked"}, todo: SUBSET Uploads,
   cur: Uploads \cup {NoRecord}, age: 0 .. BackoffCap]

FlushIdle == [pc |-> "idle", todo |-> {}, cur |-> NoRecord, age |-> 0]

UploadInit ==
  /\ row = [r \in Uploads |-> "none"]
  /\ retries = [r \in Uploads |-> 0]
  /\ age = [r \in Uploads |-> 0]
  /\ received = {}
  /\ registration = "active"
  /\ flush = FlushIdle
  /\ crashes = 0

-----------------------------------------------------------------------------

AtMost(bound, n) == IF n < bound THEN n ELSE bound

\* 1 << min(retry_count - 1, MaxShift), capped
Backoff(n) == AtMost(BackoffCap, 2 ^ AtMost(MaxShift, n - 1))

AuditRetryDue(r) == retries[r] > 0 => age[r] >= Backoff(retries[r])

\* AppendAudit, by an operation of the manager.
AppendRecord(r) ==
  /\ row[r] = "none"
  /\ row' = [row EXCEPT ![r] = "pending_upload"]
  /\ UNCHANGED <<retries, age, received, registration, flush, crashes>>

NextRecord(todo) ==
  IF todo = {} THEN FlushIdle ELSE [FlushIdle EXCEPT !.pc = "next", !.todo = todo]

FaultyBeginFlush ==
  /\ flush.pc = "idle"
  /\ flush' = NextRecord({r \in Uploads : row[r] # "none"})
  /\ UNCHANGED <<row, retries, age, received, registration, crashes>>

\* PendingAudits.  (When it fails, flushAuditSpool returns.)
BeginFlush ==
  /\ flush.pc = "idle"
  /\ flush' = NextRecord({r \in Uploads : row[r] = "pending_upload"})
  /\ UNCHANGED <<row, retries, age, received, registration, crashes>>

\* The next record in the order of created_at is skipped unless it is due.
Visit(r) ==
  /\ flush.pc = "next"
  /\ r \in flush.todo
  /\ \A s \in flush.todo : r <= s
  /\ LET rest == flush.todo \ {r}
     IN  flush' = IF AuditRetryDue(r)
                  THEN [flush EXCEPT !.pc = "post", !.todo = rest, !.cur = r]
                  ELSE NextRecord(rest)
  /\ UNCHANGED <<row, retries, age, received, registration, crashes>>

\* recordKLIQAuditUpload stores the record before it answers; then the
\* acknowledgement arrives,
PostAcked(r) ==
  /\ flush.pc = "post" /\ flush.cur = r
  /\ registration = "active" /\ r \notin Refused
  /\ received' = received \cup {r}
  /\ flush' = [flush EXCEPT !.pc = "acked"]
  /\ UNCHANGED <<row, retries, age, registration, crashes>>

FaultyPostFailed(r) ==
  /\ flush.pc = "post" /\ flush.cur = r
  /\ flush' = [flush EXCEPT !.pc = "acked"]
  /\ UNCHANGED <<row, retries, age, received, registration, crashes>>

\* or it is lost or invalid; or Forge refuses the record or is not reached.
PostFailed(r) ==
  /\ flush.pc = "post" /\ flush.cur = r
  /\ \/ /\ registration = "active" /\ r \notin Refused
        /\ received' = received \cup {r}
     \/ UNCHANGED received
  /\ flush' = [flush EXCEPT !.pc = "failed"]
  /\ UNCHANGED <<row, retries, age, registration, crashes>>

FaultyMarkAuditFailed(r) ==
  /\ flush.pc = "failed" /\ flush.cur = r
  /\ row' = [row EXCEPT ![r] = "failed"]
  /\ retries' = [retries EXCEPT ![r] = AtMost(MaxRetries, @ + 1)]
  /\ age' = [age EXCEPT ![r] = flush.age]
  /\ flush' = NextRecord(flush.todo)
  /\ UNCHANGED <<received, registration, crashes>>

\* The record stays pending, to be tried again later.
MarkAuditFailed(r) ==
  /\ flush.pc = "failed" /\ flush.cur = r
  /\ row' = [row EXCEPT ![r] = "pending_upload"]
  /\ retries' = [retries EXCEPT ![r] = AtMost(MaxRetries, @ + 1)]
  /\ age' = [age EXCEPT ![r] = flush.age]
  /\ flush' = NextRecord(flush.todo)
  /\ UNCHANGED <<received, registration, crashes>>

MarkAuditUploaded(r) ==
  /\ flush.pc = "acked" /\ flush.cur = r
  /\ row' = [row EXCEPT ![r] = "uploaded"]
  /\ age' = [age EXCEPT ![r] = flush.age]
  /\ flush' = NextRecord(flush.todo)
  /\ UNCHANGED <<retries, received, registration, crashes>>

\* A failing MarkAuditFailed is ignored, a failing MarkAuditUploaded ends the
\* flush.
MarkFails ==
  /\ \/ flush.pc = "failed" /\ flush' = NextRecord(flush.todo)
     \/ flush.pc = "acked" /\ flush' = FlushIdle
  /\ UNCHANGED <<row, retries, age, received, registration, crashes>>

\* The daemon dies and starts again.
DaemonCrash ==
  /\ flush.pc # "idle"
  /\ crashes < MaxCrashes
  /\ crashes' = crashes + 1
  /\ flush' = FlushIdle
  /\ UNCHANGED <<row, retries, age, received, registration>>

\* revokeKLIQRegistration at Forge.
Revoke ==
  /\ registration = "active"
  /\ registration' = "revoked"
  /\ UNCHANGED <<row, retries, age, received, flush, crashes>>

UploadTick ==
  /\ age' = [r \in Uploads |-> IF row[r] = "pending_upload"
                               THEN AtMost(BackoffCap, age[r] + 1)
                               ELSE age[r]]
  /\ flush' = IF flush.cur = NoRecord
              THEN flush
              ELSE [flush EXCEPT !.age = AtMost(BackoffCap, @ + 1)]
  /\ UNCHANGED <<row, retries, received, registration, crashes>>

FlushStep ==
  \/ MarkFails
  \/ \E r \in Uploads : \/ Visit(r) \/ PostAcked(r) \/ PostFailed(r)
                        \/ MarkAuditFailed(r) \/ MarkAuditUploaded(r)

UploadNext ==
  \/ \E r \in Uploads : AppendRecord(r)
  \/ BeginFlush
  \/ FlushStep
  \/ DaemonCrash
  \/ Revoke
  \/ UploadTick

UploadSpec == UploadInit /\ [][UploadNext]_uploadVars

(***************************************************************************)
(* Fairness.  Time passes; the daemon's loop comes back to the flush, as   *)
(* it does when the flush interval is shorter than the poll interval (see  *)
(* DaemonLoop), and a flush goes on.  An upload that is tried again and    *)
(* again is acknowledged some time if Forge would accept it, and the store *)
(* does not fail for ever.  Crashes stop at MaxCrashes; neither they nor   *)
(* revocation need happen.                                                 *)
(***************************************************************************)
UploadFairness ==
  /\ WF_uploadVars(UploadTick)
  /\ SF_uploadVars(BeginFlush)
  /\ WF_uploadVars(FlushStep)
  /\ \A r \in Uploads : /\ SF_uploadVars(PostAcked(r))
                        /\ SF_uploadVars(MarkAuditUploaded(r))

UploadFairSpec == UploadSpec /\ UploadFairness

-----------------------------------------------------------------------------
(* Properties.                                                             *)

Pending(r) == row[r] = "pending_upload"

\* Every variable keeps its type.
UploadTypeOK ==
  /\ row \in [Uploads -> {"none", "pending_upload", "uploaded"}]
  /\ retries \in [Uploads -> 0 .. MaxRetries]
  /\ age \in [Uploads -> 0 .. BackoffCap]
  /\ received \subseteq Uploads
  /\ registration \in {"active", "revoked"}
  /\ flush \in FlushStates
  /\ crashes \in 0 .. MaxCrashes

\* No audit record is lost: what the node marks as uploaded, and so never sends
\* again, is stored at Forge, whichever requests and answers were lost.
UploadedWasReceived ==
  \A r \in Uploads : row[r] = "uploaded" => r \in received

\* A record that is uploaded is done: a later flush, or one that was cut short
\* by a crash, does not put it back.
UploadedForGood ==
  [][\A r \in Uploads : row[r] = "uploaded" => row'[r] = "uploaded"]_uploadVars

\* Every record is uploaded in the end unless the node is revoked, also when
\* Forge refuses another record for ever.
EveryRecordUploaded ==
  \A r \in Uploads \ Refused :
    Pending(r) ~> (row[r] = "uploaded" \/ registration = "revoked")

=============================================================================
