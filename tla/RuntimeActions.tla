--------------------------- MODULE RuntimeActions ---------------------------
(***************************************************************************)
(* KLIQ runtime actions: how a node applies a planned action through an    *)
(* adapter, remembers it as a lease in its SQLite state and ends it when   *)
(* its TTL has run out (internal/kliq/runtime/manager.go over              *)
(* internal/kliq/actionstate/sqlite.go).                                   *)
(*                                                                         *)
(* Several processes may work on one state file: the `kliq run` daemon and *)
(* the `kliq execute-action` and `kliq reconcile` commands.  Each call on  *)
(* the store and each call on the adapter is a step of its own, so that    *)
(* processes interleave, and crash, between any two of them.  A store call *)
(* is atomic (one SQL statement) and may fail; an adapter call may fail    *)
(* before or after it took effect.                                         *)
(*                                                                         *)
(* The journal and the decision log are write-only and are left out: a     *)
(* failed append to them changes no lease.  Of the audit spool only the    *)
(* activation records are kept, by action and attempt: the records that    *)
(* follow a lease write are steps that succeed or fail (AuditSpool models  *)
(* the spool itself).                                                      *)
(*                                                                         *)
(* The operators named Faulty... are not part of the model: each is the    *)
(* definition that follows it with a plausible mistake, and some property  *)
(* below is violated when it takes that definition's place.                *)
(***************************************************************************)
EXTENDS Naturals

CONSTANTS
  Procs,        \* processes that share the state file
  Actions,      \* runtime action ids: one per decision and target
  Keys,         \* dedup keys: adapter, capability, action type, scope, target
  Adapters,     \* adapter ids
  KeyOf,        \* the dedup key of an action
  AdapterOf,    \* the adapter a dedup key names
  AdapterRank,  \* the order of the adapter ids
  Registered,   \* the adapters in the registry of each process
  TTL,          \* the time an action is granted
  MaxTime,      \* bound on the clock
  MaxCrashes,   \* bound on the number of crashes
  None          \* no action

ASSUME ConstantsAssumption ==
  /\ KeyOf \in [Actions -> Keys]
  /\ AdapterOf \in [Keys -> Adapters]
  /\ AdapterRank \in [Adapters -> Nat]
  /\ Registered \in [Procs -> SUBSET Adapters]
  /\ TTL \in Nat \ {0}
  /\ MaxTime \in Nat
  /\ MaxCrashes \in Nat
  /\ None \notin Actions

AdapterFor(a) == AdapterOf[KeyOf[a]]

VARIABLES
  now,          \* the wall clock of the node
  lease,        \* table runtime_action_leases, by runtime_action_id
  adapter,      \* what the adapters hold, by runtime_action_id
  authorized,   \* the activation records in the audit spool: action, attempt
  proc,         \* the local state of each process
  crashes       \* the number of crashes so far

vars == <<now, lease, adapter, authorized, proc, crashes>>

Live == {"active", "unknown"}

LeaseStatus == Live \cup {"none", "expired", "failed"}

Leases == [status: LeaseStatus, expiresAt: Nat]

\* An adapter never had the action, has it in force, has ended it or lost it;
\* `since' is the attempt (the m.now() of the caller) that put it in force.
AdapterStates == [status: {"never", "active", "expired", "lost"}, since: Nat]

Ended(status) == [status |-> status, since |-> 0]

Events == {"recovered", "recovered_expired", "failed",
           "unknown", "readback_expired", "expired"}

Labels == {"idle", "lookup", "snapshot", "next", "state", "cleanup",
           "audit", "execute", "readback", "write", "report"}

(***************************************************************************)
(* The local state of a process: where it is, whether it runs              *)
(* executePlannedAction or Reconcile, the action requested of it, the      *)
(* lease it is working on, the value of m.now() it took at the start, the  *)
(* leases Reconcile has still to visit, and the status and the audit event *)
(* it is about to write.                                                   *)
(*                                                                         *)
(* A lease's identity and expires_at never change once its row exists      *)
(* (LeaseExpiryNeverMoves), so a copy of a lease is its id.                *)
(***************************************************************************)
LocalStates ==
  [pc: Labels, op: {"none", "execute", "reconcile"},
   a: Actions \cup {None}, cur: Actions \cup {None}, t: 0 .. MaxTime,
   todo: SUBSET Actions, status: LeaseStatus, event: Events \cup {"none"}]

Idle == [pc |-> "idle", op |-> "none", a |-> None, cur |-> None, t |-> 0,
         todo |-> {}, status |-> "none", event |-> "none"]

NoLease == [status |-> "none", expiresAt |-> 0]

Init ==
  /\ now = 0
  /\ lease = [a \in Actions |-> NoLease]
  /\ adapter = [a \in Actions |-> Ended("never")]
  /\ authorized = {}
  /\ proc = [p \in Procs |-> Idle]
  /\ crashes = 0

-----------------------------------------------------------------------------
(* The store.                                                              *)

\* A row that the statements of LeaseByDedupKey and ActiveLeases select.
IsLive(a) == lease[a].status \in Live

FaultyDedupIndex(a, status) == TRUE

\* The unique index runtime_action_leases_dedup over the live rows.
DedupIndexAllows(a, status) ==
  status \in Live =>
    \A b \in Actions : (b # a /\ KeyOf[b] = KeyOf[a]) => ~IsLive(b)

FaultyUpsertLease(a, status, expiresAt) ==
  lease' = [lease EXCEPT ![a] = [status |-> status, expiresAt |-> expiresAt]]

\* INSERT ... ON CONFLICT(runtime_action_id) DO UPDATE: an existing row keeps
\* every column but the status (and last_reconciled_at, which nothing reads).
UpsertLease(a, status, expiresAt) ==
  lease' = [lease EXCEPT ![a] =
              IF @.status = "none"
              THEN [status |-> status, expiresAt |-> expiresAt]
              ELSE [@ EXCEPT !.status = status]]

\* AppendAudit of "runtime action activation authorized".
AppendActivationAudit(a, t) == authorized' = authorized \cup {<<a, t>>}

\* What GetRuntimeActionState answers.
AdapterReply(a) ==
  IF adapter[a].status \in {"active", "expired"}
  THEN adapter[a].status
  ELSE "not_found"

-----------------------------------------------------------------------------
(* Process control.                                                        *)

At(p, pc) == proc[p].pc = pc

Goto(p, s) == /\ proc' = [proc EXCEPT ![p] = s]
              /\ UNCHANGED crashes

\* A write of `status' to the lease at hand, to be followed by `event'.
ToWrite(s, status, event) ==
  [s EXCEPT !.pc = "write", !.status = status, !.event = event]

\* Reconcile goes on with the next lease of its snapshot, if any.
NextLease(s) ==
  IF s.todo = {}
  THEN Idle
  ELSE [s EXCEPT !.pc = "next", !.cur = None, !.status = "none",
                 !.event = "none"]

FaultyAbandon(s) == Idle

\* An error: executePlannedAction returns it, Reconcile notes it and goes on.
Abandon(s) == IF s.op = "reconcile" THEN NextLease(s) ELSE Idle

-----------------------------------------------------------------------------
(* executePlannedAction, for an action that planning allowed.              *)

BeginExecute(p, a) ==
  /\ At(p, "idle")
  /\ AdapterFor(a) \in Registered[p]
  /\ Goto(p, [Idle EXCEPT !.pc = "lookup", !.op = "execute", !.a = a,
                          !.cur = a, !.t = now])
  /\ UNCHANGED <<now, lease, adapter, authorized>>

FaultyLookup(p) ==
  /\ At(p, "lookup")
  /\ LET s == proc[p]
         existing == {b \in Actions : /\ KeyOf[b] = KeyOf[s.a]
                                      /\ IsLive(b)
                                      /\ s.t < lease[b].expiresAt}
     IN  Goto(p, IF existing = {} THEN [s EXCEPT !.pc = "audit"] ELSE Idle)
  /\ UNCHANGED <<now, lease, adapter, authorized>>

\* LeaseByDedupKey: a live lease that has not expired is reused as it is, one
\* that has expired is ended first.
Lookup(p) ==
  /\ At(p, "lookup")
  /\ LET s == proc[p]
         existing == {b \in Actions : KeyOf[b] = KeyOf[s.a] /\ IsLive(b)}
     IN  \/ /\ existing = {}
            /\ Goto(p, [s EXCEPT !.pc = "audit"])
         \/ \E b \in existing :
              \/ /\ s.t < lease[b].expiresAt
                 /\ Goto(p, Idle)
              \/ /\ s.t >= lease[b].expiresAt
                 /\ Goto(p, [s EXCEPT !.pc = "cleanup", !.cur = b])
  /\ UNCHANGED <<now, lease, adapter, authorized>>

FaultyAuditActivation(p) ==
  /\ At(p, "audit")
  /\ LET s == proc[p]
     IN  /\ AppendActivationAudit(s.a, s.t) \/ UNCHANGED authorized
         /\ Goto(p, [s EXCEPT !.pc = "execute", !.cur = s.a])
  /\ UNCHANGED <<now, lease, adapter>>

\* The activation is audited before the adapter is called; if the record
\* cannot be written the action is denied.
AuditActivation(p) ==
  /\ At(p, "audit")
  /\ LET s == proc[p]
     IN  \/ /\ AppendActivationAudit(s.a, s.t)
            /\ Goto(p, [s EXCEPT !.pc = "execute", !.cur = s.a])
         \/ /\ Goto(p, Idle)
            /\ UNCHANGED authorized
  /\ UNCHANGED <<now, lease, adapter>>

\* executor.Execute: the adapter activates the action and answers, or it
\* activates it and the answer is lost, or it does nothing and fails.
Execute(p) ==
  /\ At(p, "execute")
  /\ LET s == proc[p]
         activate == adapter' = [adapter EXCEPT ![s.a] =
                                   [status |-> "active", since |-> s.t]]
     IN  \/ /\ activate
            /\ Goto(p, ToWrite(s, "active", "none"))
         \/ /\ activate
            /\ Goto(p, [s EXCEPT !.pc = "readback"])
         \/ /\ UNCHANGED adapter
            /\ Goto(p, [s EXCEPT !.pc = "readback"])
  /\ UNCHANGED <<now, lease, authorized>>

FaultyReadback(p) ==
  /\ At(p, "readback")
  /\ LET s == proc[p]
     IN  \E r \in {AdapterReply(s.a), "error"} :
           Goto(p, CASE r = "active"  -> ToWrite(s, "active", "recovered")
                     [] r = "expired" -> ToWrite(s, "expired", "recovered_expired")
                     [] OTHER         -> ToWrite(s, "unknown", "failed"))
  /\ UNCHANGED <<now, lease, adapter, authorized>>

\* recoverAfterExecuteError: what the adapter says decides the lease.
Readback(p) ==
  /\ At(p, "readback")
  /\ LET s == proc[p]
     IN  \E r \in {AdapterReply(s.a), "error"} :
           Goto(p, CASE r = "active"  -> ToWrite(s, "active", "recovered")
                     [] r = "expired" -> ToWrite(s, "expired", "recovered_expired")
                     [] OTHER         -> ToWrite(s, "failed", "failed"))
  /\ UNCHANGED <<now, lease, adapter, authorized>>

-----------------------------------------------------------------------------
(* Reconcile.                                                              *)

BeginReconcile(p) ==
  /\ At(p, "idle")
  /\ Goto(p, [Idle EXCEPT !.pc = "snapshot", !.op = "reconcile", !.t = now])
  /\ UNCHANGED <<now, lease, adapter, authorized>>

FaultySnapshot(p) ==
  /\ At(p, "snapshot")
  /\ Goto(p, NextLease([proc[p] EXCEPT !.todo =
                          {a \in Actions : lease[a].status # "none"}]))
  /\ UNCHANGED <<now, lease, adapter, authorized>>

\* ActiveLeases: the live leases are read once, and then visited one by one.
Snapshot(p) ==
  /\ At(p, "snapshot")
  /\ Goto(p, NextLease([proc[p] EXCEPT !.todo = {a \in Actions : IsLive(a)}]))
  /\ UNCHANGED <<now, lease, adapter, authorized>>

\* The leases are visited adapter by adapter, in the order of the adapter ids.
\* A lease whose adapter is not registered becomes unknown; one that has not
\* expired is compared with the adapter; one that has expired is ended.
Visit(p, a) ==
  /\ At(p, "next")
  /\ a \in proc[p].todo
  /\ \A b \in proc[p].todo :
       AdapterRank[AdapterFor(a)] <= AdapterRank[AdapterFor(b)]
  /\ LET s == [proc[p] EXCEPT !.cur = a, !.todo = @ \ {a}]
     IN  \/ /\ AdapterFor(a) \notin Registered[p]
            /\ Goto(p, ToWrite(s, "unknown", "unknown"))
         \/ /\ AdapterFor(a) \in Registered[p]
            /\ s.t < lease[a].expiresAt
            /\ Goto(p, [s EXCEPT !.pc = "state"])
         \/ /\ AdapterFor(a) \in Registered[p]
            /\ s.t >= lease[a].expiresAt
            /\ Goto(p, [s EXCEPT !.pc = "cleanup"])
  /\ UNCHANGED <<now, lease, adapter, authorized>>

\* reconcileActiveLease: the adapter's answer becomes the lease's status; any
\* answer but active and expired, and any error, makes the lease unknown.
ReconcileState(p) ==
  /\ At(p, "state")
  /\ LET s == proc[p]
     IN  \E r \in {AdapterReply(s.cur), "error"} :
           Goto(p, CASE r = "active"  -> ToWrite(s, "active", "none")
                     [] r = "expired" -> ToWrite(s, "expired", "readback_expired")
                     [] OTHER         -> ToWrite(s, "unknown", "unknown"))
  /\ UNCHANGED <<now, lease, adapter, authorized>>

-----------------------------------------------------------------------------
(* expireLease, and the store writes both operations end in.               *)

Revoke(a) ==
  adapter' = [adapter EXCEPT ![a] =
                IF @.status = "active" THEN Ended("expired") ELSE @]

\* executor.Cleanup answered "expired" or "not_found".
CleanupDone(p, a) ==
  /\ At(p, "cleanup")
  /\ proc[p].cur = a
  /\ Revoke(a)
  /\ Goto(p, ToWrite(proc[p], "expired", "expired"))
  /\ UNCHANGED <<now, lease, authorized>>

FaultyCleanupFailed(p, a) ==
  /\ At(p, "cleanup")
  /\ proc[p].cur = a
  /\ Revoke(a) \/ UNCHANGED adapter
  /\ Goto(p, ToWrite(proc[p], "expired", "expired"))
  /\ UNCHANGED <<now, lease, authorized>>

\* executor.Cleanup failed, before or after the adapter acted: the lease stays
\* as it is.
CleanupFailed(p, a) ==
  /\ At(p, "cleanup")
  /\ proc[p].cur = a
  /\ Revoke(a) \/ UNCHANGED adapter
  /\ Goto(p, Abandon(proc[p]))
  /\ UNCHANGED <<now, lease, authorized>>

\* A check of the fallback state or a read of the leases failed: the operation
\* returns the error.
ReadFailed(p) ==
  /\ At(p, "lookup") \/ At(p, "snapshot")
  /\ Goto(p, Idle)
  /\ UNCHANGED <<now, lease, adapter, authorized>>

\* The lease is written; an activation has no audit record after it.
AfterWrite(s) ==
  IF s.event = "none" THEN Abandon(s) ELSE [s EXCEPT !.pc = "report"]

WriteDone(p, a) ==
  /\ At(p, "write")
  /\ proc[p].cur = a
  /\ LET s == proc[p]
     IN  /\ DedupIndexAllows(a, s.status)
         /\ UpsertLease(a, s.status, s.t + TTL)
         /\ Goto(p, AfterWrite(s))
  /\ UNCHANGED <<now, adapter, authorized>>

\* The statement failed: the database was busy, or the index refused the row.
\* recordFailedExecute and the expiry seen by readback ignore the error.
WriteFailed(p, a) ==
  /\ At(p, "write")
  /\ proc[p].cur = a
  /\ LET s == proc[p]
     IN  Goto(p, IF s.event \in {"failed", "readback_expired"}
                 THEN [s EXCEPT !.pc = "report"]
                 ELSE Abandon(s))
  /\ UNCHANGED <<now, lease, adapter, authorized>>

\* After an old lease was ended executePlannedAction goes on to its own.
AfterReport(s) ==
  IF s.op = "execute" /\ s.event = "expired"
  THEN [s EXCEPT !.pc = "audit", !.cur = s.a, !.status = "none",
                 !.event = "none"]
  ELSE Abandon(s)

\* AppendJournal and AppendAudit succeed, or one of them fails.
Report(p) ==
  /\ At(p, "report")
  /\ LET s == proc[p]
     IN  Goto(p, AfterReport(s)) \/ Goto(p, Abandon(s))
  /\ UNCHANGED <<now, lease, adapter, authorized>>

-----------------------------------------------------------------------------
(* The environment.                                                        *)

\* The process dies and starts again; store and adapters keep their state.
Crash(p) ==
  /\ ~At(p, "idle")
  /\ crashes < MaxCrashes
  /\ crashes' = crashes + 1
  /\ proc' = [proc EXCEPT ![p] = Idle]
  /\ UNCHANGED <<now, lease, adapter, authorized>>

\* An adapter ends an action by itself, or loses it.
AdapterEnds(a) ==
  /\ adapter[a].status = "active"
  /\ \E r \in {"expired", "lost"} :
       adapter' = [adapter EXCEPT ![a] = Ended(r)]
  /\ UNCHANGED <<now, lease, authorized, proc, crashes>>

Tick ==
  /\ now < MaxTime
  /\ now' = now + 1
  /\ UNCHANGED <<lease, adapter, authorized, proc, crashes>>

ExecuteStep(p) ==
  Lookup(p) \/ AuditActivation(p) \/ Execute(p) \/ Readback(p)

ReconcileStep(p) ==
  Snapshot(p) \/ ReconcileState(p) \/ \E a \in Actions : Visit(p, a)

CommonStep(p) ==
  \/ ReadFailed(p)
  \/ Report(p)
  \/ \E a \in Actions : \/ CleanupDone(p, a) \/ CleanupFailed(p, a)
                        \/ WriteDone(p, a) \/ WriteFailed(p, a)

Step(p) == ExecuteStep(p) \/ ReconcileStep(p) \/ CommonStep(p)

Next ==
  \/ \E p \in Procs :
       \/ BeginReconcile(p)
       \/ \E a \in Actions : BeginExecute(p, a)
       \/ Step(p)
       \/ Crash(p)
  \/ \E a \in Actions : AdapterEnds(a)
  \/ Tick

Spec == Init /\ [][Next]_vars

(***************************************************************************)
(* Fairness.  A process that runs goes on to its next call.  The daemon    *)
(* comes back to reconciliation again and again, which its loop guarantees *)
(* when the reconcile interval is shorter than the poll interval or polls  *)
(* fail (FrequentTasksRun of DaemonLoop; with the default intervals it may *)
(* not).  The store does not fail for ever, nor do the adapters in         *)
(* `responsive' (the others may).                                          *)
(***************************************************************************)
Fairness(p, responsive) ==
  /\ WF_vars(Step(p))
  /\ SF_vars(BeginReconcile(p))
  /\ SF_vars(Snapshot(p))
  /\ \A a \in Actions :
       /\ SF_vars(WriteDone(p, a))
       /\ AdapterFor(a) \in responsive => SF_vars(CleanupDone(p, a))

-----------------------------------------------------------------------------
(* Properties.                                                             *)

\* Every variable keeps its type.
TypeOK ==
  /\ now \in 0 .. MaxTime
  /\ lease \in [Actions -> Leases]
  /\ adapter \in [Actions -> AdapterStates]
  /\ authorized \subseteq Actions \X (0 .. MaxTime)
  /\ proc \in [Procs -> LocalStates]
  /\ crashes \in 0 .. MaxCrashes

\* Whatever the processes interleave, at most one lease of a dedup key (same
\* adapter, capability, action type, scope and target) is live: the lookup of
\* executePlannedAction is not atomic with its UpsertLease.
OneLiveLeasePerKey ==
  \A a, b \in Actions :
    (a # b /\ KeyOf[a] = KeyOf[b]) => ~(IsLive(a) /\ IsLive(b))

\* No action is in force at an adapter that the audit spool does not know:
\* the activation in force was authorised by a record of the same attempt,
\* written before the adapter was called, through crashes and lost answers.
EffectWasAudited ==
  \A a \in Actions :
    adapter[a].status = "active" =>
      <<a, adapter[a].since>> \in authorized

\* A lease is live only for an action that an adapter call activated: neither a
\* failed execution nor reconciliation with its stale copies of leases makes a
\* lease live for an action that was never in force.
LiveLeaseWasActivated ==
  \A a \in Actions : IsLive(a) => adapter[a].status # "never"

\* The expiry of a lease is set when its row is inserted and no later step
\* moves it: a deduplicated request, reconciliation and recovery never extend
\* an action's time.
LeaseExpiryNeverMoves ==
  [][\A a \in Actions :
       lease[a].status # "none" =>
         /\ lease'[a].status # "none"
         /\ lease'[a].expiresAt = lease[a].expiresAt]_vars

\* The specification of what the node promises, and the mapping onto it.
Lifecycle == INSTANCE ActionLifecycle
  WITH Times <- 0 .. (MaxTime + TTL),
       authorised <- {r[1] : r \in authorized},
       activated <- {a \in Actions : adapter[a].status # "never"},
       book <- lease

\* The processes, whatever they interleave and wherever they stop, authorise an
\* action before it is in force and have it in force before its lease is live:
\* every step is a step of ActionLifecycle or leaves its variables alone.
ImplementsLifecycle == Lifecycle!Spec

(***************************************************************************)
(* Properties of a node whose state file only one process uses.  With more *)
(* they fail: a second process acts between a read and the write it leads  *)
(* to (see the README).                                                    *)
(***************************************************************************)

\* A lease is recorded as expired only once the action is no longer in force at
\* the adapter: a cleanup that failed, or whose answer was lost, leaves it live.
ExpiredOnlyAfterRevoke ==
  [][\A a \in Actions :
       (lease[a].status # "expired" /\ lease'[a].status = "expired")
         => adapter[a].status # "active"]_vars

\* The adapter is asked to activate an action only when no lease of its dedup
\* key is live: the one found was unexpired and was reused, or it was ended at
\* the adapter and in the store first.
ExecutesOnlyWithoutLease ==
  \A p \in Procs :
    At(p, "execute") =>
      \A b \in Actions : KeyOf[b] = KeyOf[proc[p].a] => ~IsLive(b)

\* A lease that has ended becomes live again only by executing its action
\* again, never by reconciliation.
OnlyExecutionRevives ==
  [][\A a \in Actions :
       (lease[a].status \in {"expired", "failed"} /\ lease'[a].status \in Live)
         => \E p \in Procs : proc[p].op = "execute" /\ proc[p].a = a]_vars

\* Reconciliation by p ends every lease whose time is up, if its adapter is
\* registered and responsive, whatever the other adapters do.
ExpiredLeasesEnd(p, responsive) ==
  \A a \in Actions :
    AdapterFor(a) \in Registered[p] \cap responsive =>
      ((IsLive(a) /\ now >= lease[a].expiresAt) ~> ~IsLive(a))

\* An action that is activated gets its TTL: the lease in the store expires TTL
\* after the attempt that activated it.
ActivationGetsItsTTL ==
  [][\A a \in Actions :
       lease'[a] # lease[a] =>
         \A p \in Procs :
           (At(p, "write") /\ proc[p].op = "execute" /\ proc[p].cur = a
              /\ proc[p].status = "active" /\ proc'[p] # proc[p])
           => lease'[a].expiresAt = proc[p].t + TTL]_vars

=============================================================================
