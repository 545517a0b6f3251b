------------------------ MODULE RuntimeActionsProofs ------------------------
(***************************************************************************)
(* Theorems about RuntimeActions, for every set of processes, actions,     *)
(* keys and adapters and every bound on the clock and on crashes.          *)
(*                                                                         *)
(* The invariants of interest are not inductive: a process acts on what it *)
(* learnt some steps ago.  ProcessKnowledge says what a process at a given *)
(* label may still rely on: before it calls Execute its attempt is in the  *)
(* audit spool; the leases it took into its snapshot, and a live status it *)
(* is about to write, belong to actions an adapter has activated.  These   *)
(* facts are stable, since audit records are never removed and an adapter  *)
(* that ended or lost an action still has activated it.                    *)
(*                                                                         *)
(* The last part is about a state file that only one process uses:         *)
(* ProcessRelies says what it may then rely on besides.                    *)
(***************************************************************************)
EXTENDS RuntimeActions, TLAPS

Activated(a) == a \in Actions /\ adapter[a].status # "never"

Knows(s) ==
  /\ s.op = "execute" => s.a \in Actions
  /\ s.pc \in {"lookup", "audit", "execute", "readback"} => s.op = "execute"
  /\ s.pc \in {"execute", "readback"} => s.cur = s.a
  /\ s.pc = "execute" => <<s.a, s.t>> \in authorized
  /\ s.pc = "state" => Activated(s.cur)
  /\ s.pc = "write" => /\ s.status # "none"
                       /\ s.status \in Live => Activated(s.cur)
  /\ \A a \in s.todo : Activated(a)

ProcessKnowledge == \A p \in Procs : Knows(proc[p])

IInv ==
  /\ TypeOK
  /\ OneLiveLeasePerKey
  /\ EffectWasAudited
  /\ LiveLeaseWasActivated
  /\ ProcessKnowledge

-----------------------------------------------------------------------------
(* Type correctness.                                                       *)

\* The local states the control helpers build are local states.
LEMMA HelpersType ==
  ASSUME NEW s \in LocalStates
  PROVE  /\ Idle \in LocalStates
         /\ NextLease(s) \in LocalStates
         /\ Abandon(s) \in LocalStates
         /\ AfterWrite(s) \in LocalStates
         /\ AfterReport(s) \in LocalStates
         /\ \A status \in LeaseStatus, event \in Events \cup {"none"} :
              ToWrite(s, status, event) \in LocalStates
<1>1. Idle \in LocalStates
  BY ConstantsAssumption DEF Idle, LocalStates, Labels, LeaseStatus, Live, Events
<1>2. NextLease(s) \in LocalStates
  <2>1. [s EXCEPT !.pc = "next", !.cur = None, !.status = "none",
                  !.event = "none"] \in LocalStates
    BY DEF LocalStates, Labels, LeaseStatus
  <2> QED BY <1>1, <2>1 DEF NextLease
<1>3. Abandon(s) \in LocalStates
  BY <1>1, <1>2 DEF Abandon
<1>4. AfterWrite(s) \in LocalStates
  BY <1>3 DEF AfterWrite, LocalStates, Labels
<1>5. AfterReport(s) \in LocalStates
  <2>1. [s EXCEPT !.pc = "audit", !.cur = s.a, !.status = "none",
                  !.event = "none"] \in LocalStates
    BY DEF LocalStates, Labels, LeaseStatus
  <2> QED BY <1>3, <2>1 DEF AfterReport
<1>6. \A status \in LeaseStatus, event \in Events \cup {"none"} :
        ToWrite(s, status, event) \in LocalStates
  BY DEF ToWrite, LocalStates, Labels
<1> QED BY <1>1, <1>2, <1>3, <1>4, <1>5, <1>6

\* The initial state has the types TypeOK gives.
LEMMA TypeInit == Init => TypeOK
  BY HelpersType, ConstantsAssumption
  DEF Init, TypeOK, Leases, NoLease, AdapterStates, Ended, LeaseStatus, Idle,
      LocalStates, Labels, Events, Live

\* Every step preserves the types, given that a process about to audit an
\* activation holds an action.
LEMMA TypeStep == TypeOK /\ ProcessKnowledge /\ [Next]_vars => TypeOK'
<1> SUFFICES ASSUME TypeOK, ProcessKnowledge, [Next]_vars PROVE TypeOK'
  OBVIOUS
<1> USE ConstantsAssumption
<1>a. \A p \in Procs : proc[p] \in LocalStates
  BY DEF TypeOK
<1>b. ASSUME NEW p \in Procs, NEW s \in LocalStates, Goto(p, s)
      PROVE  /\ proc' \in [Procs -> LocalStates]
             /\ crashes' \in 0 .. MaxCrashes
  BY <1>b DEF Goto, TypeOK
<1>1. ASSUME NEW p \in Procs, NEW a \in Actions, BeginExecute(p, a)
      PROVE  TypeOK'
  <2>1. [Idle EXCEPT !.pc = "lookup", !.op = "execute", !.a = a,
                     !.cur = a, !.t = now] \in LocalStates
    BY DEF TypeOK, Idle, LocalStates, Labels, LeaseStatus, Live, Events
  <2> QED BY <1>1, <1>b, <2>1 DEF BeginExecute, TypeOK
<1>c. \A p \in Procs : \A pc \in Labels : \A a \in Actions :
        /\ [proc[p] EXCEPT !.pc = pc] \in LocalStates
        /\ [proc[p] EXCEPT !.pc = pc, !.cur = a] \in LocalStates
  BY <1>a DEF LocalStates
<1>d. \A p \in Procs : \A pc \in Labels : [proc[p] EXCEPT !.pc = pc] \in LocalStates
  BY <1>a DEF LocalStates
<1>2. ASSUME NEW p \in Procs, Lookup(p) PROVE TypeOK'
  <2>1. \E s \in LocalStates : Goto(p, s)
    <3>1. CASE Goto(p, [proc[p] EXCEPT !.pc = "audit"])
      BY <3>1, <1>d DEF Labels
    <3>2. CASE Goto(p, Idle)
      BY <3>2, <1>a, HelpersType
    <3>3. CASE \E b \in Actions :
                 Goto(p, [proc[p] EXCEPT !.pc = "cleanup", !.cur = b])
      BY <3>3, <1>c DEF Labels
    <3> QED BY <1>2, <3>1, <3>2, <3>3 DEF Lookup
  <2> QED BY <1>2, <1>b, <2>1 DEF Lookup, TypeOK
<1>3. ASSUME NEW p \in Procs, AuditActivation(p) PROVE TypeOK'
  <2>1. proc[p].a \in Actions /\ proc[p].t \in 0 .. MaxTime
    BY <1>3, <1>a DEF AuditActivation, At, ProcessKnowledge, Knows, LocalStates
  <2>2. \E s \in LocalStates : Goto(p, s)
    <3>1. CASE Goto(p, Idle)
      BY <3>1, <1>a, HelpersType
    <3>2. CASE Goto(p, [proc[p] EXCEPT !.pc = "execute", !.cur = proc[p].a])
      BY <3>2, <1>c, <2>1 DEF Labels
    <3> QED BY <1>3, <3>1, <3>2 DEF AuditActivation
  <2>3. authorized' \subseteq Actions \X (0 .. MaxTime)
    BY <1>3, <2>1 DEF AuditActivation, AppendActivationAudit, TypeOK
  <2> QED BY <1>3, <1>b, <2>2, <2>3 DEF AuditActivation, TypeOK
<1>4. ASSUME NEW p \in Procs, Execute(p) PROVE TypeOK'
  <2>1. \E s \in LocalStates : Goto(p, s)
    <3>1. CASE Goto(p, ToWrite(proc[p], "active", "none"))
      BY <3>1, <1>a, HelpersType DEF LeaseStatus, Live
    <3>2. CASE Goto(p, [proc[p] EXCEPT !.pc = "readback"])
      BY <3>2, <1>d DEF Labels
    <3> QED BY <1>4, <3>1, <3>2 DEF Execute
  <2>2. adapter' \in [Actions -> AdapterStates]
    <3>1. proc[p].t \in Nat
      BY <1>a DEF LocalStates
    <3>2. [status |-> "active", since |-> proc[p].t] \in AdapterStates
      BY <3>1 DEF AdapterStates
    <3> QED BY <1>4, <3>2 DEF Execute, TypeOK
  <2> QED BY <1>4, <1>b, <2>1, <2>2 DEF Execute, TypeOK
<1>5. ASSUME NEW p \in Procs, Readback(p) PROVE TypeOK'
  <2>1. \E s \in LocalStates : Goto(p, s)
    BY <1>5, <1>a, HelpersType DEF Readback, LeaseStatus, Live, Events
  <2> QED BY <1>5, <1>b, <2>1 DEF Readback, TypeOK
<1>6. ASSUME NEW p \in Procs, BeginReconcile(p) PROVE TypeOK'
  <2>1. [Idle EXCEPT !.pc = "snapshot", !.op = "reconcile", !.t = now]
          \in LocalStates
    BY DEF TypeOK, Idle, LocalStates, Labels, LeaseStatus
  <2> QED BY <1>6, <1>b, <2>1 DEF BeginReconcile, TypeOK
<1>7. ASSUME NEW p \in Procs, Snapshot(p) PROVE TypeOK'
  <2>1. [proc[p] EXCEPT !.todo = {a \in Actions : IsLive(a)}] \in LocalStates
    BY <1>a DEF LocalStates
  <2>2. NextLease([proc[p] EXCEPT !.todo = {a \in Actions : IsLive(a)}])
          \in LocalStates
    BY <2>1, HelpersType
  <2> QED BY <1>7, <1>b, <2>2 DEF Snapshot, TypeOK
<1>8. ASSUME NEW p \in Procs, NEW a \in Actions, Visit(p, a) PROVE TypeOK'
  <2> DEFINE s == [proc[p] EXCEPT !.cur = a, !.todo = @ \ {a}]
  <2>1. s \in LocalStates
    BY <1>a DEF LocalStates
  <2>2. \A pc \in Labels : [s EXCEPT !.pc = pc] \in LocalStates
    BY <2>1 DEF LocalStates
  <2>3. ToWrite(s, "unknown", "unknown") \in LocalStates
    BY <2>1, HelpersType DEF LeaseStatus, Live, Events
  <2>4. \E r \in LocalStates : Goto(p, r)
    <3> HIDE DEF s
    <3>1. CASE Goto(p, ToWrite(s, "unknown", "unknown"))
      BY <3>1, <2>3
    <3>2. CASE Goto(p, [s EXCEPT !.pc = "state"])
      BY <3>2, <2>2 DEF Labels
    <3>3. CASE Goto(p, [s EXCEPT !.pc = "cleanup"])
      BY <3>3, <2>2 DEF Labels
    <3> QED BY <1>8, <3>1, <3>2, <3>3 DEF Visit, s
  <2> QED BY <1>8, <1>b, <2>4 DEF Visit, TypeOK
<1>9. ASSUME NEW p \in Procs, ReconcileState(p) PROVE TypeOK'
  <2>1. \E s \in LocalStates : Goto(p, s)
    BY <1>9, <1>a, HelpersType DEF ReconcileState, LeaseStatus, Live, Events
  <2> QED BY <1>9, <1>b, <2>1 DEF ReconcileState, TypeOK
<1>e. ASSUME NEW a \in Actions, Revoke(a)
      PROVE  adapter' \in [Actions -> AdapterStates]
  BY <1>e DEF Revoke, Ended, AdapterStates, TypeOK
<1>10. ASSUME NEW p \in Procs, NEW a \in Actions, CleanupDone(p, a)
       PROVE  TypeOK'
  <2>1. ToWrite(proc[p], "expired", "expired") \in LocalStates
    BY <1>a, HelpersType DEF LeaseStatus, Events
  <2> QED BY <1>10, <1>b, <1>e, <2>1 DEF CleanupDone, TypeOK
<1>11. ASSUME NEW p \in Procs, NEW a \in Actions, CleanupFailed(p, a)
       PROVE  TypeOK'
  <2>1. Abandon(proc[p]) \in LocalStates
    BY <1>a, HelpersType
  <2> QED BY <1>11, <1>b, <1>e, <2>1 DEF CleanupFailed, TypeOK
<1>12. ASSUME NEW p \in Procs, NEW a \in Actions, WriteDone(p, a)
       PROVE  TypeOK'
  <2>1. AfterWrite(proc[p]) \in LocalStates
    BY <1>a, HelpersType
  <2>2. proc[p].status \in LeaseStatus /\ proc[p].t + TTL \in Nat
    BY <1>a DEF LocalStates
  <2>3. lease' \in [Actions -> Leases]
    BY <1>12, <2>2 DEF WriteDone, UpsertLease, Leases, TypeOK
  <2> QED BY <1>12, <1>b, <2>1, <2>3 DEF WriteDone, TypeOK
<1>13. ASSUME NEW p \in Procs, NEW a \in Actions, WriteFailed(p, a)
       PROVE  TypeOK'
  <2>1. \E s \in LocalStates : Goto(p, s)
    BY <1>13, <1>a, <1>d, HelpersType DEF WriteFailed, Labels
  <2> QED BY <1>13, <1>b, <2>1 DEF WriteFailed, TypeOK
<1>14. ASSUME NEW p \in Procs, Report(p) PROVE TypeOK'
  <2>1. AfterReport(proc[p]) \in LocalStates /\ Abandon(proc[p]) \in LocalStates
    BY <1>a, HelpersType
  <2> QED BY <1>14, <1>b, <2>1 DEF Report, TypeOK
<1>15. ASSUME NEW p \in Procs, Crash(p) \/ ReadFailed(p) PROVE TypeOK'
  <2>1. Idle \in LocalStates
    BY <1>a, HelpersType
  <2> QED BY <1>15, <1>b, <2>1 DEF Crash, ReadFailed, TypeOK
<1>16. ASSUME NEW a \in Actions, AdapterEnds(a) PROVE TypeOK'
  BY <1>16 DEF AdapterEnds, Ended, AdapterStates, TypeOK
<1>17. CASE Tick
  BY <1>17 DEF Tick, TypeOK
<1>18. CASE UNCHANGED vars
  BY <1>18 DEF vars, TypeOK
<1> QED
  BY <1>1, <1>2, <1>3, <1>4, <1>5, <1>6, <1>7, <1>8, <1>9, <1>10, <1>11, <1>12,
     <1>13, <1>14, <1>15, <1>16, <1>17, <1>18
  DEF Next, Step, ExecuteStep, ReconcileStep, CommonStep

-----------------------------------------------------------------------------
(* What the processes know.                                                *)

\* Audit records stay, and what an adapter once activated stays activated.
LEMMA KnowledgeIsStable ==
  ASSUME TypeOK, [Next]_vars
  PROVE  /\ authorized \subseteq authorized'
         /\ \A a : Activated(a) => Activated(a)'
<1>1. authorized \subseteq authorized'
  BY ZenonT(30) DEF Next, vars, Step, ExecuteStep, ReconcileStep, CommonStep, Crash, Tick,
         AdapterEnds, BeginExecute, BeginReconcile, Lookup, AuditActivation,
         AppendActivationAudit, Execute, Readback, Snapshot, Visit,
         ReconcileState, CleanupDone, CleanupFailed, WriteDone, WriteFailed,
         ReadFailed, Report
<1>2. ASSUME NEW a, Activated(a) PROVE Activated(a)'
  <2>1. CASE UNCHANGED adapter
    BY <1>2, <2>1 DEF Activated
  <2>2. ASSUME NEW p \in Procs, Execute(p) PROVE Activated(a)'
    BY <1>2, <2>2 DEF Execute, Activated, TypeOK
  <2>3. ASSUME NEW b \in Actions, Revoke(b) PROVE Activated(a)'
    BY <1>2, <2>3 DEF Revoke, Ended, Activated, TypeOK
  <2>4. ASSUME NEW b \in Actions, AdapterEnds(b) PROVE Activated(a)'
    BY <1>2, <2>4 DEF AdapterEnds, Ended, Activated, TypeOK
  <2> QED
    BY <2>1, <2>2, <2>3, <2>4, ZenonT(30)
    DEF Next, vars, Step, ExecuteStep, ReconcileStep, CommonStep, Crash, Tick,
        BeginExecute, BeginReconcile, Lookup, AuditActivation, Readback,
        Snapshot, Visit, ReconcileState, CleanupDone, CleanupFailed, WriteDone,
        WriteFailed, ReadFailed, Report
<1> QED BY <1>1, <1>2

\* What a process knows is not lost when it, or another, takes a step.
LEMMA KnowsIsStable ==
  ASSUME NEW s, Knows(s),
         authorized \subseteq authorized',
         \A a : Activated(a) => Activated(a)'
  PROVE  Knows(s)'
BY DEF Knows

\* Every step preserves what the processes know.
LEMMA KnowledgeStep ==
  TypeOK /\ LiveLeaseWasActivated /\ ProcessKnowledge /\ [Next]_vars
    => ProcessKnowledge'
<1> SUFFICES ASSUME TypeOK, LiveLeaseWasActivated, ProcessKnowledge, [Next]_vars
             PROVE  ProcessKnowledge'
  OBVIOUS
<1>a. \A p \in Procs : proc[p] \in LocalStates
  BY DEF TypeOK
<1>b. /\ authorized \subseteq authorized'
      /\ \A a : Activated(a) => Activated(a)'
  BY KnowledgeIsStable
<1>c. ASSUME NEW p \in Procs, NEW r, r = proc[p]
      PROVE  r \in LocalStates /\ Knows(r) /\ Knows(r)'
  <2>1. r \in LocalStates /\ Knows(r)
    BY <1>a, <1>c DEF ProcessKnowledge
  <2> QED BY <1>b, <2>1, KnowsIsStable
<1>d. ASSUME NEW p \in Procs, NEW s, proc' = [proc EXCEPT ![p] = s], Knows(s)'
      PROVE  ProcessKnowledge'
  <2> SUFFICES ASSUME NEW q \in Procs PROVE Knows(proc[q])'
    BY DEF ProcessKnowledge
  <2>1. PICK r : r = proc[q]
    OBVIOUS
  <2>2. Knows(r)'
    BY <1>c, <2>1
  <2>3. CASE q = p
    <3>1. proc'[q] = s
      BY <1>d, <2>3 DEF TypeOK
    <3> QED BY <1>d, <3>1
  <2>4. CASE q # p
    <3>1. proc'[q] = r
      BY <1>d, <2>1, <2>4 DEF TypeOK
    <3> QED BY <2>2, <3>1
  <2> QED BY <2>3, <2>4
<1>e. Knows(Idle)'
  BY DEF Knows, Idle
<1>f. ASSUME NEW p \in Procs, NEW r, r = proc[p]
      PROVE  /\ Knows(NextLease(r))'
             /\ Knows(Abandon(r))'
             /\ Knows([r EXCEPT !.pc = "report"])'
             /\ Knows([r EXCEPT !.pc = "cleanup"])'
  <2>1. r \in LocalStates /\ Knows(r)'
    BY <1>c, <1>f
  <2>2. Knows(NextLease(r))'
    BY <1>e, <2>1 DEF NextLease, Knows, LocalStates
  <2> QED BY <1>e, <2>1, <2>2 DEF Abandon, Knows, LocalStates
<1>1. ASSUME NEW p \in Procs, NEW a \in Actions, BeginExecute(p, a)
      PROVE  ProcessKnowledge'
  <2>1. PICK n : n = now
    OBVIOUS
  <2> DEFINE s == [Idle EXCEPT !.pc = "lookup", !.op = "execute", !.a = a,
                               !.cur = a, !.t = n]
  <2>2. Knows(s)'
    BY DEF Knows, Idle
  <2> QED BY <1>1, <1>d, <2>1, <2>2 DEF BeginExecute, Goto
<1>2. ASSUME NEW p \in Procs, Lookup(p) PROVE ProcessKnowledge'
  <2>1. PICK r : r = proc[p]
    OBVIOUS
  <2>2. r \in LocalStates /\ Knows(r)' /\ r.pc = "lookup"
    BY <1>2, <1>c, <2>1 DEF Lookup, At
  <2>3. CASE Goto(p, [r EXCEPT !.pc = "audit"])
    <3>1. Knows([r EXCEPT !.pc = "audit"])'
      BY <2>2 DEF Knows, LocalStates
    <3> QED BY <1>d, <2>3, <3>1 DEF Goto
  <2>4. CASE Goto(p, Idle)
    BY <1>d, <1>e, <2>4 DEF Goto
  <2>5. ASSUME NEW b \in Actions,
               Goto(p, [r EXCEPT !.pc = "cleanup", !.cur = b])
        PROVE  ProcessKnowledge'
    <3>1. Knows([r EXCEPT !.pc = "cleanup", !.cur = b])'
      BY <2>2 DEF Knows, LocalStates
    <3> QED BY <1>d, <2>5, <3>1 DEF Goto
  <2> QED BY <1>2, <2>1, <2>3, <2>4, <2>5 DEF Lookup
<1>3. ASSUME NEW p \in Procs, AuditActivation(p) PROVE ProcessKnowledge'
  <2>1. PICK r : r = proc[p]
    OBVIOUS
  <2>2. r \in LocalStates /\ Knows(r)' /\ r.pc = "audit"
    BY <1>3, <1>c, <2>1 DEF AuditActivation, At
  <2>3. CASE /\ AppendActivationAudit(r.a, r.t)
             /\ Goto(p, [r EXCEPT !.pc = "execute", !.cur = r.a])
    <3>1. <<r.a, r.t>> \in authorized'
      BY <2>3 DEF AppendActivationAudit
    <3>2. Knows([r EXCEPT !.pc = "execute", !.cur = r.a])'
      BY <2>2, <3>1 DEF Knows, LocalStates
    <3> QED BY <1>d, <2>3, <3>2 DEF Goto
  <2>4. CASE Goto(p, Idle)
    BY <1>d, <1>e, <2>4 DEF Goto
  <2> QED BY <1>3, <2>1, <2>3, <2>4 DEF AuditActivation
<1>4. ASSUME NEW p \in Procs, Execute(p) PROVE ProcessKnowledge'
  <2>1. PICK r : r = proc[p]
    OBVIOUS
  <2>2. /\ r \in LocalStates /\ Knows(r)'
        /\ r.pc = "execute" /\ r.a \in Actions /\ r.cur = r.a
    BY <1>4, <1>c, <2>1 DEF Execute, At, Knows
  <2>3. CASE /\ adapter' = [adapter EXCEPT ![r.a] =
                              [status |-> "active", since |-> r.t]]
             /\ Goto(p, ToWrite(r, "active", "none"))
    <3>1. Activated(r.cur)'
      BY <2>2, <2>3 DEF Activated, TypeOK
    <3>2. Knows(ToWrite(r, "active", "none"))'
      BY <2>2, <3>1 DEF Knows, ToWrite, LocalStates
    <3> QED BY <1>d, <2>3, <3>2 DEF Goto
  <2>4. CASE Goto(p, [r EXCEPT !.pc = "readback"])
    <3>1. Knows([r EXCEPT !.pc = "readback"])'
      BY <2>2 DEF Knows, LocalStates
    <3> QED BY <1>d, <2>4, <3>1 DEF Goto
  <2> QED BY <1>4, <2>1, <2>3, <2>4 DEF Execute
<1>5. ASSUME NEW p \in Procs, Readback(p) PROVE ProcessKnowledge'
  <2>1. PICK r : r = proc[p]
    OBVIOUS
  <2>2. /\ r \in LocalStates /\ Knows(r)'
        /\ r.pc = "readback" /\ r.a \in Actions /\ r.cur = r.a
    BY <1>5, <1>c, <2>1 DEF Readback, At, Knows
  <2>3. ASSUME AdapterReply(r.a) = "active"
        PROVE  Knows(ToWrite(r, "active", "recovered"))'
    <3>1. Activated(r.cur)
      BY <2>2, <2>3 DEF AdapterReply, Activated
    <3>2. Activated(r.cur)'
      BY <1>b, <3>1
    <3> QED BY <2>2, <3>2 DEF Knows, ToWrite, LocalStates
  <2>4. /\ Knows(ToWrite(r, "expired", "recovered_expired"))'
        /\ Knows(ToWrite(r, "failed", "failed"))'
    BY <2>2 DEF Knows, ToWrite, LocalStates, Live
  <2>5. \/ /\ AdapterReply(r.a) = "active"
           /\ Goto(p, ToWrite(r, "active", "recovered"))
        \/ Goto(p, ToWrite(r, "expired", "recovered_expired"))
        \/ Goto(p, ToWrite(r, "failed", "failed"))
    BY <1>5, <2>1 DEF Readback
  <2> QED BY <1>d, <2>3, <2>4, <2>5 DEF Goto
<1>6. ASSUME NEW p \in Procs, BeginReconcile(p) PROVE ProcessKnowledge'
  <2>1. PICK n : n = now
    OBVIOUS
  <2> DEFINE s == [Idle EXCEPT !.pc = "snapshot", !.op = "reconcile", !.t = n]
  <2>2. Knows(s)'
    BY DEF Knows, Idle
  <2> QED BY <1>6, <1>d, <2>1, <2>2 DEF BeginReconcile, Goto
<1>7. ASSUME NEW p \in Procs, Snapshot(p) PROVE ProcessKnowledge'
  <2>1. PICK r : r = proc[p]
    OBVIOUS
  <2>2. PICK L : L = {a \in Actions : IsLive(a)}
    OBVIOUS
  <2>3. r \in LocalStates /\ Knows(r)' /\ r.pc = "snapshot"
    BY <1>7, <1>c, <2>1 DEF Snapshot, At
  <2>4. \A a \in L : Activated(a)'
    BY <1>b, <2>2 DEF LiveLeaseWasActivated, Activated
  <2>5. Knows([r EXCEPT !.todo = L])'
    BY <2>3, <2>4 DEF Knows, LocalStates
  <2>6. Knows(NextLease([r EXCEPT !.todo = L]))'
    BY <1>e, <2>3, <2>4, <2>5 DEF NextLease, Knows, LocalStates
  <2> QED BY <1>7, <1>d, <2>1, <2>2, <2>6 DEF Snapshot, Goto
<1>8. ASSUME NEW p \in Procs, NEW a \in Actions, Visit(p, a)
      PROVE  ProcessKnowledge'
  <2>1. PICK r : r = proc[p]
    OBVIOUS
  <2>2. r \in LocalStates /\ Knows(r)' /\ r.pc = "next" /\ a \in r.todo
    BY <1>8, <1>c, <2>1 DEF Visit, At
  <2> DEFINE s == [r EXCEPT !.cur = a, !.todo = @ \ {a}]
  <2>3. /\ s \in [pc: Labels, op: {"none", "execute", "reconcile"},
                   a: Actions \cup {None}, cur: Actions \cup {None},
                   t: 0 .. MaxTime, todo: SUBSET Actions, status: LeaseStatus,
                   event: Events \cup {"none"}]
        /\ s.cur = a /\ s.todo = r.todo \ {a} /\ s.op = r.op /\ s.a = r.a
        /\ Activated(a)'
    BY <2>2 DEF Knows, LocalStates
  <2> HIDE DEF s
  <2>4. /\ Knows(ToWrite(s, "unknown", "unknown"))'
        /\ Knows([s EXCEPT !.pc = "state"])'
        /\ Knows([s EXCEPT !.pc = "cleanup"])'
    BY <2>2, <2>3 DEF Knows, ToWrite
  <2>5. \/ Goto(p, ToWrite(s, "unknown", "unknown"))
        \/ Goto(p, [s EXCEPT !.pc = "state"])
        \/ Goto(p, [s EXCEPT !.pc = "cleanup"])
    BY <1>8, <2>1 DEF Visit, s
  <2> QED BY <1>d, <2>4, <2>5 DEF Goto
<1>9. ASSUME NEW p \in Procs, ReconcileState(p) PROVE ProcessKnowledge'
  <2>1. PICK r : r = proc[p]
    OBVIOUS
  <2>2. r \in LocalStates /\ Knows(r)' /\ r.pc = "state" /\ Activated(r.cur)'
    BY <1>9, <1>c, <2>1 DEF ReconcileState, At, Knows
  <2>3. /\ Knows(ToWrite(r, "active", "none"))'
        /\ Knows(ToWrite(r, "expired", "readback_expired"))'
        /\ Knows(ToWrite(r, "unknown", "unknown"))'
    BY <2>2 DEF Knows, ToWrite, LocalStates
  <2>4. \/ Goto(p, ToWrite(r, "active", "none"))
        \/ Goto(p, ToWrite(r, "expired", "readback_expired"))
        \/ Goto(p, ToWrite(r, "unknown", "unknown"))
    BY <1>9, <2>1 DEF ReconcileState
  <2> QED BY <1>d, <2>3, <2>4 DEF Goto
<1>10. ASSUME NEW p \in Procs, NEW a \in Actions,
              CleanupDone(p, a) \/ CleanupFailed(p, a)
       PROVE  ProcessKnowledge'
  <2>1. PICK r : r = proc[p]
    OBVIOUS
  <2>2. r \in LocalStates /\ Knows(r)' /\ r.pc = "cleanup"
    BY <1>10, <1>c, <2>1 DEF CleanupDone, CleanupFailed, At
  <2>3. Knows(ToWrite(r, "expired", "expired"))'
    BY <2>2 DEF Knows, ToWrite, LocalStates, Live
  <2>4. Knows(Abandon(r))'
    BY <1>f, <2>1
  <2> QED BY <1>10, <1>d, <2>1, <2>3, <2>4 DEF CleanupDone, CleanupFailed, Goto
<1>11. ASSUME NEW p \in Procs, NEW a \in Actions,
              WriteDone(p, a) \/ WriteFailed(p, a)
       PROVE  ProcessKnowledge'
  <2>1. PICK r : r = proc[p]
    OBVIOUS
  <2>2. Knows(Abandon(r))' /\ Knows([r EXCEPT !.pc = "report"])'
    BY <1>f, <2>1
  <2>3. Goto(p, Abandon(r)) \/ Goto(p, [r EXCEPT !.pc = "report"])
    BY <1>11, <2>1 DEF WriteDone, WriteFailed, AfterWrite
  <2> QED BY <1>d, <2>2, <2>3 DEF Goto
<1>12. ASSUME NEW p \in Procs, Report(p) PROVE ProcessKnowledge'
  <2>1. PICK r : r = proc[p]
    OBVIOUS
  <2>2. r \in LocalStates /\ Knows(r)' /\ Knows(Abandon(r))'
    BY <1>c, <1>f, <2>1
  <2>3. Knows(AfterReport(r))'
    BY <2>2 DEF Knows, AfterReport, LocalStates
  <2> QED BY <1>12, <1>d, <2>1, <2>2, <2>3 DEF Report, Goto
<1>13. ASSUME NEW p \in Procs, Crash(p) \/ ReadFailed(p) PROVE ProcessKnowledge'
  BY <1>13, <1>d, <1>e DEF Crash, ReadFailed, Goto
<1>14. CASE UNCHANGED proc
  <2> SUFFICES ASSUME NEW q \in Procs PROVE Knows(proc[q])'
    BY DEF ProcessKnowledge
  <2>1. PICK r : r = proc[q]
    OBVIOUS
  <2>2. Knows(r)'
    BY <1>c, <2>1
  <2>3. proc'[q] = r
    BY <1>14, <2>1
  <2> QED BY <2>2, <2>3
<1> QED
  BY <1>1, <1>2, <1>3, <1>4, <1>5, <1>6, <1>7, <1>8, <1>9, <1>10, <1>11, <1>12,
     <1>13, <1>14
  DEF Next, Step, ExecuteStep, ReconcileStep, CommonStep, AdapterEnds, Tick, vars

-----------------------------------------------------------------------------
(* The invariants.                                                         *)

\* A step either leaves the leases alone or is the write of one process.
LEMMA LeaseStep ==
  ASSUME [Next]_vars
  PROVE  \/ UNCHANGED lease
         \/ \E p \in Procs, a \in Actions : WriteDone(p, a)
BY ZenonT(30) DEF Next, vars, Step, ExecuteStep, ReconcileStep, CommonStep, Crash, Tick,
       AdapterEnds, BeginExecute, BeginReconcile, Lookup, AuditActivation,
       Execute, Readback, Snapshot, Visit, ReconcileState, CleanupDone,
       CleanupFailed, WriteFailed, ReadFailed, Report

\* The inductive invariant holds before the first operation.
LEMMA InvInit == Init => IInv
<1> SUFFICES ASSUME Init PROVE IInv
  OBVIOUS
<1>1. TypeOK
  BY TypeInit
<1>2. OneLiveLeasePerKey /\ LiveLeaseWasActivated
  BY DEF Init, OneLiveLeasePerKey, LiveLeaseWasActivated, IsLive, NoLease, Live
<1>3. EffectWasAudited
  BY DEF Init, EffectWasAudited, Ended
<1>4. ProcessKnowledge
  BY DEF Init, ProcessKnowledge, Knows, Idle
<1> QED BY <1>1, <1>2, <1>3, <1>4 DEF IInv

\* Every step of a process, an adapter or the clock preserves the invariant.
LEMMA InvStep == IInv /\ [Next]_vars => IInv'
<1> SUFFICES ASSUME IInv, [Next]_vars PROVE IInv'
  OBVIOUS
<1> USE DEF IInv
<1>1. TypeOK'
  BY TypeStep
<1>2. ProcessKnowledge'
  BY KnowledgeStep
<1>3. OneLiveLeasePerKey'
  <2>1. CASE UNCHANGED lease
    BY <2>1 DEF OneLiveLeasePerKey, IsLive
  <2>2. ASSUME NEW p \in Procs, NEW a \in Actions, WriteDone(p, a)
        PROVE  OneLiveLeasePerKey'
    BY <2>2
    DEF WriteDone, UpsertLease, DedupIndexAllows, OneLiveLeasePerKey, IsLive,
        TypeOK, Leases
  <2> QED BY <2>1, <2>2, LeaseStep
<1>4. LiveLeaseWasActivated'
  <2>1. \A a \in Actions : adapter[a].status # "never" =>
                            adapter'[a].status # "never"
    BY KnowledgeIsStable DEF Activated
  <2>2. CASE UNCHANGED lease
    BY <2>1, <2>2 DEF LiveLeaseWasActivated, IsLive
  <2>3. ASSUME NEW p \in Procs, NEW a \in Actions, WriteDone(p, a)
        PROVE  LiveLeaseWasActivated'
    <3>1. proc[p].status \in Live => adapter[a].status # "never"
      BY <2>3 DEF WriteDone, At, ProcessKnowledge, Knows, Activated
    <3> QED BY <2>1, <2>3, <3>1
            DEF WriteDone, UpsertLease, LiveLeaseWasActivated, IsLive, TypeOK,
                Leases
  <2> QED BY <2>2, <2>3, LeaseStep
<1>5. EffectWasAudited'
  <2>1. authorized \subseteq authorized'
    BY KnowledgeIsStable
  <2>2. CASE UNCHANGED adapter
    BY <2>1, <2>2 DEF EffectWasAudited
  <2>3. ASSUME NEW p \in Procs, Execute(p) PROVE EffectWasAudited'
    <3>1. <<proc[p].a, proc[p].t>> \in authorized
      BY <2>3 DEF Execute, At, ProcessKnowledge, Knows
    <3> QED BY <2>1, <2>3, <3>1 DEF Execute, EffectWasAudited, TypeOK
  <2>4. ASSUME NEW a \in Actions, Revoke(a) PROVE EffectWasAudited'
    BY <2>1, <2>4 DEF Revoke, Ended, EffectWasAudited, TypeOK
  <2>5. ASSUME NEW a \in Actions, AdapterEnds(a) PROVE EffectWasAudited'
    BY <2>1, <2>5 DEF AdapterEnds, Ended, EffectWasAudited, TypeOK
  <2> QED
    BY <2>2, <2>3, <2>4, <2>5, ZenonT(30)
    DEF Next, vars, Step, ExecuteStep, ReconcileStep, CommonStep, Crash, Tick,
        BeginExecute, BeginReconcile, Lookup, AuditActivation, Readback,
        Snapshot, Visit, ReconcileState, CleanupDone, CleanupFailed, WriteDone,
        WriteFailed, ReadFailed, Report
<1> QED BY <1>1, <1>2, <1>3, <1>4, <1>5

\* The inductive invariant holds throughout: what a process learnt from the
\* store or an adapter and the invariants of the tables support each other.
THEOREM Invariance == Spec => []IInv
BY InvInit, InvStep, PTL DEF Spec

\* Type correctness.
THEOREM TypeCorrect == Spec => []TypeOK
BY Invariance, PTL DEF IInv

\* However the processes interleave lookups and writes, the lease table has at
\* most one live lease for a dedup key.
THEOREM DedupSafety == Spec => []OneLiveLeasePerKey
BY Invariance, PTL DEF IInv

\* Whatever is in force at an adapter was authorised in the audit spool by a
\* record of that very attempt.
THEOREM AuditBeforeEffect == Spec => []EffectWasAudited
BY Invariance, PTL DEF IInv

\* A live lease stands for an action that some adapter call activated.
THEOREM NoPhantomLease == Spec => []LiveLeaseWasActivated
BY Invariance, PTL DEF IInv

\* No step moves the expiry of a lease or removes its row.
THEOREM ExpiryIsFixed == Spec => LeaseExpiryNeverMoves
<1> DEFINE Fixed == \A a \in Actions :
                      lease[a].status # "none" =>
                        /\ lease'[a].status # "none"
                        /\ lease'[a].expiresAt = lease[a].expiresAt
<1>1. IInv /\ [Next]_vars => [Fixed]_vars
  <2> SUFFICES ASSUME IInv, [Next]_vars PROVE Fixed
    OBVIOUS
  <2>1. CASE UNCHANGED lease
    BY <2>1
  <2>2. ASSUME NEW p \in Procs, NEW a \in Actions, WriteDone(p, a) PROVE Fixed
    <3>1. proc[p].status # "none"
      BY <2>2 DEF WriteDone, At, IInv, ProcessKnowledge, Knows
    <3> QED BY <2>2, <3>1 DEF WriteDone, UpsertLease, IInv, TypeOK, Leases
  <2> QED BY <2>1, <2>2, LeaseStep
<1> QED BY <1>1, Invariance, PTL DEF Spec, LeaseExpiryNeverMoves

-----------------------------------------------------------------------------
(* A state file that only one process uses.                                *)

OneProcess == \A p, q \in Procs : p = q

\* No lease of the dedup key of a is live in l, or none but that of b.
NoneLive(a, l) ==
  \A c \in Actions : KeyOf[c] = KeyOf[a] => l[c].status \notin Live

NoneLiveBut(a, b, l) ==
  /\ b \in Actions /\ KeyOf[b] = KeyOf[a]
  /\ \A c \in Actions : KeyOf[c] = KeyOf[a] /\ l[c].status \in Live => c = b

(***************************************************************************)
(* What the only process may rely on besides, with leases l and adapter    *)
(* states d.  What it read stays true, as nobody else writes: it executes  *)
(* and ends the lease it found, Reconcile visits live leases, and what is  *)
(* about to be written as expired is no longer in force.                   *)
(***************************************************************************)
Relies(s, l, d) ==
  /\ s.pc # "idle" => s.op # "none"
  /\ s.pc \in {"snapshot", "next", "state"} => s.op = "reconcile"
  /\ s.pc \in {"state", "cleanup", "write"} => s.cur \in Actions
  /\ s.op # "reconcile" => s.todo = {}
  /\ s.pc \in {"audit", "execute"} => NoneLive(s.a, l)
  /\ s.op = "execute" /\ s.pc = "cleanup" => NoneLiveBut(s.a, s.cur, l)
  /\ s.op = "execute" /\ s.pc = "write" /\ s.event = "expired" =>
       NoneLiveBut(s.a, s.cur, l) /\ s.status = "expired"
  /\ s.op = "execute" /\ s.pc = "report" /\ s.event = "expired" => NoneLive(s.a, l)
  /\ s.op = "execute" /\ s.pc = "write" /\ s.status \in Live => s.cur = s.a
  /\ \A b \in s.todo : l[b].status \in Live
  /\ s.op = "reconcile" /\ s.pc \in {"state", "cleanup", "write"} =>
       l[s.cur].status \in Live /\ s.cur \notin s.todo
  /\ s.pc = "write" /\ s.status = "expired" => d[s.cur].status # "active"

ProcessRelies == \A p \in Procs : Relies(proc[p], lease, adapter)

\* The ways out of a call keep what the process relies on.
LEMMA HelpersRely ==
  ASSUME NEW s \in LocalStates, NEW l, NEW d, \A b \in s.todo : l[b].status \in Live
  PROVE  /\ Relies(Idle, l, d)
         /\ s.op = "reconcile" => Relies(NextLease(s), l, d)
         /\ Relies(Abandon(s), l, d)
<1>1. Relies(Idle, l, d)
  BY DEF Relies, Idle
<1>2. ASSUME s.op = "reconcile" PROVE Relies(NextLease(s), l, d)
  BY <1>1, <1>2 DEF NextLease, Relies, LocalStates
<1> QED BY <1>1, <1>2 DEF Abandon

\* Every step of the only process, and of its adapters, keeps it.
LEMMA RelianceStep ==
  ASSUME OneProcess, IInv, ProcessRelies, [Next]_vars
  PROVE  ProcessRelies'
<1> DEFINE Good(p) == Relies(proc'[p], lease', adapter')
<1>a. ASSUME NEW p \in Procs, Good(p) PROVE ProcessRelies'
  BY <1>a DEF OneProcess, ProcessRelies
<1>b. ASSUME NEW p \in Procs
      PROVE  /\ proc[p] \in LocalStates
             /\ Relies(proc[p], lease, adapter)
             /\ Knows(proc[p])
             /\ \A b \in proc[p].todo : lease[b].status \in Live
  BY <1>b DEF IInv, TypeOK, ProcessKnowledge, ProcessRelies, Relies
<1>c. ASSUME NEW p \in Procs, NEW s, Goto(p, s) PROVE proc'[p] = s
  BY <1>c DEF Goto, IInv, TypeOK
<1>d. lease \in [Actions -> Leases] /\ adapter \in [Actions -> AdapterStates]
  BY DEF IInv, TypeOK
<1>1. ASSUME NEW p \in Procs, NEW a \in Actions, BeginExecute(p, a) PROVE Good(p)
  <2>1. proc'[p] = [Idle EXCEPT !.pc = "lookup", !.op = "execute", !.a = a,
                                !.cur = a, !.t = now]
    BY <1>1, <1>c DEF BeginExecute
  <2> QED BY <2>1 DEF Relies, Idle
<1>2. ASSUME NEW p \in Procs, Lookup(p) PROVE Good(p)
  <2> DEFINE s == proc[p]
  <2>1. UNCHANGED <<lease, adapter>> /\ s.pc = "lookup" /\ s.op = "execute"
    BY <1>2, <1>b DEF Lookup, At, Knows
  <2>2. CASE proc'[p] = Idle
    BY <1>b, <2>1, <2>2, HelpersRely
  <2>3. CASE /\ {b \in Actions : KeyOf[b] = KeyOf[s.a] /\ IsLive(b)} = {}
             /\ proc'[p] = [s EXCEPT !.pc = "audit"]
    <3>1. NoneLive(s.a, lease)
      BY <2>3 DEF NoneLive, IsLive
    <3> QED BY <1>b, <2>1, <2>3, <3>1 DEF Relies, LocalStates
  <2>4. ASSUME NEW b \in Actions, KeyOf[b] = KeyOf[s.a], IsLive(b),
               proc'[p] = [s EXCEPT !.pc = "cleanup", !.cur = b]
        PROVE  Good(p)
    <3>1. NoneLiveBut(s.a, b, lease)
      BY <2>4 DEF NoneLiveBut, IInv, OneLiveLeasePerKey, IsLive
    <3> QED BY <1>b, <2>1, <2>4, <3>1 DEF Relies, LocalStates
  <2> QED BY <1>2, <1>c, <2>2, <2>3, <2>4 DEF Lookup
<1>3. ASSUME NEW p \in Procs, AuditActivation(p) PROVE Good(p)
  <2> DEFINE s == proc[p]
  <2>1. UNCHANGED <<lease, adapter>> /\ s.pc = "audit"
    BY <1>3 DEF AuditActivation, At
  <2>2. CASE proc'[p] = Idle
    BY <1>b, <2>1, <2>2, HelpersRely
  <2>3. CASE proc'[p] = [s EXCEPT !.pc = "execute", !.cur = s.a]
    BY <1>b, <2>1, <2>3 DEF Relies, LocalStates
  <2> QED BY <1>3, <1>c, <2>2, <2>3 DEF AuditActivation
<1>4. ASSUME NEW p \in Procs, Execute(p) PROVE Good(p)
  <2> DEFINE s == proc[p]
  <2>1. /\ UNCHANGED lease /\ s.pc = "execute"
        /\ s.op = "execute" /\ s.cur = s.a /\ s.cur \in Actions
    BY <1>4, <1>b DEF Execute, At, Knows
  <2>2. CASE proc'[p] = ToWrite(s, "active", "none")
    BY <1>b, <2>1, <2>2 DEF Relies, ToWrite, LocalStates
  <2>3. CASE proc'[p] = [s EXCEPT !.pc = "readback"]
    BY <1>b, <2>1, <2>3 DEF Relies, LocalStates
  <2> QED BY <1>4, <1>c, <2>2, <2>3 DEF Execute
<1>5. ASSUME NEW p \in Procs, Readback(p) PROVE Good(p)
  <2> DEFINE s == proc[p]
  <2>1. /\ UNCHANGED <<lease, adapter>> /\ s.pc = "readback"
        /\ s.op = "execute" /\ s.cur = s.a /\ s.cur \in Actions
    BY <1>5, <1>b DEF Readback, At, Knows
  <2>2. CASE proc'[p] = ToWrite(s, "active", "recovered")
    BY <1>b, <2>1, <2>2 DEF Relies, ToWrite, LocalStates, Live
  <2>3. CASE /\ adapter[s.cur].status # "active"
             /\ proc'[p] = ToWrite(s, "expired", "recovered_expired")
    BY <1>b, <2>1, <2>3 DEF Relies, ToWrite, LocalStates, Live
  <2>4. CASE proc'[p] = ToWrite(s, "failed", "failed")
    BY <1>b, <2>1, <2>4 DEF Relies, ToWrite, LocalStates, Live
  <2> QED BY <1>5, <1>c, <2>1, <2>2, <2>3, <2>4 DEF Readback, AdapterReply
<1>6. ASSUME NEW p \in Procs, BeginReconcile(p) PROVE Good(p)
  <2>1. proc'[p] = [Idle EXCEPT !.pc = "snapshot", !.op = "reconcile", !.t = now]
    BY <1>6, <1>c DEF BeginReconcile
  <2> QED BY <2>1 DEF Relies, Idle
<1>7. ASSUME NEW p \in Procs, Snapshot(p) PROVE Good(p)
  <2> DEFINE s == [proc[p] EXCEPT !.todo = {a \in Actions : IsLive(a)}]
  <2>1. UNCHANGED <<lease, adapter>> /\ proc'[p] = NextLease(s)
    BY <1>7, <1>c DEF Snapshot
  <2>2. s \in LocalStates /\ s.op = "reconcile" /\ \A b \in s.todo : lease[b].status \in Live
    BY <1>7, <1>b DEF Snapshot, At, Relies, LocalStates, IsLive
  <2> HIDE DEF s
  <2> QED BY <2>1, <2>2, HelpersRely
<1>8. ASSUME NEW p \in Procs, NEW a \in Actions, Visit(p, a) PROVE Good(p)
  <2> DEFINE s == [proc[p] EXCEPT !.cur = a, !.todo = @ \ {a}]
  <2>1. /\ UNCHANGED <<lease, adapter>>
        /\ \/ proc'[p] = ToWrite(s, "unknown", "unknown")
           \/ proc'[p] = [s EXCEPT !.pc = "state"]
           \/ proc'[p] = [s EXCEPT !.pc = "cleanup"]
    BY <1>8, <1>c DEF Visit
  <2>2. /\ s \in LocalStates /\ s.op = "reconcile" /\ s.cur = a /\ a \notin s.todo
        /\ lease[a].status \in Live
        /\ \A b \in s.todo : lease[b].status \in Live
    BY <1>8, <1>b DEF Visit, At, Relies, LocalStates
  <2> HIDE DEF s
  <2>3. CASE proc'[p] = ToWrite(s, "unknown", "unknown")
    <3>1. PICK t : t = ToWrite(s, "unknown", "unknown")
      OBVIOUS
    <3>2. /\ t.pc = "write" /\ t.op = s.op /\ t.cur = s.cur /\ t.todo = s.todo
          /\ t.status = "unknown" /\ t.event = "unknown"
      BY <2>2, <3>1 DEF ToWrite, LocalStates
    <3>3. Relies(t, lease, adapter)
      BY <2>2, <3>2 DEF Relies
    <3> QED BY <2>1, <2>3, <3>1, <3>3
  <2>4. ASSUME NEW c \in {"state", "cleanup"}, proc'[p] = [s EXCEPT !.pc = c]
        PROVE  Good(p)
    <3>1. PICK t : t = [s EXCEPT !.pc = c]
      OBVIOUS
    <3>2. t.pc = c /\ t.op = s.op /\ t.cur = s.cur /\ t.todo = s.todo
      BY <2>2, <3>1 DEF LocalStates
    <3>3. Relies(t, lease, adapter)
      BY <2>2, <2>4, <3>2 DEF Relies
    <3> QED BY <2>1, <2>4, <3>1, <3>3
  <2> QED BY <2>1, <2>3, <2>4
<1>9. ASSUME NEW p \in Procs, ReconcileState(p) PROVE Good(p)
  <2> DEFINE s == proc[p]
  <2>1. UNCHANGED <<lease, adapter>> /\ s.pc = "state" /\ s.op = "reconcile"
    BY <1>9, <1>b DEF ReconcileState, At, Relies
  <2>2. CASE proc'[p] = ToWrite(s, "active", "none")
    BY <1>b, <2>1, <2>2 DEF Relies, ToWrite, LocalStates, Live
  <2>3. CASE /\ adapter[s.cur].status # "active"
             /\ proc'[p] = ToWrite(s, "expired", "readback_expired")
    BY <1>b, <2>1, <2>3 DEF Relies, ToWrite, LocalStates, Live
  <2>4. CASE proc'[p] = ToWrite(s, "unknown", "unknown")
    BY <1>b, <2>1, <2>4 DEF Relies, ToWrite, LocalStates, Live
  <2> QED BY <1>9, <1>c, <2>2, <2>3, <2>4 DEF ReconcileState, AdapterReply
<1>10. ASSUME NEW p \in Procs, NEW a \in Actions, CleanupDone(p, a) PROVE Good(p)
  <2> DEFINE s == proc[p]
  <2>1. /\ UNCHANGED lease /\ s.pc = "cleanup" /\ s.cur = a
        /\ proc'[p] = ToWrite(s, "expired", "expired")
    BY <1>10, <1>c DEF CleanupDone, At
  <2>2. adapter'[a].status # "active"
    BY <1>10, <1>d DEF CleanupDone, Revoke, Ended
  <2> QED BY <1>b, <2>1, <2>2 DEF Relies, ToWrite, LocalStates, Live
<1>11. ASSUME NEW p \in Procs, NEW a \in Actions, CleanupFailed(p, a) PROVE Good(p)
  <2>1. UNCHANGED lease /\ proc'[p] = Abandon(proc[p])
    BY <1>11, <1>c DEF CleanupFailed
  <2> QED BY <1>b, <2>1, HelpersRely
<1>12. ASSUME NEW p \in Procs, NEW a \in Actions, WriteDone(p, a) PROVE Good(p)
  <2> DEFINE s == proc[p]
  <2>1. /\ s.pc = "write" /\ s.cur = a /\ UNCHANGED adapter
        /\ proc'[p] = AfterWrite(s)
        /\ lease'[a].status = s.status
        /\ \A b \in Actions \ {a} : lease'[b] = lease[b]
    BY <1>12, <1>c, <1>d DEF WriteDone, At, UpsertLease, Leases
  <2>2. \A b \in s.todo : lease'[b].status \in Live
    <3>1. s.todo = {} \/ s.op = "reconcile"
      BY <1>b DEF Relies
    <3> QED BY <1>b, <2>1, <3>1 DEF Relies, LocalStates
  <2>3. CASE s.event = "none"
    BY <1>b, <2>1, <2>2, <2>3, HelpersRely DEF AfterWrite
  <2>4. CASE s.event # "none"
    <3>1. proc'[p] = [s EXCEPT !.pc = "report"]
      BY <2>1, <2>4 DEF AfterWrite
    <3>2. s.op = "execute" /\ s.event = "expired" => NoneLive(s.a, lease')
      <4> SUFFICES ASSUME s.op = "execute", s.event = "expired"
                   PROVE  NoneLive(s.a, lease')
        OBVIOUS
      <4>1. NoneLiveBut(s.a, a, lease) /\ s.status = "expired"
        BY <1>b, <2>1 DEF Relies
      <4>2. lease'[a].status \notin Live
        BY <2>1, <4>1 DEF Live
      <4> QED BY <2>1, <4>1, <4>2 DEF NoneLive, NoneLiveBut
    <3> QED BY <1>b, <2>1, <2>2, <3>1, <3>2 DEF Relies, LocalStates
  <2> QED BY <2>3, <2>4
<1>13. ASSUME NEW p \in Procs, NEW a \in Actions, WriteFailed(p, a) PROVE Good(p)
  <2> DEFINE s == proc[p]
  <2>1. UNCHANGED <<lease, adapter>> /\ s.pc = "write"
    BY <1>13 DEF WriteFailed, At
  <2>2. CASE s.event \in {"failed", "readback_expired"}
    <3>1. proc'[p] = [s EXCEPT !.pc = "report"]
      BY <1>13, <1>c, <2>2 DEF WriteFailed
    <3> QED BY <1>b, <2>1, <2>2, <3>1 DEF Relies, LocalStates
  <2>3. CASE s.event \notin {"failed", "readback_expired"}
    <3>1. proc'[p] = Abandon(s)
      BY <1>13, <1>c, <2>3 DEF WriteFailed
    <3> QED BY <1>b, <2>1, <3>1, HelpersRely
  <2> QED BY <2>2, <2>3
<1>14. ASSUME NEW p \in Procs, Report(p) PROVE Good(p)
  <2> DEFINE s == proc[p]
  <2>1. UNCHANGED <<lease, adapter>> /\ s.pc = "report"
    BY <1>14 DEF Report, At
  <2>2. CASE proc'[p] = Abandon(s)
    BY <1>b, <2>1, <2>2, HelpersRely
  <2>3. CASE /\ s.op = "execute" /\ s.event = "expired"
             /\ proc'[p] = [s EXCEPT !.pc = "audit", !.cur = s.a, !.status = "none",
                                     !.event = "none"]
    BY <1>b, <2>1, <2>3 DEF Relies, LocalStates
  <2> QED BY <1>14, <1>c, <2>2, <2>3 DEF Report, AfterReport
<1>15. ASSUME NEW p \in Procs, Crash(p) \/ ReadFailed(p) PROVE Good(p)
  <2>1. UNCHANGED <<lease, adapter>> /\ proc'[p] = Idle
    BY <1>15, <1>c DEF Crash, ReadFailed, IInv, TypeOK
  <2> QED BY <1>b, <2>1, HelpersRely
<1>16. ASSUME NEW a \in Actions, AdapterEnds(a) PROVE ProcessRelies'
  <2>1. UNCHANGED <<lease, proc>>
    BY <1>16 DEF AdapterEnds
  <2>2. \A b \in Actions : adapter[b].status # "active" => adapter'[b].status # "active"
    BY <1>16, <1>d DEF AdapterEnds, Ended
  <2>3. ASSUME NEW p \in Procs PROVE Good(p)
    BY <1>b, <2>1, <2>2 DEF Relies
  <2> QED BY <2>1, <2>3 DEF ProcessRelies
<1>17. CASE UNCHANGED <<lease, adapter, proc>>
  BY <1>17 DEF ProcessRelies
<1> HIDE DEF Good
<1> QED
  BY <1>a, <1>1, <1>2, <1>3, <1>4, <1>5, <1>6, <1>7, <1>8, <1>9, <1>10, <1>11, <1>12,
     <1>13, <1>14, <1>15, <1>16, <1>17
  DEF Next, Step, ExecuteStep, ReconcileStep, CommonStep, Tick, vars

\* With one process on the state file, what it relies on holds throughout.
LEMMA Reliance == ASSUME OneProcess PROVE Spec => [](IInv /\ ProcessRelies)
<1>1. Init => ProcessRelies
  <2> SUFFICES ASSUME Init, NEW p \in Procs PROVE Relies(proc[p], lease, adapter)
    BY DEF ProcessRelies
  <2>1. proc[p] = Idle
    BY DEF Init
  <2>2. Relies(Idle, lease, adapter)
    BY DEF Relies, Idle
  <2> QED BY <2>1, <2>2
<1>2. ProcessRelies /\ IInv /\ [Next]_vars => ProcessRelies'
  BY RelianceStep
<1> QED BY <1>1, <1>2, Invariance, PTL DEF Spec

\* One process, whatever fails and wherever it crashes: the adapter is asked to
\* activate an action only when no lease of its dedup key is live.
THEOREM ExecutionFindsNoLease ==
  ASSUME OneProcess PROVE Spec => []ExecutesOnlyWithoutLease
<1>1. ProcessRelies => ExecutesOnlyWithoutLease
  BY DEF ProcessRelies, Relies, NoneLive, ExecutesOnlyWithoutLease, At, IsLive
<1> QED BY <1>1, Reliance, PTL

\* One process: a lease that has ended is revived only by the execution of its
\* own action; reconciliation writes a live status to live leases only.
THEOREM ReconcileRevivesNothing ==
  ASSUME OneProcess PROVE Spec => OnlyExecutionRevives
<1> DEFINE Revived == \A a \in Actions :
                        (lease[a].status \in {"expired", "failed"} /\ lease'[a].status \in Live)
                          => \E p \in Procs : proc[p].op = "execute" /\ proc[p].a = a
<1>1. IInv /\ ProcessRelies /\ [Next]_vars => [Revived]_vars
  <2> SUFFICES ASSUME IInv, ProcessRelies, [Next]_vars PROVE Revived
    OBVIOUS
  <2>1. CASE UNCHANGED lease
    BY <2>1 DEF Live
  <2>2. ASSUME NEW p \in Procs, NEW a \in Actions, WriteDone(p, a) PROVE Revived
    <3> SUFFICES ASSUME NEW b \in Actions, lease[b].status \in {"expired", "failed"},
                        lease'[b].status \in Live
                 PROVE  proc[p].op = "execute" /\ proc[p].a = b
      OBVIOUS
    <3>1. /\ proc[p].pc = "write" /\ proc[p].cur = a
          /\ lease'[a].status = proc[p].status
          /\ \A c \in Actions \ {a} : lease'[c] = lease[c]
      BY <2>2 DEF WriteDone, At, UpsertLease, IInv, TypeOK, Leases
    <3>2. b = a
      BY <3>1 DEF Live
    <3>3. proc[p].op # "reconcile"
      BY <3>1, <3>2 DEF ProcessRelies, Relies, Live
    <3>4. proc[p].op = "execute"
      BY <3>1, <3>3 DEF ProcessRelies, Relies, IInv, TypeOK, LocalStates
    <3> QED BY <3>1, <3>2, <3>4 DEF ProcessRelies, Relies
  <2> QED BY <2>1, <2>2, LeaseStep
<1> QED BY <1>1, Reliance, PTL DEF Spec, OnlyExecutionRevives

\* One process: a lease is recorded as expired only when its action is no longer
\* in force at the adapter.
THEOREM ExpiredWasRevoked ==
  ASSUME OneProcess PROVE Spec => ExpiredOnlyAfterRevoke
<1> DEFINE Revoked == \A a \in Actions :
                        (lease[a].status # "expired" /\ lease'[a].status = "expired")
                          => adapter[a].status # "active"
<1>1. IInv /\ ProcessRelies /\ [Next]_vars => [Revoked]_vars
  <2> SUFFICES ASSUME IInv, ProcessRelies, [Next]_vars PROVE Revoked
    OBVIOUS
  <2>1. CASE UNCHANGED lease
    BY <2>1
  <2>2. ASSUME NEW p \in Procs, NEW a \in Actions, WriteDone(p, a) PROVE Revoked
    BY <2>2
    DEF WriteDone, At, UpsertLease, ProcessRelies, Relies, IInv, TypeOK, Leases
  <2> QED BY <2>1, <2>2, LeaseStep
<1> QED BY <1>1, Reliance, PTL DEF Spec, ExpiredOnlyAfterRevoke

-----------------------------------------------------------------------------
(* RuntimeActions implements ActionLifecycle.                              *)

\* A lease write is an entry in the book.
LEMMA WriteRefines ==
  ASSUME IInv, NEW p \in Procs, NEW a \in Actions, WriteDone(p, a)
  PROVE  Lifecycle!Next
<1> DEFINE status == proc[p].status
           expiresAt == proc[p].t + TTL
<1>1. proc[p] \in LocalStates
  BY DEF IInv, TypeOK
<1>2. expiresAt \in 0 .. (MaxTime + TTL)
  BY <1>1, ConstantsAssumption DEF LocalStates
<1>3. /\ status \in Lifecycle!Status \ {"none"}
      /\ status \in Live => adapter[a].status # "never"
  BY <1>1 DEF WriteDone, At, IInv, ProcessKnowledge, Knows, Activated,
              LocalStates, LeaseStatus, Live, Lifecycle!Status,
              Lifecycle!LiveStatus
<1>4. Lifecycle!MayRecord(a, status)
  BY <1>3 DEF WriteDone, DedupIndexAllows, IsLive, Live, Lifecycle!MayRecord,
              Lifecycle!LiveStatus
<1>5. UNCHANGED <<adapter, authorized>>
  BY DEF WriteDone
<1>6. CASE lease[a].status = "none"
  <2>1. Lifecycle!Open(a, status, expiresAt)
    BY <1>4, <1>5, <1>6 DEF WriteDone, UpsertLease, Lifecycle!Open, IInv, TypeOK
  <2> QED BY <1>2, <1>3, <2>1 DEF Lifecycle!Next
<1>7. CASE lease[a].status # "none"
  <2>1. Lifecycle!Update(a, status)
    BY <1>4, <1>5, <1>7 DEF WriteDone, UpsertLease, Lifecycle!Update, IInv, TypeOK
  <2> QED BY <1>3, <2>1 DEF Lifecycle!Next
<1> QED BY <1>6, <1>7

\* Every step is a step of ActionLifecycle or leaves its variables alone.
LEMMA StepRefines ==
  ASSUME IInv, [Next]_vars
  PROVE  [Lifecycle!Next]_(Lifecycle!vars)
<1>1. CASE UNCHANGED <<lease, adapter, authorized>>
  BY <1>1 DEF Lifecycle!vars
<1>2. ASSUME NEW p \in Procs, NEW a \in Actions, WriteDone(p, a)
      PROVE  Lifecycle!Next
  BY <1>2, WriteRefines
<1>3. ASSUME NEW a \in Actions, NEW t, AppendActivationAudit(a, t),
             UNCHANGED <<lease, adapter>>
      PROVE  Lifecycle!Next
  <2>1. authorized' = authorized \cup {<<a, t>>} /\ <<a, t>>[1] = a
    BY <1>3 DEF AppendActivationAudit
  <2>2. {r[1] : r \in authorized'} = {r[1] : r \in authorized} \cup {a}
    BY <2>1
  <2>3. Lifecycle!Authorise(a)
    BY <1>3, <2>2 DEF Lifecycle!Authorise
  <2> QED BY <2>3 DEF Lifecycle!Next
<1>4. ASSUME NEW p \in Procs, Execute(p), ~UNCHANGED adapter
      PROVE  Lifecycle!Next
  <2>1. proc[p].a \in Actions /\ <<proc[p].a, proc[p].t>> \in authorized
    BY <1>4 DEF Execute, At, IInv, ProcessKnowledge, Knows
  <2>2. PICK a \in Actions : a = proc[p].a
    BY <2>1
  <2>3. a \in {r[1] : r \in authorized}
    BY <2>1, <2>2
  <2>4. {b \in Actions : adapter'[b].status # "never"}
          = {b \in Actions : adapter[b].status # "never"} \cup {a}
    BY <1>4, <2>2 DEF Execute, IInv, TypeOK
  <2>5. Lifecycle!Activate(a)
    BY <1>4, <2>3, <2>4 DEF Execute, Lifecycle!Activate
  <2> QED BY <2>5 DEF Lifecycle!Next
<1>5. ASSUME NEW a \in Actions, Revoke(a) \/ AdapterEnds(a),
             UNCHANGED <<lease, authorized>>
      PROVE  UNCHANGED Lifecycle!vars
  <2>1. {b \in Actions : adapter'[b].status # "never"}
          = {b \in Actions : adapter[b].status # "never"}
    BY <1>5 DEF Revoke, AdapterEnds, Ended, IInv, TypeOK
  <2> QED BY <1>5, <2>1 DEF Lifecycle!vars
<1>6. ASSUME NEW p \in Procs, AuditActivation(p)
      PROVE  [Lifecycle!Next]_(Lifecycle!vars)
  <2>1. proc[p].a \in Actions
    BY <1>6 DEF AuditActivation, At, IInv, ProcessKnowledge, Knows
  <2>2. PICK a \in Actions, t \in {proc[p].t} : a = proc[p].a /\ t = proc[p].t
    BY <2>1
  <2> QED BY <1>1, <1>3, <1>6, <2>2 DEF AuditActivation
<1> QED
  BY <1>1, <1>2, <1>4, <1>5, <1>6, ZenonT(30)
  DEF Next, vars, Step, ExecuteStep, ReconcileStep, CommonStep, Crash, Tick,
      AdapterEnds, BeginExecute, BeginReconcile, Lookup, Execute, Readback,
      Snapshot, Visit, ReconcileState, CleanupDone, CleanupFailed, WriteFailed,
      ReadFailed, Report

\* The processes with their stale reads, lost answers and crashes implement the
\* lifecycle: authorised, then in force, then entered in the book.
THEOREM Refinement == Spec => ImplementsLifecycle
<1>1. Init => Lifecycle!Init
  BY DEF Init, Lifecycle!Init, NoLease, Ended
<1> QED BY <1>1, StepRefines, Invariance, PTL
        DEF Spec, ImplementsLifecycle, Lifecycle!Spec

=============================================================================
