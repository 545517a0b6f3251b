-------------------------- MODULE BackgroundProofs --------------------------
(***************************************************************************)
(* Theorems about AuditSpool, for every set of processes and records and   *)
(* every order of their times and ids; about AuditUpload, for any number   *)
(* of records, any backoff and any number of crashes; and about ForgeJobs, *)
(* for any number of jobs, workers, artifacts and faults.                  *)
(*                                                                         *)
(* That the chain has no cycle rests on what a process holds between its   *)
(* read of the latest record and its insert: the record it will link to is *)
(* stored, and stays stored, and nothing can be linked to a record that is *)
(* not stored yet.                                                         *)
(*                                                                         *)
(* What a flush does to a row rests on what it read before: the records it *)
(* still has to visit and the one at hand are pending, each is visited     *)
(* once, and the one it holds an acknowledgement for is stored at Forge.   *)
(*                                                                         *)
(* A job moves from the request to the queue and from there to one worker; *)
(* Owned says that it is in one of these places and what its status is     *)
(* meanwhile.  ResultStored says that a worker that is about to report     *)
(* success has seen the complete artifact, which no other worker can take  *)
(* away.                                                                   *)
(***************************************************************************)
EXTENDS AuditSpool, AuditUpload, ForgeJobs, Sequences, TLAPS

-----------------------------------------------------------------------------
(* The spool.                                                              *)

Holds(s) ==
  /\ s.pc \in {"link", "insert"} => s.rec \in Records
  /\ s.pc = "insert" => s.prev \in Stored \cup {Root}

LinkIsStored == \A w \in Writers : Holds(writer[w])

IInv == TypeOK /\ LinkIsStored /\ ChainIsWellFounded

\* The empty spool satisfies the invariant.
LEMMA InvInit == Init => IInv
<1> SUFFICES ASSUME Init PROVE IInv
  OBVIOUS
<1>1. Idle \in WriterStates
  BY ConstantsAssumption DEF Idle, WriterStates
<1>2. TypeOK
  BY <1>1, ConstantsAssumption DEF Init, TypeOK
<1>3. Stored = {}
  BY DEF Init, Stored
<1>4. LinkIsStored
  BY DEF Init, LinkIsStored, Holds, Idle
<1>5. ChainIsWellFounded
  BY <1>3 DEF ChainIsWellFounded
<1> QED BY <1>2, <1>4, <1>5 DEF IInv

\* A step leaves the spool alone or is an insert.
LEMMA SpoolStep ==
  ASSUME [Next]_vars
  PROVE  \/ UNCHANGED spool
         \/ \E w \in Writers : Insert(w)
BY DEF Next, vars, Begin, End, AppendAudit, Link, AppendFails, Crash, Tick

\* An insert adds one record, which nothing was linked to, after a stored one.
LEMMA InsertAdds ==
  ASSUME IInv, NEW w \in Writers, Insert(w),
         NEW r, r = writer[w].rec, NEW h, h = writer[w].prev
  PROVE  /\ r \in Records \ Stored
         /\ h \in Stored \cup {Root}
         /\ Stored' = Stored \cup {r}
         /\ spool'[r] = h
         /\ \A s \in Stored : spool'[s] = spool[s]
<1>1. r \in Records \ Stored /\ h \in Stored \cup {Root}
  BY DEF Insert, IInv, LinkIsStored, Holds
<1>2. spool' = [spool EXCEPT ![r] = h] /\ spool \in [Records -> Records \cup {Root, None}]
  BY DEF Insert, IInv, TypeOK
<1>3. h # None
  BY <1>1, ConstantsAssumption DEF Stored
<1> QED BY <1>1, <1>2, <1>3 DEF Stored

\* Type correctness is preserved.
LEMMA TypeStep == IInv /\ [Next]_vars => TypeOK'
<1> SUFFICES ASSUME IInv, [Next]_vars PROVE TypeOK'
  OBVIOUS
<1> USE DEF IInv
<1>a. Idle \in WriterStates /\ \A w \in Writers : writer[w] \in WriterStates
  BY ConstantsAssumption DEF Idle, WriterStates, TypeOK
<1>1. ASSUME NEW w \in Writers, Begin(w) PROVE TypeOK'
  <2>1. [Idle EXCEPT !.pc = "open", !.t = now] \in WriterStates
    BY DEF Idle, WriterStates, TypeOK
  <2> QED BY <1>1, <2>1 DEF Begin, TypeOK
<1>2. ASSUME NEW w \in Writers, End(w) \/ Crash(w) PROVE TypeOK'
  BY <1>2, <1>a DEF End, Crash, TypeOK
<1>3. ASSUME NEW w \in Writers, NEW r \in Records, AppendAudit(w, r) PROVE TypeOK'
  <2>1. [writer[w] EXCEPT !.pc = "link", !.rec = r] \in WriterStates
    BY <1>a, <1>3 DEF WriterStates, AppendAudit
  <2> QED BY <1>3, <2>1 DEF AppendAudit, TypeOK
<1>4. ASSUME NEW w \in Writers, Link(w) PROVE TypeOK'
  <2>1. \A h \in Records \cup {Root} :
          [writer[w] EXCEPT !.pc = "insert", !.prev = h] \in WriterStates
    BY <1>a, <1>4 DEF WriterStates, Link
  <2> QED BY <1>4, <2>1 DEF Link, TypeOK
<1>5. ASSUME NEW w \in Writers, Insert(w) \/ AppendFails(w) PROVE TypeOK'
  <2>1. [writer[w] EXCEPT !.pc = "open", !.rec = None, !.prev = None]
          \in WriterStates
    BY <1>a DEF WriterStates
  <2>2. writer[w].prev \in Records \cup {Root, None}
    BY <1>a DEF WriterStates
  <2> QED BY <1>5, <2>1, <2>2 DEF Insert, AppendFails, Continue, TypeOK
<1>6. CASE Tick
  BY <1>6, ConstantsAssumption DEF Tick, TypeOK
<1>7. CASE UNCHANGED vars
  BY <1>7 DEF vars, TypeOK
<1> QED BY <1>1, <1>2, <1>3, <1>4, <1>5, <1>6, <1>7 DEF Next

\* What a process holds between its read and its insert stays true.
LEMMA LinkStep == IInv /\ [Next]_vars => LinkIsStored'
<1> SUFFICES ASSUME IInv, [Next]_vars PROVE LinkIsStored'
  OBVIOUS
<1> USE DEF IInv
<1>a. Stored \subseteq Stored'
  <2>1. CASE UNCHANGED spool
    BY <2>1 DEF Stored
  <2>2. ASSUME NEW w \in Writers, Insert(w) PROVE Stored \subseteq Stored'
    BY <2>2, InsertAdds
  <2> QED BY <2>1, <2>2, SpoolStep
<1>b. \A w \in Writers : writer[w] \in WriterStates /\ Holds(writer[w])
  BY DEF LinkIsStored, TypeOK
<1>c. ASSUME NEW w \in Writers, NEW s, writer' = [writer EXCEPT ![w] = s], Holds(s)'
      PROVE  LinkIsStored'
  <2> SUFFICES ASSUME NEW v \in Writers PROVE Holds(writer[v])'
    BY DEF LinkIsStored
  <2>1. CASE v = w
    BY <1>c, <2>1 DEF TypeOK, Holds
  <2>2. CASE v # w
    <3>1. writer'[v] = writer[v]
      BY <1>c, <2>2 DEF TypeOK
    <3> QED BY <1>a, <1>b, <3>1 DEF Holds
  <2> QED BY <2>1, <2>2
<1>1. ASSUME NEW w \in Writers, Begin(w) \/ End(w) \/ Crash(w) PROVE LinkIsStored'
  <2>1. Holds([Idle EXCEPT !.pc = "open", !.t = now])' /\ Holds(Idle)'
    BY DEF Holds, Idle
  <2>2. \E s : writer' = [writer EXCEPT ![w] = s] /\ Holds(s)'
    BY <1>1, <2>1 DEF Begin, End, Crash, Holds, Idle
  <2> QED BY <1>c, <2>2
<1>2. ASSUME NEW w \in Writers, NEW r \in Records, AppendAudit(w, r) PROVE LinkIsStored'
  <2>1. PICK s : s = [writer[w] EXCEPT !.pc = "link", !.rec = r]
    OBVIOUS
  <2>2. Holds(s)'
    BY <1>b, <2>1 DEF Holds, WriterStates
  <2> QED BY <1>2, <1>c, <2>1, <2>2 DEF AppendAudit
<1>3. ASSUME NEW w \in Writers, Link(w) PROVE LinkIsStored'
  <2>1. PICK h \in Records \cup {Root} :
           /\ IsLatest(h)
           /\ writer' = [writer EXCEPT ![w] =
                           [@ EXCEPT !.pc = "insert", !.prev = h]]
    BY <1>3 DEF Link
  <2>2. h \in Stored \cup {Root}
    BY <2>1 DEF IsLatest
  <2>3. PICK s : s = [writer[w] EXCEPT !.pc = "insert", !.prev = h]
    OBVIOUS
  <2>4. writer[w].pc = "link"
    BY <1>3 DEF Link
  <2>5. Holds(s)'
    BY <1>a, <1>b, <2>2, <2>3, <2>4 DEF Holds, WriterStates
  <2> QED BY <1>c, <2>1, <2>3, <2>5
<1>4. ASSUME NEW w \in Writers, Insert(w) \/ AppendFails(w) PROVE LinkIsStored'
  <2>1. PICK s : s = [writer[w] EXCEPT !.pc = "open", !.rec = None, !.prev = None]
    OBVIOUS
  <2>2. Holds(s)'
    BY <1>b, <2>1 DEF Holds, WriterStates
  <2> QED BY <1>4, <1>c, <2>1, <2>2 DEF Insert, AppendFails, Continue
<1>5. CASE UNCHANGED writer
  BY <1>5, <1>a, <1>b DEF LinkIsStored, Holds
<1> QED BY <1>1, <1>2, <1>3, <1>4, <1>5 DEF Next, Tick, vars

\* The chain stays well founded: a new record is linked to a stored one and
\* nothing was linked to it.
LEMMA ChainStep == IInv /\ [Next]_vars => ChainIsWellFounded'
<1> SUFFICES ASSUME IInv, [Next]_vars PROVE ChainIsWellFounded'
  OBVIOUS
<1>1. CASE UNCHANGED spool
  BY <1>1 DEF IInv, ChainIsWellFounded, Stored
<1>2. ASSUME NEW w \in Writers, Insert(w) PROVE ChainIsWellFounded'
  <2>1. PICK r, h : r = writer[w].rec /\ h = writer[w].prev
    OBVIOUS
  <2>2. /\ r \in Records \ Stored
        /\ h \in Stored \cup {Root}
        /\ Stored' = Stored \cup {r}
        /\ spool'[r] = h
        /\ \A s \in Stored : spool'[s] = spool[s]
    BY <1>2, <2>1, InsertAdds
  <2>3. \A s \in Stored : spool[s] \in Stored \cup {Root}
    BY DEF IInv, ChainIsWellFounded
  <2>4. r # Root
    BY <2>2, ConstantsAssumption
  <2>5. \A s \in Stored' : spool'[s] \in Stored' \cup {Root}
    BY <2>2, <2>3
  <2>6. ASSUME NEW S \in SUBSET Stored', S # {}
        PROVE  \E s \in S : spool'[s] \notin S
    <3>1. CASE S \ {r} = {}
      BY <2>2, <2>4, <2>6, <3>1
    <3>2. CASE S \ {r} # {}
      <4>1. S \ {r} \in SUBSET Stored
        BY <2>2
      <4>2. PICK s \in S \ {r} : spool[s] \notin S \ {r}
        BY <3>2, <4>1 DEF IInv, ChainIsWellFounded
      <4> QED BY <2>2, <2>3, <2>4, <4>1, <4>2
    <3> QED BY <3>1, <3>2
  <2> QED BY <2>5, <2>6 DEF ChainIsWellFounded
<1> QED BY <1>1, <1>2, SpoolStep

\* The inductive invariant: what is stored and what the processes hold.
THEOREM Invariance == Spec => []IInv
<1>1. IInv /\ [Next]_vars => IInv'
  BY TypeStep, LinkStep, ChainStep DEF IInv
<1> QED BY InvInit, <1>1, PTL DEF Spec

\* Type correctness.
THEOREM TypeCorrect == Spec => []TypeOK
BY Invariance, PTL DEF IInv

\* From every audit record the chain leads back to a first record, whatever
\* the processes interleave between reading the latest record and inserting.
THEOREM ChainSafety == Spec => []ChainIsWellFounded
BY Invariance, PTL DEF IInv

\* No step rewrites the link of a stored audit record.
THEOREM HistoryIsFixed == Spec => AppendOnly
<1> DEFINE Fixed == \A r \in Stored : spool'[r] = spool[r]
<1>1. IInv /\ [Next]_vars => [Fixed]_vars
  <2> SUFFICES ASSUME IInv, [Next]_vars PROVE Fixed
    OBVIOUS
  <2>1. CASE UNCHANGED spool
    BY <2>1
  <2>2. ASSUME NEW w \in Writers, Insert(w) PROVE Fixed
    BY <2>2, InsertAdds
  <2> QED BY <2>1, <2>2, SpoolStep
<1> QED BY <1>1, Invariance, PTL DEF Spec, AppendOnly

-----------------------------------------------------------------------------
(* The upload.                                                             *)

\* f holds pending records of the rows w, each once.
HoldsPending(f, w) ==
  /\ f.cur \notin f.todo
  /\ \A r \in Uploads : r \in f.todo \/ r = f.cur => w[r] = "pending_upload"

\* What f has an acknowledgement for is among the received records.
AckIsReceived(f, records) == f.pc = "acked" => f.cur \in records

UploadIInv ==
  /\ UploadTypeOK
  /\ UploadedWasReceived
  /\ HoldsPending(flush, row)
  /\ AckIsReceived(flush, received)

-----------------------------------------------------------------------------
(* The operators.                                                          *)

\* A bounded number stays within its bound.
LEMMA AtMostType ==
  ASSUME NEW b \in Nat, NEW n \in Nat
  PROVE  AtMost(b, n) \in 0 .. b
BY DEF AtMost

\* The state between two records has its type and holds what is still to do.
LEMMA NextRecordHolds ==
  ASSUME NEW todo \in SUBSET Uploads, NEW w, NEW records,
         \A r \in todo : w[r] = "pending_upload"
  PROVE  /\ NextRecord(todo) \in FlushStates
         /\ HoldsPending(NextRecord(todo), w)
         /\ AckIsReceived(NextRecord(todo), records)
<1>1. FlushIdle \in FlushStates /\ FlushIdle.todo = {} /\ FlushIdle.cur = NoRecord
  BY UploadAssumption DEF FlushIdle, FlushStates
<1>2. CASE todo = {}
  BY <1>1, <1>2, UploadAssumption
  DEF NextRecord, HoldsPending, AckIsReceived, FlushIdle
<1>3. CASE todo # {}
  <2>1. NextRecord(todo) = [pc |-> "next", todo |-> todo, cur |-> NoRecord, age |-> 0]
    BY <1>3 DEF NextRecord, FlushIdle
  <2>2. NoRecord \notin todo
    BY UploadAssumption
  <2> QED BY <2>1, <2>2, UploadAssumption DEF FlushStates, HoldsPending, AckIsReceived
<1> QED BY <1>2, <1>3

\* An idle flush holds nothing.
LEMMA IdleHolds ==
  ASSUME NEW w, NEW records
  PROVE  /\ FlushIdle \in FlushStates
         /\ HoldsPending(FlushIdle, w)
         /\ AckIsReceived(FlushIdle, records)
BY UploadAssumption DEF FlushIdle, FlushStates, HoldsPending, AckIsReceived

-----------------------------------------------------------------------------
(* The invariant.                                                          *)

\* The empty spool satisfies the invariant.
LEMMA UploadInvInit == UploadInit => UploadIInv
<1> SUFFICES ASSUME UploadInit PROVE UploadIInv
  OBVIOUS
<1>1. UploadTypeOK
  BY IdleHolds, UploadAssumption DEF UploadInit, UploadTypeOK, MaxRetries
<1>2. UploadedWasReceived
  BY DEF UploadInit, UploadedWasReceived
<1> QED BY <1>1, <1>2, IdleHolds DEF UploadInit, UploadIInv

\* The time and the attempts that a row keeps stay within their bounds.
LEMMA RowTypes ==
  ASSUME UploadTypeOK, NEW r \in Uploads
  PROVE  /\ [retries EXCEPT ![r] = AtMost(MaxRetries, @ + 1)]
              \in [Uploads -> 0 .. MaxRetries]
         /\ [age EXCEPT ![r] = flush.age] \in [Uploads -> 0 .. BackoffCap]
<1>1. MaxRetries \in Nat /\ retries[r] + 1 \in Nat
  BY UploadAssumption DEF UploadTypeOK, MaxRetries
<1>2. flush.age \in 0 .. BackoffCap
  BY DEF UploadTypeOK, FlushStates
<1> QED BY <1>1, <1>2, AtMostType DEF UploadTypeOK

\* A record that is not held by a flush may change as the flush goes on: the
\* rows of the others stay pending.
LEMMA HoldsStays ==
  ASSUME UploadTypeOK, HoldsPending(flush, row), NEW r \in Uploads, flush.cur = r,
         NEW s
  PROVE  /\ flush.todo \in SUBSET Uploads
         /\ \A q \in flush.todo : [row EXCEPT ![r] = s][q] = "pending_upload"
BY DEF UploadTypeOK, FlushStates, HoldsPending

\* Every step preserves the invariant.
LEMMA UploadInvStep == UploadIInv /\ [UploadNext]_uploadVars => UploadIInv'
<1> SUFFICES ASSUME UploadIInv, [UploadNext]_uploadVars PROVE UploadIInv'
  OBVIOUS
<1> USE DEF UploadIInv
<1>a. flush \in FlushStates /\ flush.todo \in SUBSET Uploads
  BY DEF UploadTypeOK, FlushStates
<1>1. ASSUME NEW r \in Uploads, AppendRecord(r) PROVE UploadIInv'
  <2>1. row' = [row EXCEPT ![r] = "pending_upload"] /\ row[r] = "none"
        /\ UNCHANGED <<retries, age, received, registration, flush, crashes>>
    BY <1>1 DEF AppendRecord
  <2>2. UploadTypeOK' /\ UploadedWasReceived'
    BY <2>1 DEF UploadTypeOK, UploadedWasReceived
  <2>3. HoldsPending(flush, row)' /\ AckIsReceived(flush, received)'
    BY <2>1 DEF HoldsPending, AckIsReceived, UploadTypeOK
  <2> QED BY <2>2, <2>3
<1>2. CASE BeginFlush
  <2> DEFINE todo == {r \in Uploads : row[r] = "pending_upload"}
  <2>1. flush' = NextRecord(todo)
        /\ UNCHANGED <<row, retries, age, received, registration, crashes>>
    BY <1>2 DEF BeginFlush
  <2>2. flush' \in FlushStates /\ HoldsPending(flush', row)
        /\ AckIsReceived(flush', received)
    BY <2>1, NextRecordHolds
  <2> QED BY <2>1, <2>2 DEF UploadTypeOK, UploadedWasReceived, HoldsPending, AckIsReceived
<1>3. ASSUME NEW r \in Uploads, Visit(r) PROVE UploadIInv'
  <2>1. r \in flush.todo /\ row[r] = "pending_upload"
        /\ UNCHANGED <<row, retries, age, received, registration, crashes>>
    BY <1>3 DEF Visit, HoldsPending
  <2>2. flush' \in FlushStates /\ HoldsPending(flush', row)
        /\ AckIsReceived(flush', received)
    <3>1. CASE flush' = NextRecord(flush.todo \ {r})
      <4>1. \A q \in flush.todo \ {r} : row[q] = "pending_upload"
        BY <1>a DEF HoldsPending
      <4> QED BY <1>a, <3>1, <4>1, NextRecordHolds
    <3>2. CASE flush' = [flush EXCEPT !.pc = "post", !.todo = flush.todo \ {r},
                                      !.cur = r]
      <4>1. flush' \in FlushStates
        BY <1>a, <3>2 DEF FlushStates
      <4>2. flush'.pc = "post" /\ flush'.todo = flush.todo \ {r} /\ flush'.cur = r
        BY <1>a, <3>2 DEF FlushStates
      <4> QED BY <2>1, <4>1, <4>2 DEF HoldsPending, AckIsReceived
    <3> QED BY <1>3, <3>1, <3>2 DEF Visit
  <2> QED BY <2>1, <2>2 DEF UploadTypeOK, UploadedWasReceived, HoldsPending, AckIsReceived
<1>4. ASSUME NEW r \in Uploads, PostAcked(r) PROVE UploadIInv'
  <2>1. received' = received \cup {r} /\ flush.cur = r
        /\ flush' = [flush EXCEPT !.pc = "acked"]
        /\ UNCHANGED <<row, retries, age, registration, crashes>>
    BY <1>4 DEF PostAcked
  <2>2. flush' \in FlushStates /\ flush'.cur = r /\ flush'.todo = flush.todo
    BY <1>a, <2>1 DEF FlushStates
  <2> QED BY <2>1, <2>2
      DEF UploadTypeOK, UploadedWasReceived, HoldsPending, AckIsReceived
<1>5. ASSUME NEW r \in Uploads, PostFailed(r) PROVE UploadIInv'
  <2>1. received \subseteq received' /\ received' \subseteq received \cup {r}
        /\ flush' = [flush EXCEPT !.pc = "failed"]
        /\ UNCHANGED <<row, retries, age, registration, crashes>>
    BY <1>5 DEF PostFailed
  <2>2. flush' \in FlushStates /\ flush'.pc = "failed" /\ flush'.cur = flush.cur
        /\ flush'.todo = flush.todo
    BY <1>a, <2>1 DEF FlushStates
  <2> QED BY <2>1, <2>2
      DEF UploadTypeOK, UploadedWasReceived, HoldsPending, AckIsReceived
<1>6. ASSUME NEW r \in Uploads, MarkAuditFailed(r) PROVE UploadIInv'
  <2>1. row' = [row EXCEPT ![r] = "pending_upload"] /\ flush.cur = r
        /\ retries' = [retries EXCEPT ![r] = AtMost(MaxRetries, @ + 1)]
        /\ age' = [age EXCEPT ![r] = flush.age]
        /\ flush' = NextRecord(flush.todo)
        /\ UNCHANGED <<received, registration, crashes>>
    BY <1>6 DEF MarkAuditFailed
  <2>2. flush' \in FlushStates /\ HoldsPending(flush', row')
        /\ AckIsReceived(flush', received')
    BY <2>1, HoldsStays, NextRecordHolds
  <2>3. UploadTypeOK' /\ UploadedWasReceived'
    BY <2>1, <2>2, RowTypes DEF UploadTypeOK, UploadedWasReceived
  <2> QED BY <2>2, <2>3
<1>7. ASSUME NEW r \in Uploads, MarkAuditUploaded(r) PROVE UploadIInv'
  <2>1. row' = [row EXCEPT ![r] = "uploaded"] /\ flush.cur = r /\ flush.pc = "acked"
        /\ age' = [age EXCEPT ![r] = flush.age]
        /\ flush' = NextRecord(flush.todo)
        /\ UNCHANGED <<retries, received, registration, crashes>>
    BY <1>7 DEF MarkAuditUploaded
  <2>2. flush' \in FlushStates /\ HoldsPending(flush', row')
        /\ AckIsReceived(flush', received')
    BY <2>1, HoldsStays, NextRecordHolds
  <2>3. r \in received
    BY <2>1 DEF AckIsReceived
  <2>4. UploadTypeOK' /\ UploadedWasReceived'
    BY <2>1, <2>2, <2>3, RowTypes DEF UploadTypeOK, UploadedWasReceived
  <2> QED BY <2>2, <2>4
<1>8. CASE MarkFails \/ DaemonCrash
  <2>1. UNCHANGED <<row, retries, age, received, registration>>
        /\ crashes' \in 0 .. MaxCrashes
    BY <1>8, UploadAssumption DEF MarkFails, DaemonCrash, UploadTypeOK
  <2>2. \A q \in flush.todo : row[q] = "pending_upload"
    BY <1>a DEF HoldsPending
  <2>3. flush' = NextRecord(flush.todo) \/ flush' = FlushIdle
    BY <1>8 DEF MarkFails, DaemonCrash
  <2>4. flush' \in FlushStates /\ HoldsPending(flush', row)
        /\ AckIsReceived(flush', received)
    BY <1>a, <2>2, <2>3, NextRecordHolds, IdleHolds
  <2> QED BY <2>1, <2>4 DEF UploadTypeOK, UploadedWasReceived, HoldsPending, AckIsReceived
<1>9. CASE Revoke
  BY <1>9 DEF Revoke, UploadTypeOK, UploadedWasReceived, HoldsPending, AckIsReceived
<1>10. CASE UploadTick
  <2>1. UNCHANGED <<row, retries, received, registration, crashes>>
    BY <1>10 DEF UploadTick
  <2>2. age' \in [Uploads -> 0 .. BackoffCap]
    <3>1. \A r \in Uploads : AtMost(BackoffCap, age[r] + 1) \in 0 .. BackoffCap
      BY UploadAssumption DEF UploadTypeOK, AtMost
    <3> QED BY <1>10, <3>1 DEF UploadTick, UploadTypeOK
  <2>3. flush' \in FlushStates /\ flush'.pc = flush.pc /\ flush'.cur = flush.cur
        /\ flush'.todo = flush.todo
    <3>1. AtMost(BackoffCap, flush.age + 1) \in 0 .. BackoffCap
      BY <1>a, UploadAssumption DEF FlushStates, AtMost
    <3>2. PICK n \in 0 .. BackoffCap : flush' = flush \/ flush' = [flush EXCEPT !.age = n]
      BY <1>10, <3>1 DEF UploadTick
    <3> QED BY <1>a, <3>2 DEF FlushStates
  <2> QED BY <2>1, <2>2, <2>3
      DEF UploadTypeOK, UploadedWasReceived, HoldsPending, AckIsReceived
<1>11. CASE UNCHANGED uploadVars
  BY <1>11 DEF uploadVars, UploadTypeOK, UploadedWasReceived, HoldsPending, AckIsReceived
<1> QED BY <1>1, <1>2, <1>3, <1>4, <1>5, <1>6, <1>7, <1>8, <1>9, <1>10, <1>11
    DEF UploadNext, FlushStep

\* The invariant holds throughout.
LEMMA UploadInvariance == UploadSpec => []UploadIInv
BY UploadInvInit, UploadInvStep, PTL DEF UploadSpec

-----------------------------------------------------------------------------
(* The theorems.                                                           *)

\* Every variable keeps its type (UploadTypeOK): no status but the three of
\* audit_spool is ever written to a row.
THEOREM UploadTypeCorrect == UploadSpec => []UploadTypeOK
BY UploadInvariance, PTL DEF UploadIInv

\* No audit record is lost, with any number of records, lost answers, failing
\* store calls and crashes (flushAuditSpool marks what Forge acknowledged).
THEOREM NothingIsLost == UploadSpec => []UploadedWasReceived
BY UploadInvariance, PTL DEF UploadIInv

\* No flush puts an uploaded record back, however late it marks what it read
\* (MarkAuditFailed and MarkAuditUploaded write a row without looking at it).
THEOREM UploadIsFinal == UploadSpec => UploadedForGood
<1> DEFINE Final == \A r \in Uploads : row[r] = "uploaded" => row'[r] = "uploaded"
<1>1. UploadIInv /\ [UploadNext]_uploadVars => [Final]_uploadVars
  <2> SUFFICES ASSUME UploadIInv, [UploadNext]_uploadVars PROVE Final
    OBVIOUS
  <2>1. row \in [Uploads -> {"none", "pending_upload", "uploaded"}]
    BY DEF UploadIInv, UploadTypeOK
  <2>2. ASSUME NEW r \in Uploads, AppendRecord(r) \/ MarkAuditUploaded(r) PROVE Final
    BY <2>1, <2>2 DEF AppendRecord, MarkAuditUploaded
  <2>3. ASSUME NEW r \in Uploads, MarkAuditFailed(r) PROVE Final
    <3>1. row[r] = "pending_upload"
      BY <2>3 DEF MarkAuditFailed, UploadIInv, HoldsPending
    <3> QED BY <2>1, <2>3, <3>1 DEF MarkAuditFailed
  <2>4. CASE UNCHANGED row
    BY <2>4
  <2> QED BY <2>2, <2>3, <2>4
      DEF UploadNext, FlushStep, uploadVars, BeginFlush, Visit, PostAcked, PostFailed,
          MarkFails, DaemonCrash, Revoke, UploadTick
<1> QED BY <1>1, UploadInvariance, PTL DEF UploadSpec, UploadedForGood

-----------------------------------------------------------------------------
(* Jobs.                                                                   *)

Ended == {"succeeded", "failed"}

WorkerStates ==
  [pc: {"idle", "get", "start", "put", "write", "finish"}, job: Jobs \cup {NoJob},
   status: {"none", "running"} \cup Ended]

JobsTypeOK ==
  /\ request \in [Jobs -> {"none", "created", "accepted", "failed"}]
  /\ job \in [Jobs -> {"none", "pending", "running"} \cup Ended]
  /\ queue \in Seq(Jobs)
  /\ worker \in [Workers -> WorkerStates]
  /\ file \in [Artifacts -> {"none", "partial", "full"}]

\* Each job is with its request (r), on the queue (q) once, or with one of the
\* workers (v); its status (s) is pending on the queue, open at a worker.
Owned(r, s, q, v) ==
  /\ \A i, k \in DOMAIN q : q[i] = q[k] => i = k
  /\ \A x, y \in Workers : v[x].job = v[y].job /\ v[x].job # NoJob => x = y
  /\ \A i \in DOMAIN q, w \in Workers : v[w].job # q[i]
  /\ \A i \in DOMAIN q : s[q[i]] = "pending" /\ r[q[i]] \in {"accepted", "failed"}
  /\ \A w \in Workers :
       v[w].job # NoJob =>
         s[v[w].job] \notin Ended /\ r[v[w].job] \in {"accepted", "failed"}
  /\ \A j \in Jobs : r[j] = "created" => s[j] = "pending"

\* The worker's state x agrees with its progress and with the artifacts f.
ResultStored(x, f) ==
  /\ x.pc # "idle" => x.job \in Jobs
  /\ x.pc = "start" => x.status = "running"
  /\ x.job \in Jobs /\ x.status = "succeeded" => f[ArtifactOf[x.job]] = "full"

JobsIInv ==
  /\ JobsTypeOK
  /\ Owned(request, job, queue, worker)
  /\ \A w \in Workers : ResultStored(worker[w], file)
  /\ SucceededIsStored

-----------------------------------------------------------------------------
(* The queue.                                                              *)

\* What RPUSH does to the queue.
LEMMA AppendAt ==
  ASSUME NEW q \in Seq(Jobs), NEW j \in Jobs, NEW u, u = Append(q, j)
  PROVE  /\ u \in Seq(Jobs)
         /\ DOMAIN u = DOMAIN q \cup {Len(q) + 1}
         /\ \A i \in DOMAIN q : u[i] = q[i]
         /\ u[Len(q) + 1] = j
OBVIOUS

\* What LPOP does to the queue.
LEMMA TailAt ==
  ASSUME NEW q \in Seq(Jobs), q # <<>>, NEW u, u = Tail(q)
  PROVE  /\ u \in Seq(Jobs)
         /\ \A i \in DOMAIN u : /\ i + 1 \in DOMAIN q /\ i + 1 # 1
                                /\ u[i] = q[i + 1]
         /\ DOMAIN u \subseteq Nat
         /\ 1 \in DOMAIN q /\ Head(q) = q[1] /\ Head(q) \in Jobs
OBVIOUS

-----------------------------------------------------------------------------
(* The invariant.                                                          *)

\* The empty store satisfies the invariant.
LEMMA JobsInvInit == JobsInit => JobsIInv
<1> SUFFICES ASSUME JobsInit PROVE JobsIInv
  OBVIOUS
<1>1. WorkerIdle \in WorkerStates /\ WorkerIdle.job = NoJob /\ WorkerIdle.pc = "idle"
      /\ WorkerIdle.status = "none"
  BY DEF WorkerIdle, WorkerStates
<1>2. JobsTypeOK
  BY <1>1 DEF JobsInit, JobsTypeOK
<1>3. Owned(request, job, queue, worker)
  BY <1>1 DEF JobsInit, Owned
<1>4. \A w \in Workers : ResultStored(worker[w], file)
  BY <1>1, JobsAssumption DEF JobsInit, ResultStored
<1>5. SucceededIsStored
  BY DEF JobsInit, SucceededIsStored
<1> QED BY <1>2, <1>3, <1>4, <1>5 DEF JobsIInv

\* A step of one worker, to the state x, keeps the workers' states sound if no
\* complete artifact gets lost.
LEMMA WorkersStored ==
  ASSUME JobsIInv, NEW w \in Workers, NEW x \in WorkerStates,
         worker' = [worker EXCEPT ![w] = x], ResultStored(x, file'),
         \A a \in Artifacts : file[a] = "full" => file'[a] = "full"
  PROVE  /\ worker' \in [Workers -> WorkerStates]
         /\ worker'[w] = x
         /\ \A v \in Workers \ {w} : worker'[v] = worker[v]
         /\ \A v \in Workers : ResultStored(worker'[v], file')
<1>1. worker \in [Workers -> WorkerStates]
  BY DEF JobsIInv, JobsTypeOK
<1>2. worker'[w] = x /\ \A v \in Workers \ {w} : worker'[v] = worker[v]
  BY <1>1
<1>3. \A j \in Jobs : ArtifactOf[j] \in Artifacts
  BY JobsAssumption
<1>4. \A v \in Workers : ResultStored(worker'[v], file')
  BY <1>2, <1>3 DEF ResultStored, JobsIInv
<1> QED BY <1>1, <1>2, <1>4

\* CreateJob: the job is nowhere yet.
LEMMA CreateInv ==
  ASSUME JobsIInv, NEW j \in Jobs, CreateJob(j)
  PROVE  JobsIInv'
<1>1. request[j] = "none" /\ UNCHANGED <<queue, worker, file>>
  BY DEF CreateJob
<1>2. PICK r \in {"created", "failed"} : request' = [request EXCEPT ![j] = r]
  BY DEF CreateJob, RequestFails
<1>3. /\ job' = [job EXCEPT ![j] = "pending"] \/ job' = job
      /\ request' = [request EXCEPT ![j] = "created"] =>
           job' = [job EXCEPT ![j] = "pending"]
  <2>1. request \in [Jobs -> {"none", "created", "accepted", "failed"}]
    BY DEF JobsIInv, JobsTypeOK
  <2> QED BY <2>1 DEF CreateJob, RequestFails
<1>4. JobsTypeOK
  BY DEF JobsIInv
<1>5. JobsTypeOK'
  BY <1>1, <1>2, <1>3, <1>4 DEF JobsTypeOK
<1>6. /\ \A i \in Jobs \ {j} : request'[i] = request[i] /\ job'[i] = job[i]
      /\ request'[j] = r
      /\ r = "created" => job'[j] = "pending"
      /\ job'[j] = "pending" \/ job'[j] = job[j]
  BY <1>2, <1>3, <1>4 DEF JobsTypeOK
<1>7. /\ \A i \in DOMAIN queue : queue[i] \in Jobs /\ queue[i] # j
      /\ \A w \in Workers : worker[w].job \in Jobs \cup {NoJob} /\ worker[w].job # j
  <2>1. \A i \in DOMAIN queue : queue[i] \in Jobs
    BY <1>4 DEF JobsTypeOK
  <2>2. \A w \in Workers : worker[w].job \in Jobs \cup {NoJob}
    BY <1>4 DEF JobsTypeOK, WorkerStates
  <2> QED BY <1>1, <2>1, <2>2, JobsAssumption DEF JobsIInv, Owned
<1>8. Owned(request', job', queue, worker)
  BY <1>6, <1>7 DEF JobsIInv, Owned
<1>9. SucceededIsStored'
  BY <1>1, <1>6 DEF JobsIInv, SucceededIsStored
<1> QED BY <1>1, <1>5, <1>8, <1>9 DEF JobsIInv

\* Enqueue: the job is pushed once, when its request gives it away.
LEMMA EnqueueInv ==
  ASSUME JobsIInv, NEW j \in Jobs, Enqueue(j)
  PROVE  JobsIInv'
<1>1. request[j] = "created" /\ UNCHANGED <<job, worker, file>>
  BY DEF Enqueue
<1>2. PICK r \in {"accepted", "failed"} : request' = [request EXCEPT ![j] = r]
  BY DEF Enqueue, RequestFails
<1>3. JobsTypeOK
  BY DEF JobsIInv
<1>4. /\ \A i \in Jobs \ {j} : request'[i] = request[i]
      /\ request'[j] = r
      /\ request' \in [Jobs -> {"none", "created", "accepted", "failed"}]
  BY <1>2, <1>3 DEF JobsTypeOK
<1>5. job[j] = "pending"
  BY <1>1 DEF JobsIInv, Owned
<1>6. /\ \A i \in DOMAIN queue : queue[i] \in Jobs /\ queue[i] # j
      /\ \A w \in Workers : worker[w].job \in Jobs \cup {NoJob} /\ worker[w].job # j
  <2>1. \A i \in DOMAIN queue : queue[i] \in Jobs
    BY <1>3 DEF JobsTypeOK
  <2>2. \A w \in Workers : worker[w].job \in Jobs \cup {NoJob}
    BY <1>3 DEF JobsTypeOK, WorkerStates
  <2> QED BY <1>1, <2>1, <2>2, JobsAssumption DEF JobsIInv, Owned
<1>7. queue' \in Seq(Jobs) /\ Owned(request', job, queue', worker)
  <2>1. CASE queue' = queue
    BY <1>3, <1>4, <1>6, <2>1 DEF JobsTypeOK, JobsIInv, Owned
  <2>2. CASE queue' = Append(queue, j)
    <3>1. PICK n : n = Len(queue) + 1
      OBVIOUS
    <3>2. /\ queue' \in Seq(Jobs) /\ DOMAIN queue' = DOMAIN queue \cup {n}
          /\ \A i \in DOMAIN queue : queue'[i] = queue[i]
          /\ queue'[n] = j
      <4>1. queue \in Seq(Jobs)
        BY <1>3 DEF JobsTypeOK
      <4> QED BY <2>2, <3>1, <4>1, AppendAt
    <3>3. Owned(request, job, queue, worker)
      BY DEF JobsIInv
    <3>4. \A i, k \in DOMAIN queue' : queue'[i] = queue'[k] => i = k
      <4>1. \A i, k \in DOMAIN queue : queue[i] = queue[k] => i = k
        BY <3>3 DEF Owned
      <4> QED BY <1>6, <3>2, <4>1
    <3>5. \A i \in DOMAIN queue' :
            /\ \A w \in Workers : worker[w].job # queue'[i]
            /\ job[queue'[i]] = "pending" /\ request'[queue'[i]] \in {"accepted", "failed"}
      BY <1>4, <1>5, <1>6, <3>2, <3>3 DEF Owned
    <3>6. /\ \A x, y \in Workers : worker[x].job = worker[y].job /\ worker[x].job # NoJob
                                     => x = y
          /\ \A w \in Workers :
               worker[w].job # NoJob => /\ job[worker[w].job] \notin Ended
                                        /\ request'[worker[w].job] \in {"accepted", "failed"}
          /\ \A i \in Jobs : request'[i] = "created" => job[i] = "pending"
      BY <1>4, <1>5, <1>6, <3>3 DEF Owned
    <3> QED BY <3>2, <3>4, <3>5, <3>6 DEF Owned
  <2> QED BY <2>1, <2>2 DEF Enqueue, RequestFails
<1> QED BY <1>1, <1>3, <1>4, <1>7 DEF JobsIInv, JobsTypeOK, SucceededIsStored

\* Dequeue: the first job of the queue goes to the worker, or is lost.
LEMMA DequeueInv ==
  ASSUME JobsIInv, NEW w \in Workers, Dequeue(w)
  PROVE  JobsIInv'
<1>1. /\ worker[w].pc = "idle" /\ queue # <<>> /\ queue' = Tail(queue)
      /\ UNCHANGED <<request, job, file>>
  BY DEF Dequeue, WorkerAt
<1>2. JobsTypeOK /\ Owned(request, job, queue, worker)
  BY DEF JobsIInv
<1>3. PICK j \in Jobs : j = Head(queue) /\ j = queue[1] /\ 1 \in DOMAIN queue
  BY <1>1, <1>2, TailAt DEF JobsTypeOK
<1>4. /\ queue' \in Seq(Jobs) /\ DOMAIN queue' \subseteq Nat
      /\ \A i \in DOMAIN queue' : /\ i + 1 \in DOMAIN queue /\ i + 1 # 1
                                  /\ queue'[i] = queue[i + 1]
  BY <1>1, <1>2, TailAt DEF JobsTypeOK
<1>5. /\ \A i, k \in DOMAIN queue' : queue'[i] = queue'[k] => i = k
      /\ \A i \in DOMAIN queue' :
           /\ queue'[i] # j
           /\ \A v \in Workers : worker[v].job # queue'[i]
           /\ job[queue'[i]] = "pending" /\ request[queue'[i]] \in {"accepted", "failed"}
  <2>1. ASSUME NEW i \in DOMAIN queue', NEW k \in DOMAIN queue', queue'[i] = queue'[k]
        PROVE  i = k
    <3>1. i + 1 = k + 1
      <4>1. \A l, m \in DOMAIN queue : queue[l] = queue[m] => l = m
        BY <1>2 DEF Owned
      <4> QED BY <1>4, <2>1, <4>1
    <3>2. i \in Nat /\ k \in Nat
      BY <1>4
    <3> QED BY <3>1, <3>2
  <2>2. \A i \in DOMAIN queue' : queue'[i] # j
    BY <1>2, <1>3, <1>4 DEF Owned
  <2>3. \A i \in DOMAIN queue :
          /\ \A v \in Workers : worker[v].job # queue[i]
          /\ job[queue[i]] = "pending" /\ request[queue[i]] \in {"accepted", "failed"}
    BY <1>2 DEF Owned
  <2> QED BY <1>4, <2>1, <2>2, <2>3
<1>6. /\ job[j] = "pending" /\ request[j] \in {"accepted", "failed"}
      /\ \A v \in Workers : worker[v].job # j
  BY <1>2, <1>3 DEF Owned
<1>7. CASE UNCHANGED worker
  <2>1. Owned(request, job, queue', worker)
    BY <1>2, <1>5 DEF Owned
  <2> QED BY <1>1, <1>4, <1>7, <2>1 DEF JobsIInv, JobsTypeOK, SucceededIsStored
<1>8. CASE WorkerTo(w, "get", j, "none")
  <2>1. PICK x : x = [pc |-> "get", job |-> j, status |-> "none"]
    OBVIOUS
  <2>2. x \in WorkerStates /\ x.job = j /\ ResultStored(x, file')
    BY <2>1 DEF WorkerStates, ResultStored
  <2>3. /\ worker' \in [Workers -> WorkerStates] /\ worker'[w].job = j
        /\ \A v \in Workers \ {w} : worker'[v] = worker[v]
        /\ \A v \in Workers : ResultStored(worker'[v], file')
    BY <1>1, <1>8, <2>1, <2>2, WorkersStored DEF WorkerTo
  <2>4. Owned(request, job, queue', worker')
    <3>1. ASSUME NEW a \in Workers, NEW b \in Workers,
                 worker'[a].job = worker'[b].job, worker'[a].job # NoJob
          PROVE  a = b
      <4>1. worker[a].job = worker[b].job /\ worker[a].job # NoJob => a = b
        BY <1>2 DEF Owned
      <4>2. CASE a = w
        BY <1>6, <2>3, <3>1, <4>2
      <4>3. CASE b = w
        BY <1>6, <2>3, <3>1, <4>3
      <4>4. CASE a # w /\ b # w
        BY <2>3, <3>1, <4>1, <4>4
      <4> QED BY <4>2, <4>3, <4>4
    <3>3. \A i \in DOMAIN queue', v \in Workers : worker'[v].job # queue'[i]
      BY <1>5, <2>3
    <3>2. \A v \in Workers :
            worker'[v].job # NoJob => /\ job[worker'[v].job] \notin Ended
                                      /\ request[worker'[v].job] \in {"accepted", "failed"}
      BY <1>2, <1>6, <2>3 DEF Owned, Ended
    <3> QED BY <1>2, <1>5, <3>1, <3>2, <3>3 DEF Owned
  <2> QED BY <1>1, <1>4, <2>3, <2>4 DEF JobsIInv, JobsTypeOK, SucceededIsStored
<1> QED BY <1>3, <1>7, <1>8 DEF Dequeue

\* A worker that goes on with its job, or gives it up, and writes no status.
LEMMA WorkerGoesOn ==
  ASSUME JobsIInv, NEW w \in Workers, NEW x \in WorkerStates,
         worker' = [worker EXCEPT ![w] = x],
         x.job = worker[w].job \/ x.job = NoJob,
         ResultStored(x, file'), file' \in [Artifacts -> {"none", "partial", "full"}],
         \A a \in Artifacts : file[a] = "full" => file'[a] = "full",
         UNCHANGED <<request, job, queue>>
  PROVE  JobsIInv'
<1>1. /\ worker' \in [Workers -> WorkerStates] /\ worker'[w] = x
      /\ \A v \in Workers \ {w} : worker'[v] = worker[v]
      /\ \A v \in Workers : ResultStored(worker'[v], file')
  BY WorkersStored
<1>2. \A v \in Workers : worker'[v].job = worker[v].job \/ worker'[v].job = NoJob
  BY <1>1
<1>3. \A i \in DOMAIN queue : queue[i] # NoJob
  BY JobsAssumption DEF JobsIInv, JobsTypeOK
<1>4. Owned(request, job, queue, worker')
  BY <1>2, <1>3 DEF JobsIInv, Owned
<1>5. SucceededIsStored'
  BY JobsAssumption DEF JobsIInv, SucceededIsStored
<1> QED BY <1>1, <1>4, <1>5 DEF JobsIInv, JobsTypeOK

\* A worker that writes the status it holds, and goes on unless it is final.
LEMMA UpdateInv ==
  ASSUME JobsIInv, NEW w \in Workers, NEW pc \in {"put", "idle"}, Update(w, pc),
         worker[w].pc \in {"start", "finish"},
         pc = "put" => worker[w].status = "running"
  PROVE  JobsIInv'
<1>1. PICK j, s : j = worker[w].job /\ s = worker[w].status
  OBVIOUS
<1>2. worker[w] \in WorkerStates /\ ResultStored(worker[w], file)
  BY DEF JobsIInv, JobsTypeOK
<1>3. /\ j \in Jobs /\ s \in {"none", "running"} \cup Ended
      /\ s = "succeeded" => file[ArtifactOf[j]] = "full"
  BY <1>1, <1>2 DEF WorkerStates, ResultStored
<1>4. UNCHANGED <<request, queue, file>>
  BY DEF Update
<1>5. PICK y : y = [pc |-> pc, job |-> j, status |-> s]
  OBVIOUS
<1>6. \E x \in {y, WorkerIdle} :
        /\ worker' = [worker EXCEPT ![w] = x]
        /\ pc = "idle" => x = WorkerIdle
  BY <1>1, <1>5 DEF Update, WorkerTo, WorkerEnds
<1>7. PICK x \in {y, WorkerIdle} : /\ worker' = [worker EXCEPT ![w] = x]
                                   /\ pc = "idle" => x = WorkerIdle
  BY <1>6
<1>8. /\ x \in WorkerStates /\ ResultStored(x, file)
      /\ x.job = NoJob \/ (x.job = j /\ s = "running")
  <2>1. CASE x = WorkerIdle
    BY <2>1, JobsAssumption DEF WorkerIdle, WorkerStates, ResultStored
  <2>2. CASE x = y /\ pc = "put"
    BY <1>1, <1>3, <1>5, <2>2 DEF WorkerStates, ResultStored
  <2> QED BY <1>7, <2>1, <2>2
<1>9. /\ worker' \in [Workers -> WorkerStates] /\ worker'[w] = x
      /\ \A v \in Workers \ {w} : worker'[v] = worker[v]
      /\ \A v \in Workers : ResultStored(worker'[v], file')
  BY <1>4, <1>7, <1>8, WorkersStored
<1>10. CASE job' = job
  BY <1>1, <1>4, <1>7, <1>8, <1>10, WorkerGoesOn DEF JobsIInv, JobsTypeOK
<1>11. CASE job' = [job EXCEPT ![j] = s]
  <2>1. job \in [Jobs -> {"none", "pending", "running"} \cup Ended]
    BY DEF JobsIInv, JobsTypeOK
  <2>2. /\ job' \in [Jobs -> {"none", "pending", "running"} \cup Ended]
        /\ job'[j] = s
        /\ \A i \in Jobs \ {j} : job'[i] = job[i]
    BY <1>3, <1>11, <2>1
  <2>3. /\ Owned(request, job, queue, worker)
        /\ j # NoJob
        /\ request[j] \in {"accepted", "failed"}
        /\ \A i \in DOMAIN queue : queue[i] \in Jobs \ {j}
        /\ \A v \in Workers \ {w} : worker[v].job \in (Jobs \ {j}) \cup {NoJob}
    <3>1. Owned(request, job, queue, worker) /\ j # NoJob
      BY <1>3, JobsAssumption DEF JobsIInv
    <3>2. \A i \in DOMAIN queue : queue[i] \in Jobs
      BY DEF JobsIInv, JobsTypeOK
    <3>3. \A v \in Workers : worker[v].job \in Jobs \cup {NoJob}
      BY DEF JobsIInv, JobsTypeOK, WorkerStates
    <3> QED BY <1>1, <3>1, <3>2, <3>3 DEF Owned
  <2>4. \A v \in Workers \ {w} : worker'[v].job = worker[v].job
    BY <1>9
  <2>5. /\ \A i \in DOMAIN queue, v \in Workers : worker'[v].job # queue[i]
        /\ \A a, b \in Workers :
             worker'[a].job = worker'[b].job /\ worker'[a].job # NoJob => a = b
    <3>1. worker'[w].job \in {NoJob, j}
      BY <1>8, <1>9
    <3>2. /\ \A i \in DOMAIN queue, v \in Workers : worker[v].job # queue[i]
          /\ \A a, b \in Workers :
               worker[a].job = worker[b].job /\ worker[a].job # NoJob => a = b
      BY <2>3 DEF Owned
    <3>3. NoJob \notin Jobs
      BY JobsAssumption
    <3>4. ASSUME NEW i \in DOMAIN queue, NEW v \in Workers
          PROVE  worker'[v].job # queue[i]
      BY <2>3, <2>4, <3>1, <3>2, <3>3
    <3>5. ASSUME NEW a \in Workers, NEW b \in Workers,
                 worker'[a].job = worker'[b].job, worker'[a].job # NoJob
          PROVE  a = b
      BY <2>3, <2>4, <3>1, <3>2, <3>5
    <3> QED BY <3>4, <3>5
  <2>6. \A v \in Workers :
          worker'[v].job # NoJob => /\ job'[worker'[v].job] \notin Ended
                                    /\ request[worker'[v].job] \in {"accepted", "failed"}
    <3>1. worker'[w].job = NoJob \/ (worker'[w].job = j /\ s = "running")
      BY <1>8, <1>9
    <3>2. \A v \in Workers :
            worker[v].job # NoJob => /\ job[worker[v].job] \notin Ended
                                     /\ request[worker[v].job] \in {"accepted", "failed"}
      BY <2>3 DEF Owned
    <3>3. ASSUME worker'[w].job # NoJob
          PROVE  /\ job'[worker'[w].job] \notin Ended
                 /\ request[worker'[w].job] \in {"accepted", "failed"}
      <4>1. worker'[w].job = j /\ job'[j] = "running"
        BY <2>2, <3>1, <3>3
      <4> QED BY <2>3, <4>1 DEF Ended
    <3>4. ASSUME NEW v \in Workers \ {w}, worker'[v].job # NoJob
          PROVE  /\ job'[worker'[v].job] \notin Ended
                 /\ request[worker'[v].job] \in {"accepted", "failed"}
      <4>1. worker'[v].job = worker[v].job /\ worker[v].job \in Jobs \ {j}
        BY <2>3, <2>4, <3>4
      <4>2. job'[worker[v].job] = job[worker[v].job]
        BY <2>2, <4>1
      <4> QED BY <3>2, <3>4, <4>1, <4>2
    <3> QED BY <3>3, <3>4
  <2>7. Owned(request, job', queue, worker')
    <3>1. \A i \in DOMAIN queue :
            job'[queue[i]] = "pending" /\ request[queue[i]] \in {"accepted", "failed"}
      BY <2>2, <2>3 DEF Owned
    <3>2. \A i \in Jobs : request[i] = "created" => job'[i] = "pending"
      BY <2>2, <2>3 DEF Owned
    <3>3. \A i, k \in DOMAIN queue : queue[i] = queue[k] => i = k
      BY <2>3 DEF Owned
    <3> QED BY <2>5, <2>6, <3>1, <3>2, <3>3 DEF Owned
  <2>8. SucceededIsStored'
    BY <1>3, <1>4, <2>2 DEF JobsIInv, SucceededIsStored
  <2> QED BY <1>4, <1>9, <2>2, <2>7, <2>8 DEF JobsIInv, JobsTypeOK
<1> QED BY <1>1, <1>10, <1>11 DEF Update

\* Put and WriteArtifact: no complete artifact is replaced, and success is only
\* reported for one.
LEMMA ArtifactInv ==
  ASSUME JobsIInv, NEW w \in Workers, Put(w) \/ WriteArtifact(w)
  PROVE  JobsIInv'
<1>1. PICK j, a : j = worker[w].job /\ a = ArtifactOf[j]
  OBVIOUS
<1>2. worker[w].pc \in {"put", "write"} /\ UNCHANGED <<request, job, queue>>
  BY DEF Put, WriteArtifact, WorkerAt
<1>3. ResultStored(worker[w], file) /\ file \in [Artifacts -> {"none", "partial", "full"}]
  BY DEF JobsIInv, JobsTypeOK
<1>4. j \in Jobs /\ a \in Artifacts
  BY <1>1, <1>2, <1>3, JobsAssumption DEF ResultStored
<1>5. PICK pc \in {"write", "finish"}, s \in {"running"} \cup Ended :
        /\ WorkerTo(w, pc, j, s)
        /\ s = "succeeded" => file'[a] = "full"
        /\ \/ UNCHANGED file
           \/ file[a] = "none" /\ file' = [file EXCEPT ![a] = "partial"]
           \/ file' = [file EXCEPT ![a] = "full"]
  <2>1. CASE WorkerTo(w, "finish", j, "failed") /\ UNCHANGED file
    BY <2>1 DEF Ended
  <2>2. CASE /\ file[a] = "none" /\ file' = [file EXCEPT ![a] = "partial"]
             /\ WorkerTo(w, "write", j, "running")
    BY <2>2
  <2>3. CASE /\ WorkerTo(w, "finish", j, IF file[a] = "full" THEN "succeeded" ELSE "failed")
             /\ UNCHANGED file
    BY <2>3 DEF Ended
  <2>4. CASE /\ file' = [file EXCEPT ![a] = "full"]
             /\ WorkerTo(w, "finish", j, "succeeded")
    BY <1>3, <1>4, <2>4 DEF Ended
  <2> QED BY <1>1, <2>1, <2>2, <2>3, <2>4 DEF Put, WriteArtifact
<1>6. PICK x : x = [pc |-> pc, job |-> j, status |-> s]
  OBVIOUS
<1>7. x \in WorkerStates /\ x.job = j /\ ResultStored(x, file')
  BY <1>1, <1>4, <1>5, <1>6 DEF WorkerStates, ResultStored
<1>8. /\ file' \in [Artifacts -> {"none", "partial", "full"}]
      /\ \A b \in Artifacts : file[b] = "full" => file'[b] = "full"
  BY <1>3, <1>4, <1>5
<1>9. worker' = [worker EXCEPT ![w] = x]
  BY <1>5, <1>6 DEF WorkerTo
<1> QED BY <1>1, <1>2, <1>7, <1>8, <1>9, WorkerGoesOn

\* Every step preserves the invariant.
LEMMA JobsInvStep == JobsIInv /\ [JobsNext]_jobsVars => JobsIInv'
<1> SUFFICES ASSUME JobsIInv, [JobsNext]_jobsVars PROVE JobsIInv'
  OBVIOUS
<1>a. /\ file \in [Artifacts -> {"none", "partial", "full"}]
      /\ \A w \in Workers : ResultStored(worker[w], file)
  BY DEF JobsIInv, JobsTypeOK
<1>1. ASSUME NEW j \in Jobs, CreateJob(j) \/ Enqueue(j) PROVE JobsIInv'
  BY <1>1, CreateInv, EnqueueInv
<1>2. ASSUME NEW w \in Workers, GetJob(w) PROVE JobsIInv'
  <2>1. PICK x : x = [pc |-> "start", job |-> worker[w].job, status |-> "running"]
    OBVIOUS
  <2>2. worker[w].job \in Jobs /\ UNCHANGED <<request, job, queue, file>>
    BY <1>a, <1>2 DEF GetJob, WorkerAt, ResultStored
  <2>3. x \in WorkerStates /\ x.job = worker[w].job /\ ResultStored(x, file')
    BY <2>1, <2>2 DEF WorkerStates, ResultStored
  <2>4. worker' = [worker EXCEPT ![w] = x]
    BY <1>2, <2>1 DEF GetJob, WorkerTo
  <2> QED BY <1>a, <2>2, <2>3, <2>4, WorkerGoesOn
<1>3. ASSUME NEW w \in Workers, StartJob(w) PROVE JobsIInv'
  <2>1. worker[w].pc = "start" /\ worker[w].status = "running"
    BY <1>a, <1>3 DEF StartJob, WorkerAt, ResultStored
  <2> QED BY <1>3, <2>1, UpdateInv DEF StartJob
<1>4. ASSUME NEW w \in Workers, FinishJob(w) PROVE JobsIInv'
  BY <1>4, UpdateInv DEF FinishJob, WorkerAt
<1>5. ASSUME NEW w \in Workers, WorkerDies(w) PROVE JobsIInv'
  <2>1. WorkerIdle \in WorkerStates /\ WorkerIdle.job = NoJob /\ ResultStored(WorkerIdle, file')
    BY JobsAssumption DEF WorkerIdle, WorkerStates, ResultStored
  <2>2. /\ worker' = [worker EXCEPT ![w] = WorkerIdle]
        /\ UNCHANGED <<request, job, queue, file>>
    BY <1>5 DEF WorkerDies, WorkerEnds
  <2> QED BY <1>a, <2>1, <2>2, WorkerGoesOn
<1>6. ASSUME NEW w \in Workers, Dequeue(w) \/ Put(w) \/ WriteArtifact(w) PROVE JobsIInv'
  BY <1>6, DequeueInv, ArtifactInv
<1>7. CASE UNCHANGED jobsVars
  BY <1>7 DEF jobsVars, JobsIInv, JobsTypeOK, SucceededIsStored
<1> QED BY <1>1, <1>2, <1>3, <1>4, <1>5, <1>6, <1>7 DEF JobsNext, WorkerStep

\* The invariant holds throughout.
LEMMA JobsInvariance == JobsSpec => []JobsIInv
BY JobsInvInit, JobsInvStep, PTL DEF JobsSpec

-----------------------------------------------------------------------------
(* The theorems.                                                           *)

\* No two workers run a job, and none runs one that is still on the queue or
\* has ended (Dequeue hands a job over with one LPOP), whatever commands fail
\* and whichever workers die.
THEOREM OneWorkerPerJob == JobsSpec => []JobHasOneOwner
<1>1. JobsIInv => JobHasOneOwner
  <2> SUFFICES ASSUME JobsIInv, NEW j \in Jobs
               PROVE  LET places == {i \in DOMAIN queue : queue[i] = j}
                          owners == {w \in Workers : worker[w].job = j}
                      IN  /\ \A p, q \in places : p = q
                          /\ \A v, w \in owners : v = w
                          /\ places # {} => owners = {} /\ job[j] = "pending"
                          /\ job[j] \in {"succeeded", "failed"} =>
                               places = {} /\ owners = {}
    BY DEF JobHasOneOwner
  <2> DEFINE places == {i \in DOMAIN queue : queue[i] = j}
             owners == {w \in Workers : worker[w].job = j}
  <2>1. j # NoJob /\ Owned(request, job, queue, worker)
    BY JobsAssumption DEF JobsIInv
  <2>2. (\A p, q \in places : p = q) /\ (\A v, w \in owners : v = w)
    BY <2>1 DEF Owned
  <2>3. places # {} => owners = {} /\ job[j] = "pending"
    BY <2>1 DEF Owned
  <2>4. job[j] \in Ended => owners = {}
    BY <2>1 DEF Owned
  <2> QED BY <2>2, <2>3, <2>4 DEF Ended
<1> QED BY <1>1, JobsInvariance, PTL

\* A job that is reported as succeeded has its artifact complete in the store
\* (Put compares what it finds), with any number of workers at one path.
THEOREM SuccessIsBacked == JobsSpec => []SucceededIsStored
BY JobsInvariance, PTL DEF JobsIInv
=============================================================================
