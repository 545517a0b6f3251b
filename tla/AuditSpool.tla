----------------------------- MODULE AuditSpool -----------------------------
(***************************************************************************)
(* The local audit spool: how AppendAudit (internal/kliq/actionstate/      *)
(* sqlite.go) inserts a record and links it to the latest one, so that the *)
(* records form a hash chain.  Uploading is in AuditUpload.                *)
(*                                                                         *)
(* AppendAudit is three SQL statements without a transaction (does the id  *)
(* exist, which record is the latest, insert), and the processes that      *)
(* share the state file interleave between them.  An operation of the      *)
(* manager takes the time once, at its start, and gives every record it    *)
(* appends that created_at; the record's id is a hash over it, so a record *)
(* is determined by its id and its created_at by the id.                   *)
(*                                                                         *)
(* A record hash is modelled by the record it identifies (the hash has no  *)
(* collisions).  The operators named Faulty... are not part of the model:  *)
(* each is the definition that follows it with a plausible mistake, and a  *)
(* property below is violated when it takes that definition's place.       *)
(***************************************************************************)
EXTENDS Naturals

CONSTANTS
  Writers,      \* processes that share the state file
  Records,      \* audit records, by id
  CreatedAt,    \* the created_at of a record, in half seconds
  IdRank,       \* the text order of the record ids
  MaxTime,      \* bound on the clock
  Root,         \* the empty previous_hash
  None          \* no record

ASSUME ConstantsAssumption ==
  /\ CreatedAt \in [Records -> 0 .. MaxTime]
  /\ IdRank \in [Records -> Nat]
  /\ \A r, s \in Records : IdRank[r] = IdRank[s] => r = s
  /\ MaxTime \in Nat
  /\ Root \notin Records
  /\ None \notin Records \cup {Root}

VARIABLES
  now,          \* the clock, in half seconds
  spool,        \* table audit_spool: the previous_hash of each stored record
  writer        \* the local state of each process

vars == <<now, spool, writer>>

\* A process is between operations, in one that began at time t, about to look
\* for the latest record, or about to insert `rec' after `prev'.
WriterStates ==
  [pc: {"idle", "open"}, t: 0 .. MaxTime, rec: {None}, prev: {None}]
    \cup [pc: {"link"}, t: 0 .. MaxTime, rec: Records, prev: {None}]
    \cup [pc: {"insert"}, t: 0 .. MaxTime, rec: Records,
          prev: Records \cup {Root}]

Idle == [pc |-> "idle", t |-> 0, rec |-> None, prev |-> None]

Stored == {r \in Records : spool[r] # None}

Init ==
  /\ now = 0
  /\ spool = [r \in Records |-> None]
  /\ writer = [w \in Writers |-> Idle]

-----------------------------------------------------------------------------

(***************************************************************************)
(* formatTime writes RFC 3339 with the fraction's trailing zeros removed,  *)
(* and SQLite compares the text: "10.5Z" sorts before "10Z".  Of the two   *)
(* half seconds of a second the first sorts last.                          *)
(***************************************************************************)
TextRank(t) == IF t % 2 = 0 THEN t + 1 ELSE t - 1

\* ORDER BY created_at, id
Precedes(r, s) ==
  LET p == TextRank(CreatedAt[r])
      q == TextRank(CreatedAt[s])
  IN  p < q \/ (p = q /\ IdRank[r] < IdRank[s])

\* latestAuditRecordHash
IsLatest(h) ==
  IF Stored = {}
  THEN h = Root
  ELSE h \in Stored /\ \A r \in Stored : r # h => Precedes(r, h)

\* The process begins an operation: now := m.now().
Begin(w) ==
  /\ writer[w].pc = "idle"
  /\ writer' = [writer EXCEPT ![w] = [Idle EXCEPT !.pc = "open", !.t = now]]
  /\ UNCHANGED <<now, spool>>

End(w) ==
  /\ writer[w].pc = "open"
  /\ writer' = [writer EXCEPT ![w] = Idle]
  /\ UNCHANGED <<now, spool>>

\* AppendAudit: a record that is there already is not stored again.
AppendAudit(w, r) ==
  /\ writer[w].pc = "open"
  /\ CreatedAt[r] = writer[w].t
  /\ r \notin Stored
  /\ writer' = [writer EXCEPT ![w] = [@ EXCEPT !.pc = "link", !.rec = r]]
  /\ UNCHANGED <<now, spool>>

Link(w) ==
  /\ writer[w].pc = "link"
  /\ \E h \in Records \cup {Root} :
       /\ IsLatest(h)
       /\ writer' = [writer EXCEPT ![w] = [@ EXCEPT !.pc = "insert", !.prev = h]]
  /\ UNCHANGED <<now, spool>>

Continue(w) ==
  writer' = [writer EXCEPT ![w] =
               [@ EXCEPT !.pc = "open", !.rec = None, !.prev = None]]

FaultyInsert(w) ==
  /\ writer[w].pc = "insert"
  /\ spool' = [spool EXCEPT ![writer[w].rec] = writer[w].prev]
  /\ Continue(w)
  /\ UNCHANGED now

\* The primary key refuses a record that another process stored meanwhile.
Insert(w) ==
  /\ writer[w].pc = "insert"
  /\ writer[w].rec \notin Stored
  /\ spool' = [spool EXCEPT ![writer[w].rec] = writer[w].prev]
  /\ Continue(w)
  /\ UNCHANGED now

\* A statement of AppendAudit fails; whether the operation goes on without the
\* record (recordFailedExecute) or ends is up to it.
AppendFails(w) ==
  /\ writer[w].pc \in {"link", "insert"}
  /\ Continue(w)
  /\ UNCHANGED <<now, spool>>

Crash(w) ==
  /\ writer[w].pc # "idle"
  /\ writer' = [writer EXCEPT ![w] = Idle]
  /\ UNCHANGED <<now, spool>>

Tick ==
  /\ now < MaxTime
  /\ now' = now + 1
  /\ UNCHANGED <<spool, writer>>

Next ==
  \/ \E w \in Writers :
       \/ Begin(w) \/ End(w) \/ Link(w) \/ Insert(w) \/ AppendFails(w) \/ Crash(w)
       \/ \E r \in Records : AppendAudit(w, r)
  \/ Tick

Spec == Init /\ [][Next]_vars

-----------------------------------------------------------------------------
(* Properties.                                                             *)

\* Every variable keeps its type.
TypeOK ==
  /\ now \in 0 .. MaxTime
  /\ spool \in [Records -> Records \cup {Root, None}]
  /\ writer \in [Writers -> WriterStates]

\* From every record the links of the chain lead back to a first record: no
\* link dangles and there is no cycle, although a process reads the latest
\* record and inserts its own in separate statements.  (No set of stored
\* records is closed under taking the previous one.)
ChainIsWellFounded ==
  /\ \A r \in Stored : spool[r] \in Stored \cup {Root}
  /\ \A S \in SUBSET Stored : S # {} => \E r \in S : spool[r] \notin S

\* A stored record keeps its link: no later append, by any process and also of
\* the same record, rewrites the history.
AppendOnly ==
  [][\A r \in Stored : spool'[r] = spool[r]]_vars

\* The records are linked into one chain: no two records follow the same one.
LinkedChain ==
  \A r, s \in Stored : spool[r] = spool[s] => r = s

=============================================================================
