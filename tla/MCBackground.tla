---------------------------- MODULE MCBackground ----------------------------
(***************************************************************************)
(* Instances of AuditSpool, AuditUpload, DaemonLoop and ForgeJobs for TLC. *)
(* They share no state: a behaviour is one of any of them (part), and the  *)
(* others stay in an initial state.                                        *)
(*                                                                         *)
(* AuditSpool: the records of MCAuditSpool, appended by two processes.     *)
(* AuditUpload: two records, of which Forge refuses the first.             *)
(* DaemonLoop: the relaxed profiles of MCDaemonLoop.  ForgeJobs: three     *)
(* jobs, two of them with the same artifact, and two workers.              *)
(***************************************************************************)
EXTENDS MCAuditSpool, AuditUpload, MCDaemonLoop, ForgeJobs

CONSTANTS j1, j2, j3

VARIABLE part

MCArtifactOf == [j \in Jobs |-> IF j = j3 THEN "b" ELSE "a"]

all == <<vars, uploadVars, loopVars, jobsVars, part>>

MCInit ==
  /\ part \in {"spool", "upload", "loop", "jobs"}
  /\ Init /\ UploadInit /\ LoopInit /\ JobsInit

\* A step of a part.
Of(p) ==
  /\ part = p
  /\ UNCHANGED part
  /\ p # "spool" => UNCHANGED vars
  /\ p # "upload" => UNCHANGED uploadVars
  /\ p # "loop" => UNCHANGED loopVars
  /\ p # "jobs" => UNCHANGED jobsVars

MCNext ==
  \/ Of("spool") /\ Next
  \/ Of("upload") /\ UploadNext
  \/ Of("loop") /\ LoopNext
  \/ Of("jobs") /\ JobsNext

-----------------------------------------------------------------------------
(* UploadFairness, LoopFairness and JobsFairness.  No behaviour has steps  *)
(* of two parts, so that an action of one part and an action of another    *)
(* may be listed together.                                                 *)

Weak(i) ==
  \/ Of("upload") /\ IF i = 1 THEN UploadTick ELSE i = 2 /\ FlushStep
  \/ Of("loop") /\ CASE i = 1 -> Pass
                     [] i = 2 -> Return
                     [] i = 3 -> PollReturns \/ PollFails
                     [] i = 4 -> Fire("poll")
                     [] i = 5 -> Fire("decision")
                     [] i = 6 -> Fire("reconcile")
                     [] i = 7 -> Fire("audit")
  \/ Of("jobs") /\ \E w \in Workers : w = i /\ WorkerStep(w)

Strong(i) ==
  \/ Of("upload") /\ IF i = 0 THEN BeginFlush
                     ELSE IF i <= Count THEN PostAcked(i) ELSE MarkAuditUploaded(i - Count)
  \/ Of("loop") /\ CASE i = 1 -> Serve("poll")
                     [] i = 2 -> Serve("decision")
                     [] i = 3 -> Serve("reconcile")
                     [] i = 4 -> Serve("audit")
                     [] OTHER -> FALSE

MCSpec ==
  /\ MCInit /\ [][MCNext]_all
  /\ \A i \in 1 .. 7 : WF_all(Weak(i))
  /\ \A i \in 0 .. 2 * Count : SF_all(Strong(i))

\* FrequentTasksRun of DaemonLoop, in the behaviours of the loop: polling, and
\* every task with a shorter interval, runs again and again, although each poll
\* discards the ticks that wait.
LoopTasksRun == part = "loop" => FrequentTasksRun
=============================================================================
