----------------------------- MODULE ForgeJobs -----------------------------
(***************************************************************************)
(* Simulation jobs: the API server puts them in the store and on the queue *)
(* (createSimulationJob of internal/forge/api/server.go), workers take     *)
(* them off, compile and write the outcome back (internal/forge/jobs,      *)
(* cmd/forge-worker) and keep what they compiled in the artifact store     *)
(* (internal/storage/artifactstore).                                       *)
(*                                                                         *)
(* A Redis command has a connection of its own and a timeout: it may fail  *)
(* before or after it took effect, so every step on the store comes in     *)
(* three forms.  A compilation is a step that fails or the writing of one  *)
(* artifact.  The path of an artifact holds the hash of its content, so    *)
(* jobs with the same content write the same path if they share the output *)
(* directory.  `lost' is history.                                          *)
(***************************************************************************)
EXTENDS Naturals

LOCAL INSTANCE Sequences

CONSTANTS
  Jobs,         \* job ids, one for each request
  Workers,      \* runs of forge-worker
  Artifacts,    \* paths in the artifact store
  ArtifactOf,   \* the artifact that a job compiles
  MaxFaults,    \* bound on failing commands and dying workers
  NoJob         \* a worker without a job

ASSUME JobsAssumption ==
  /\ ArtifactOf \in [Jobs -> Artifacts]
  /\ MaxFaults \in Nat
  /\ NoJob \notin Jobs

VARIABLES
  request,      \* the progress of the request for a job
  job,          \* the key kernloom:job:<id>: a status
  queue,        \* the list kernloom:jobs
  worker,       \* the progress of a worker
  file,         \* the content of an artifact path
  faults,       \* the faults so far
  lost          \* jobs hit by a fault of a worker

jobsVars == <<request, job, queue, worker, file, faults, lost>>

WorkerIdle == [pc |-> "idle", job |-> NoJob, status |-> "none"]

JobsInit ==
  /\ request = [j \in Jobs |-> "none"]
  /\ job = [j \in Jobs |-> "none"]
  /\ queue = <<>>
  /\ worker = [w \in Workers |-> WorkerIdle]
  /\ file = [a \in Artifacts |-> "none"]
  /\ faults = 0
  /\ lost = {}

\* A fault is spent.
Fault == faults < MaxFaults /\ faults' = faults + 1

-----------------------------------------------------------------------------
(* createSimulationJob.                                                    *)

\* The request answers with an error; the effect of the command is e.
RequestFails(j, e) == Fault /\ request' = [request EXCEPT ![j] = "failed"] /\ e

\* Create: the job is stored as pending.
CreateJob(j) ==
  /\ request[j] = "none"
  /\ LET set == job' = [job EXCEPT ![j] = "pending"]
     IN  \/ set /\ request' = [request EXCEPT ![j] = "created"] /\ UNCHANGED faults
         \/ RequestFails(j, set)
         \/ RequestFails(j, UNCHANGED job)
  /\ UNCHANGED <<queue, worker, file, lost>>

FaultyEnqueue(j) ==
  /\ request[j] = "created"
  /\ LET push == queue' = Append(queue, j)
     IN  \/ push /\ request' = [request EXCEPT ![j] = "accepted"] /\ UNCHANGED faults
         \/ Fault /\ push /\ UNCHANGED request
         \/ RequestFails(j, UNCHANGED queue)
  /\ UNCHANGED <<job, worker, file, lost>>

FaultyEnqueueAnswer(j) ==
  /\ request[j] = "created"
  /\ request' = [request EXCEPT ![j] = "accepted"]
  /\ \/ queue' = Append(queue, j) /\ UNCHANGED faults
     \/ Fault /\ UNCHANGED queue
  /\ UNCHANGED <<job, worker, file, lost>>

\* Enqueue: the job is read and its id appended.  Nothing is tried again, a
\* job that is not on the queue stays pending.
Enqueue(j) ==
  /\ request[j] = "created"
  /\ LET push == queue' = Append(queue, j)
     IN  \/ push /\ request' = [request EXCEPT ![j] = "accepted"] /\ UNCHANGED faults
         \/ RequestFails(j, push)
         \/ RequestFails(j, UNCHANGED queue)
  /\ UNCHANGED <<job, worker, file, lost>>

-----------------------------------------------------------------------------
(* RunOnce.                                                                *)

WorkerAt(w, pc) == worker[w].pc = pc

\* The worker ends; whatever it held is out of its hands.
WorkerEnds(w) == worker' = [worker EXCEPT ![w] = WorkerIdle]

\* The worker goes on with job j.
WorkerTo(w, pc, j, s) ==
  worker' = [worker EXCEPT ![w] = [pc |-> pc, job |-> j, status |-> s]]

\* Dequeue: LPOP takes the id off the list, even if the answer gets lost.
Dequeue(w) ==
  /\ WorkerAt(w, "idle")
  /\ queue # <<>>
  /\ queue' = Tail(queue)
  /\ \/ WorkerTo(w, "get", Head(queue), "none") /\ UNCHANGED <<faults, lost>>
     \/ Fault /\ lost' = lost \cup {Head(queue)} /\ UNCHANGED worker
  /\ UNCHANGED <<request, job, file>>

\* Get and SetStatus(running).
GetJob(w) ==
  /\ WorkerAt(w, "get")
  /\ WorkerTo(w, "start", worker[w].job, "running")
  /\ UNCHANGED <<request, job, queue, file, faults, lost>>

\* Update writes the worker's copy of the job; the worker goes on to pc, or
\* ends when the command fails.
Update(w, pc) ==
  LET j == worker[w].job
      s == worker[w].status
      set == job' = [job EXCEPT ![j] = s]
  IN  /\ \/ /\ set
            /\ IF pc = "idle" THEN WorkerEnds(w) ELSE WorkerTo(w, pc, j, s)
            /\ UNCHANGED <<faults, lost>>
         \/ /\ Fault
            /\ set \/ UNCHANGED job
            /\ lost' = lost \cup {j}
            /\ WorkerEnds(w)
      /\ UNCHANGED <<request, queue, file>>

StartJob(w) == WorkerAt(w, "start") /\ Update(w, "put")

FinishJob(w) == WorkerAt(w, "finish") /\ Update(w, "idle")

FaultyPut(w) ==
  /\ WorkerAt(w, "put")
  /\ LET j == worker[w].job
         a == ArtifactOf[j]
     IN  \/ WorkerTo(w, "finish", j, "failed") /\ UNCHANGED file
         \/ /\ file[a] = "none"
            /\ file' = [file EXCEPT ![a] = "partial"]
            /\ WorkerTo(w, "write", j, "running")
         \/ /\ file[a] # "none"
            /\ WorkerTo(w, "finish", j, "succeeded")
            /\ UNCHANGED file
  /\ UNCHANGED <<request, job, queue, faults, lost>>

\* Compile, up to the artifact: an error ends it.  Put creates the file, or
\* compares the content that is there already.
Put(w) ==
  /\ WorkerAt(w, "put")
  /\ LET j == worker[w].job
         a == ArtifactOf[j]
     IN  \/ WorkerTo(w, "finish", j, "failed") /\ UNCHANGED file
         \/ /\ file[a] = "none"
            /\ file' = [file EXCEPT ![a] = "partial"]
            /\ WorkerTo(w, "write", j, "running")
         \/ /\ file[a] # "none"
            /\ WorkerTo(w, "finish", j,
                        IF file[a] = "full" THEN "succeeded" ELSE "failed")
            /\ UNCHANGED file
  /\ UNCHANGED <<request, job, queue, faults, lost>>

\* The content follows in a second call.  When that fails, what is written by
\* then stays, and is the end of every later job for the path.
WriteArtifact(w) ==
  /\ WorkerAt(w, "write")
  /\ LET j == worker[w].job
     IN  \/ /\ file' = [file EXCEPT ![ArtifactOf[j]] = "full"]
            /\ WorkerTo(w, "finish", j, "succeeded")
         \/ WorkerTo(w, "finish", j, "failed") /\ UNCHANGED file
  /\ UNCHANGED <<request, job, queue, faults, lost>>

\* The process is killed, or its Get fails.
WorkerDies(w) ==
  /\ ~WorkerAt(w, "idle")
  /\ Fault
  /\ lost' = lost \cup {worker[w].job}
  /\ WorkerEnds(w)
  /\ UNCHANGED <<request, job, queue, file>>

WorkerStep(w) ==
  Dequeue(w) \/ GetJob(w) \/ StartJob(w) \/ Put(w) \/ WriteArtifact(w) \/ FinishJob(w)

JobsNext ==
  \/ \E j \in Jobs : CreateJob(j) \/ Enqueue(j)
  \/ \E w \in Workers : WorkerStep(w) \/ WorkerDies(w)

JobsSpec == JobsInit /\ [][JobsNext]_jobsVars

\* forge-worker run-once is started again and again, and goes on unless killed.
JobsFairness == \A w \in Workers : WF_jobsVars(WorkerStep(w))

-----------------------------------------------------------------------------
(* Properties.                                                             *)

\* LPOP hands a job to one worker: a job is on the queue once or in the hands
\* of one worker, never both, and once it has ended in neither.
JobHasOneOwner ==
  \A j \in Jobs :
    LET places == {i \in DOMAIN queue : queue[i] = j}
        owners == {w \in Workers : worker[w].job = j}
    IN  /\ \A p, q \in places : p = q
        /\ \A v, w \in owners : v = w
        /\ places # {} => owners = {} /\ job[j] = "pending"
        /\ job[j] \in {"succeeded", "failed"} => places = {} /\ owners = {}

\* A job that is reported as succeeded has its artifact complete in the store,
\* although another worker may have been writing the same path, or died at it.
SucceededIsStored ==
  \A j \in Jobs : job[j] = "succeeded" => file[ArtifactOf[j]] = "full"

\* An accepted job ends.  The only ones that do not are those whose worker was
\* hit by a fault after it took them off the queue: nothing puts them back.
AcceptedJobsEnd ==
  \A j \in Jobs :
    (request[j] = "accepted") ~> (job[j] \in {"succeeded", "failed"} \/ j \in lost)

=============================================================================
