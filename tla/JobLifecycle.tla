---------------------------- MODULE JobLifecycle ----------------------------
(***************************************************************************)
(* Generation jobs of BlockVideo: the rows of generation_jobs, the         *)
(* process-local JobRegistry that runs them, and everything that races     *)
(* with a running job - cancellation, settings edits, deletion, shutdown,  *)
(* a crash and the start-up reconciliation.                                *)
(*                                                                         *)
(* One action is one SQLite writer transaction (services/transactions.py   *)
(* serialises them with BEGIN IMMEDIATE) or one uninterrupted step of the  *)
(* event loop.  HTTP handlers declared with "def" run in worker threads,   *)
(* so their transactions fall between any two steps of a running job.      *)
(***************************************************************************)
EXTENDS Naturals

CONSTANTS
    Projects,      \* every project identity that allocate_project_id hands out
    MaxJobs,       \* bound: job identities are 1 .. MaxJobs
    MaxRevision,   \* bound: a project is edited until this revision
    MaxStops,      \* bound: the process stops (shutdown or crash) this often
    Entries,       \* entry points in use: "route" (REST) and "operation"
    Deletable,     \* the projects that a user may delete
    CommitMayFail  \* may a transaction of the runner fail (disk full, lock timeout)?

ASSUME ProjectsAssumption == Projects # {}
ASSUME BoundsAssumption ==
    MaxJobs \in Nat \ {0} /\ MaxRevision \in Nat \ {0} /\ MaxStops \in Nat
ASSUME EntriesAssumption == Entries \subseteq {"route", "operation"}
ASSUME DeletableAssumption == Deletable \subseteq Projects
ASSUME CommitAssumption == CommitMayFail \in BOOLEAN

JobIds == 1 .. MaxJobs

VARIABLES
    project,     \* projects rows: life, revision, status, current artifact
    job,         \* generation_jobs rows
    receipts,    \* job identities named by an operation receipt
    artifact,    \* generation_artifacts rows, one at most per job
    remote,      \* the job's journal of remote calls, summarised
    task,        \* JobRegistry._tasks: where the asyncio task of a job stands
    submitting,  \* jobs committed by a REST handler that has yet to submit them
    server,      \* the process: "up", "closing" (draining) or "down"
    stops        \* how often the process has stopped

vars == <<project, job, receipts, artifact, remote, task, submitting, server, stops>>

-----------------------------------------------------------------------------
(* Rows *)

JobStatus == {"pending", "running", "completed", "failed", "cancelled", "unknown"}
Active == {"pending", "running"}
ProjectStatus == {"draft", "generating", "completed", "cancelled", "failed"}

\* "full" stands for the kinds that end by publishing a video (full, rerender),
\* "part" for the targeted ones that stop before it (block_visual, block_audio).
Kinds == {"full", "part"}

ProjectRow == [life : {"unborn", "live", "deleted"}, revision : 1 .. MaxRevision,
               status : ProjectStatus, artifact : 0 .. MaxJobs]

NoJob == [status |-> "none"]
JobRow == [status : JobStatus, project : Projects, kind : Kinds,
           revision : 1 .. MaxRevision, cancel : BOOLEAN]

\* A task is "queued" until its first step, then in the pipeline ("work", or
\* "guarded" between guard() and the write the guard allows), then holds the
\* outcome with which its coroutine ended until the closing transaction.
Outcomes == {"completed", "failed", "cancelled", "unknown"}
Working == {"work", "guarded"} \union Outcomes
TaskStates == {"none", "queued"} \union Working

\* "unrecorded": a call that ended but whose row is still in flight, because the
\* transaction that had to record the outcome failed.
RemoteStates == {"none", "in_flight", "answered", "unrecorded", "unknown"}
Unresolved == {"in_flight", "unrecorded", "unknown"}

Exists(j) == job[j] # NoJob
IsActive(j) == job[j].status \in Active
JobsOf(p) == {j \in JobIds : Exists(j) /\ job[j].project = p}
Live(p) == project[p].life = "live"

\* Process-wide facts: handlers answer only between start-up and shutdown,
\* tasks go on until the event loop stops.
Serving == server = "up"
Alive == server \in {"up", "closing"}

\* unresolved_remote_side_effect_predicate / has_unresolved_calls
HasUnresolvedCalls(j) == remote[j] \in Unresolved

\* has_active_project_job: every job that create_pending_job writes carries a
\* snapshot, so a pending or running row keeps its project busy by itself.
HasActiveProjectJob(p) == \E j \in JobsOf(p) : IsActive(j)

Init ==
    /\ project = [p \in Projects |->
                    [life |-> "unborn", revision |-> 1, status |-> "draft", artifact |-> 0]]
    /\ job = [j \in JobIds |-> NoJob]
    /\ receipts = {}
    /\ artifact = [j \in JobIds |-> FALSE]
    /\ remote = [j \in JobIds |-> "none"]
    /\ task = [j \in JobIds |-> "none"]
    /\ submitting = {}
    /\ server = "up"
    /\ stops = 0

-----------------------------------------------------------------------------
(* Creating jobs: services/job_records.py *)

\* Mutation of UsedIds: only the rows that exist now are counted.
UsedIdsOfRowsOnly == {j \in JobIds : Exists(j)}

\* Identities that create_pending_job must not hand out again.
UsedIds == {j \in JobIds : Exists(j) \/ j \in receipts \/ remote[j] # "none" \/ artifact[j]}

\* max(current, historical, external, artifact) + 1
NextJobId(j) ==
    /\ \A i \in UsedIds : i < j
    /\ j = 1 \/ j - 1 \in UsedIds

\* Mutation of MayCreate: the check for an active job is dropped.
MayCreateWhileActive(p) ==
    /\ Live(p)
    /\ \A j \in JobsOf(p) : job[j].status # "unknown" /\ ~HasUnresolvedCalls(j)

\* Mutation of MayCreate: the check for uncertain remote work is dropped.
MayCreateAfterUnknown(p) == Live(p) /\ ~HasActiveProjectJob(p)

\* The refusals of create_pending_job: a live project without an active job
\* (ProjectBusyError) and without an uncertain one (UnresolvedExternalWorkError).
MayCreate(p) ==
    /\ Live(p)
    /\ ~HasActiveProjectJob(p)
    /\ \A j \in JobsOf(p) : job[j].status # "unknown" /\ ~HasUnresolvedCalls(j)

PendingRow(p, kind, revision) ==
    [status |-> "pending", project |-> p, kind |-> kind, revision |-> revision, cancel |-> FALSE]

\* create_pending_job once it accepts: the row captures the project's revision
\* and the project is shown as generating.  The revision is a parameter because
\* a settings operation may raise it and create the job in one transaction.
CreatePendingJob(j, p, kind, revision) ==
    /\ NextJobId(j)
    /\ job' = [job EXCEPT ![j] = PendingRow(p, kind, revision)]
    /\ project' = [project EXCEPT ![p] = [@ EXCEPT !.status = "generating", !.revision = revision]]

-----------------------------------------------------------------------------
(* Requests *)

\* The row that an accepted creation inserts.
NewProject(status) == [life |-> "live", revision |-> 1, status |-> status, artifact |-> 0]

\* POST /api/projects
CreateProject(p) ==
    /\ Serving
    /\ project[p].life = "unborn"
    /\ project' = [project EXCEPT ![p] = NewProject("draft")]
    /\ UNCHANGED <<job, receipts, artifact, remote, task, submitting, server, stops>>

\* POST /api/projects/quick: the project and its first job in one
\* transaction; the dispatcher delivers the job.
QuickCreate(p) ==
    /\ Serving
    /\ "route" \in Entries
    /\ project[p].life = "unborn"
    /\ \E j \in JobIds :
         /\ NextJobId(j)
         /\ job' = [job EXCEPT ![j] = PendingRow(p, "full", 1)]
    /\ project' = [project EXCEPT ![p] = NewProject("generating")]
    /\ UNCHANGED <<receipts, artifact, remote, task, submitting, server, stops>>

\* _enqueue behind generate-all, rerender and the block routes: commits the job
\* and then, outside the transaction, submits it.
Enqueue(p, kind) ==
    /\ Serving
    /\ "route" \in Entries
    /\ MayCreate(p)
    /\ \E j \in JobIds :
         /\ CreatePendingJob(j, p, kind, project[p].revision)
         /\ submitting' = submitting \union {j}
    /\ UNCHANGED <<receipts, artifact, remote, task, server, stops>>

\* project.generation.start: the job and its receipt in one transaction.
StartGeneration(p, kind) ==
    /\ Serving
    /\ "operation" \in Entries
    /\ MayCreate(p)
    /\ \E j \in JobIds :
         /\ CreatePendingJob(j, p, kind, project[p].revision)
         /\ receipts' = receipts \union {j}
    /\ UNCHANGED <<artifact, remote, task, submitting, server, stops>>

\* project.generation.retry: a new job of the same kind, from a job that ended
\* without leaving remote work uncertain.
RetryGeneration(previous) ==
    /\ Serving
    /\ "operation" \in Entries
    /\ job[previous].status \in {"failed", "cancelled"}
    /\ ~HasUnresolvedCalls(previous)
    /\ LET p == job[previous].project IN
         /\ MayCreate(p)
         /\ \E j \in JobIds :
              /\ CreatePendingJob(j, p, job[previous].kind, project[p].revision)
              /\ receipts' = receipts \union {j}
    /\ UNCHANGED <<artifact, remote, task, submitting, server, stops>>

\* Mutation of ReviseProject: ensure_project_idle is forgotten.
ReviseWhileBusy(p) ==
    /\ Serving
    /\ Live(p)
    /\ project[p].revision < MaxRevision
    /\ project' = [project EXCEPT ![p].revision = @ + 1]
    /\ UNCHANGED <<job, receipts, artifact, remote, task, submitting, server, stops>>

\* A change of settings or of a block through PATCH or a settings operation:
\* refused while the project is busy, otherwise the revision goes up by one.
ReviseProject(p) ==
    /\ Serving
    /\ Live(p)
    /\ ~HasActiveProjectJob(p)
    /\ project[p].revision < MaxRevision
    /\ project' = [project EXCEPT ![p].revision = @ + 1]
    /\ UNCHANGED <<job, receipts, artifact, remote, task, submitting, server, stops>>

\* A settings operation with generation_requested: new revision, receipt and
\* job commit together or not at all.
ReviseAndGenerate(p) ==
    /\ Serving
    /\ "operation" \in Entries
    /\ MayCreate(p)
    /\ project[p].revision < MaxRevision
    /\ \E j \in JobIds :
         /\ CreatePendingJob(j, p, "full", project[p].revision + 1)
         /\ receipts' = receipts \union {j}
    /\ UNCHANGED <<artifact, remote, task, submitting, server, stops>>

\* Mutation of CancelJobs: a cancelled pending job leaves its project as it is.
CancelJobsAlone(S) ==
    LET hit == {j \in S : IsActive(j) /\ ~job[j].cancel}
    IN  /\ hit # {}
        /\ job' = [j \in JobIds |->
                     IF j \notin hit THEN job[j]
                     ELSE [job[j] EXCEPT !.cancel = TRUE,
                                         !.status = IF @ = "pending" THEN "cancelled" ELSE @]]
        /\ UNCHANGED project

\* cancel_job applied to every job of a set, in one transaction: a pending job
\* is cancelled at once, a running one is only flagged, any other is left alone.
CancelJobs(S) ==
    LET hit == {j \in S : IsActive(j) /\ ~job[j].cancel}
        stopped == {j \in hit : job[j].status = "pending"}
    IN  /\ hit # {}
        /\ job' = [j \in JobIds |->
                     IF j \in stopped THEN [job[j] EXCEPT !.cancel = TRUE, !.status = "cancelled"]
                     ELSE IF j \in hit THEN [job[j] EXCEPT !.cancel = TRUE]
                     ELSE job[j]]
        /\ project' = [p \in Projects |->
                         IF \E j \in stopped : job[j].project = p
                                               /\ job[j].revision = project[p].revision
                         THEN [project[p] EXCEPT !.status = "cancelled"]
                         ELSE project[p]]

\* POST /api/projects/{id}/cancel
CancelProject(p) ==
    /\ Serving
    /\ Live(p)
    /\ CancelJobs(JobsOf(p))
    /\ UNCHANGED <<receipts, artifact, remote, task, submitting, server, stops>>

\* project.generation.cancel names one job.
CancelGeneration(j) ==
    /\ Serving
    /\ "operation" \in Entries
    /\ Exists(j)
    /\ CancelJobs({j})
    /\ UNCHANGED <<receipts, artifact, remote, task, submitting, server, stops>>

\* Mutation of RestoreArtifact: the artifact's owner is not compared.
RestoreAnyArtifact(p, j) ==
    /\ Serving
    /\ "operation" \in Entries
    /\ Live(p)
    /\ ~HasActiveProjectJob(p)
    /\ artifact[j]
    /\ project' = [project EXCEPT ![p].artifact = j]
    /\ UNCHANGED <<job, receipts, artifact, remote, task, submitting, server, stops>>

\* project.artifact.restore points the project at an earlier video.
RestoreArtifact(p, j) ==
    /\ Serving
    /\ "operation" \in Entries
    /\ Live(p)
    /\ ~HasActiveProjectJob(p)
    /\ artifact[j]
    /\ job[j].project = p
    /\ project' = [project EXCEPT ![p].artifact = j]
    /\ UNCHANGED <<job, receipts, artifact, remote, task, submitting, server, stops>>

\* DELETE /api/projects/{id}: jobs, artifacts and journal rows go with the
\* project; receipts and the project's identity stay.
DeleteProject(p) ==
    /\ Serving
    /\ p \in Deletable
    /\ Live(p)
    /\ ~HasActiveProjectJob(p)
    /\ \A j \in JobsOf(p) : job[j].status # "unknown" /\ ~HasUnresolvedCalls(j)
    /\ project' = [project EXCEPT ![p] = [@ EXCEPT !.life = "deleted", !.artifact = 0]]
    /\ job' = [j \in JobIds |-> IF j \in JobsOf(p) THEN NoJob ELSE job[j]]
    /\ artifact' = [j \in JobIds |-> artifact[j] /\ j \notin JobsOf(p)]
    /\ remote' = [j \in JobIds |-> IF j \in JobsOf(p) THEN "none" ELSE remote[j]]
    /\ UNCHANGED <<receipts, task, submitting, server, stops>>

-----------------------------------------------------------------------------
(* JobRegistry and the dispatcher *)

\* Mutation of Submit: nobody polls for pending rows.
SubmitFromHandlersOnly(j) ==
    /\ Serving
    /\ j \in submitting
    /\ task' = [task EXCEPT ![j] = IF @ = "none" THEN "queued" ELSE @]
    /\ submitting' = submitting \ {j}
    /\ UNCHANGED <<project, job, receipts, artifact, remote, server, stops>>

\* JobRegistry.submit, called by the handler that just committed the job or by
\* the dispatcher for a pending row; a task that exists already is kept.
Submit(j) ==
    /\ Serving
    /\ \/ j \in submitting
       \/ job[j].status = "pending" /\ task[j] = "none"
    /\ task' = [task EXCEPT ![j] = IF @ = "none" THEN "queued" ELSE @]
    /\ submitting' = submitting \ {j}
    /\ UNCHANGED <<project, job, receipts, artifact, remote, server, stops>>

\* Mutation of Claim: the row is claimed whatever its status is.
ClaimAnything(j) ==
    /\ Alive
    /\ task[j] = "queued"
    /\ Exists(j)
    /\ job' = [job EXCEPT ![j].status = "running"]
    /\ task' = [task EXCEPT ![j] = "work"]
    /\ UNCHANGED <<project, receipts, artifact, remote, submitting, server, stops>>

\* The first transaction of _runner claims a job that is still pending.
Claim(j) ==
    /\ Alive
    /\ task[j] = "queued"
    /\ job[j].status = "pending"
    /\ IF job[j].cancel
       THEN /\ job' = [job EXCEPT ![j].status = "cancelled"]
            /\ task' = [task EXCEPT ![j] = "none"]
       ELSE /\ job' = [job EXCEPT ![j].status = "running"]
            /\ task' = [task EXCEPT ![j] = "work"]
    /\ UNCHANGED <<project, receipts, artifact, remote, submitting, server, stops>>

\* ... and gives up on a job that is gone or was cancelled before its turn.
ClaimNothing(j) ==
    /\ Alive
    /\ task[j] = "queued"
    /\ job[j].status # "pending"
    /\ task' = [task EXCEPT ![j] = "none"]
    /\ UNCHANGED <<project, job, receipts, artifact, remote, submitting, server, stops>>

\* Mutation of SettledStatus: a cancellation hides unresolved remote work.
CancelledBeforeUnknown(j) ==
    IF job[j].cancel THEN "cancelled"
    ELSE IF HasUnresolvedCalls(j) THEN "unknown"
    ELSE task[j]

\* _runner's second transaction: what the coroutine ended with is written
\* unless publication already committed success.  Unresolved remote work
\* overrides everything, a cancellation request overrides the rest.
SettledStatus(j) ==
    IF HasUnresolvedCalls(j) THEN "unknown"
    ELSE IF job[j].cancel THEN "cancelled"
    ELSE task[j]

\* Mutation of ShownStatus: the job's status is written to the project as it is.
ShownVerbatim(status) == status

ShownStatus(status) ==
    IF status \in {"completed", "cancelled"} THEN status ELSE "failed"

Settle(j) ==
    /\ Alive
    /\ task[j] \in Outcomes
    /\ task' = [task EXCEPT ![j] = "none"]
    /\ IF ~Exists(j) \/ job[j].status = "completed"
       THEN UNCHANGED <<job, project>>
       ELSE LET p == job[j].project
                final == SettledStatus(j)
            IN  /\ job' = [job EXCEPT ![j].status = final]
                /\ project' = IF Live(p) /\ project[p].revision = job[j].revision
                              THEN [project EXCEPT ![p].status = ShownStatus(final)]
                              ELSE project
    /\ UNCHANGED <<receipts, artifact, remote, submitting, server, stops>>

\* Either transaction of _runner may fail: the exception ends the coroutine, the
\* task leaves the registry and the row stays as it is, pending or running.
RunnerCommitFails(j) ==
    /\ CommitMayFail
    /\ Alive
    /\ task[j] \in {"queued"} \union Outcomes
    /\ task' = [task EXCEPT ![j] = "none"]
    /\ UNCHANGED <<project, job, receipts, artifact, remote, submitting, server, stops>>

-----------------------------------------------------------------------------
(* The pipeline coroutine: services/pipeline.py, run_generation_job *)

To(j, state) == task' = [task EXCEPT ![j] = state]

\* The coroutine takes its next step: it is not waiting for a remote answer.
Runs(j, state) == Alive /\ task[j] = state /\ remote[j] # "in_flight"

\* guard(): the flag, the project and its revision are read again.
InputsCurrent(j) ==
    /\ Exists(j)
    /\ Live(job[j].project)
    /\ project[job[j].project].revision = job[j].revision

Guard(j) ==
    /\ Runs(j, "work")
    /\ To(j, IF ~Exists(j) \/ job[j].cancel THEN "cancelled"
             ELSE IF InputsCurrent(j) THEN "guarded" ELSE "failed")
    /\ UNCHANGED <<project, job, receipts, artifact, remote, submitting, server, stops>>

\* A stage begins: its status is committed on the project row, in a transaction
\* of its own after the guard's.
BeginStage(j) ==
    /\ Runs(j, "guarded")
    /\ IF Exists(j)
       THEN /\ project' = [project EXCEPT ![job[j].project].status = "generating"]
            /\ To(j, "work")
       ELSE /\ To(j, "failed")
            /\ UNCHANGED project
    /\ UNCHANGED <<job, receipts, artifact, remote, submitting, server, stops>>

\* A targeted job ends after its last stage: the project is shown completed and
\* the row is left to the runner.
FinishIntermediate(j) ==
    /\ Runs(j, "guarded")
    /\ Exists(j)
    /\ job[j].kind = "part"
    /\ project' = [project EXCEPT ![job[j].project].status = "completed"]
    /\ To(j, "completed")
    /\ UNCHANGED <<job, receipts, artifact, remote, submitting, server, stops>>

\* A provider, renderer or file error ends the coroutine.
Fail(j) ==
    /\ Runs(j, "work") \/ Runs(j, "guarded")
    /\ To(j, "failed")
    /\ UNCHANGED <<project, job, receipts, artifact, remote, submitting, server, stops>>

\* Mutation of PublishChecks: a cancellation is not looked at again.
PublishChecksWithoutCancel(j) ==
    /\ job[j].status = "running"
    /\ ~HasUnresolvedCalls(j)
    /\ InputsCurrent(j)

\* What publish_artifact verifies once it holds the writer lock.
PublishChecks(j) ==
    /\ ~job[j].cancel
    /\ job[j].status = "running"
    /\ ~HasUnresolvedCalls(j)
    /\ InputsCurrent(j)

\* Mutation of Publish: the job's completion is left to the runner.
PublishThenSettle(j) ==
    /\ Runs(j, "work")
    /\ Exists(j)
    /\ job[j].kind = "full"
    /\ PublishChecks(j)
    /\ artifact' = [artifact EXCEPT ![j] = TRUE]
    /\ project' = [project EXCEPT ![job[j].project].artifact = j]
    /\ To(j, "completed")
    /\ UNCHANGED <<job, receipts, remote, submitting, server, stops>>

\* publish_artifact: all its checks, the artifact row, the project's current
\* video and the job's completion are one transaction.  A job that already has
\* its artifact gets that one back.
Publish(j) ==
    /\ Runs(j, "work")
    /\ Exists(j)
    /\ job[j].kind = "full"
    /\ IF artifact[j]
       THEN UNCHANGED <<artifact, project, job>>
       ELSE /\ PublishChecks(j)
            /\ artifact' = [artifact EXCEPT ![j] = TRUE]
            /\ project' = [project EXCEPT ![job[j].project] =
                              [@ EXCEPT !.artifact = j, !.status = "completed"]]
            /\ job' = [job EXCEPT ![j].status = "completed"]
    /\ To(j, "completed")
    /\ UNCHANGED <<receipts, remote, submitting, server, stops>>

\* publish_artifact refuses: the exception decides the coroutine's outcome.
PublishRefused(j) ==
    /\ Runs(j, "work")
    /\ Exists(j)
    /\ job[j].kind = "full"
    /\ ~artifact[j]
    /\ ~PublishChecks(j)
    /\ To(j, IF job[j].cancel \/ job[j].status = "cancelled" THEN "cancelled"
             ELSE IF job[j].status = "running" /\ HasUnresolvedCalls(j) THEN "unknown"
             ELSE "failed")
    /\ UNCHANGED <<project, job, receipts, artifact, remote, submitting, server, stops>>

-----------------------------------------------------------------------------
(* Remote calls of a job, summarised (ExternalCalls models each of them) *)

\* A new call is journalled as in flight; an unresolved journal refuses it.
RemoteCall(j) ==
    /\ Runs(j, "work")
    /\ Exists(j)
    /\ remote[j] # "unrecorded"
    /\ IF remote[j] = "unknown"
       THEN To(j, "unknown") /\ UNCHANGED remote
       ELSE remote' = [remote EXCEPT ![j] = "in_flight"] /\ UNCHANGED task
    /\ UNCHANGED <<project, job, receipts, artifact, submitting, server, stops>>

\* The coroutine waits for the answer.
Waits(j) == Alive /\ task[j] = "work" /\ remote[j] = "in_flight"

RemoteAnswer(j) ==
    /\ Waits(j)
    /\ remote' = [remote EXCEPT ![j] = "answered"]
    /\ UNCHANGED <<project, job, receipts, artifact, task, submitting, server, stops>>

\* A transport error, 408 or 5xx: the call may have been executed.
RemoteLost(j) ==
    /\ Waits(j)
    /\ remote' = [remote EXCEPT ![j] = "unknown"]
    /\ To(j, "unknown")
    /\ UNCHANGED <<project, job, receipts, artifact, submitting, server, stops>>

\* After an unrecorded outcome a different call is still sent; when it is answered
\* nothing changes here, when it is lost, or is the same call, the job is unknown.
RemoteRefused(j) ==
    /\ Runs(j, "work")
    /\ remote[j] = "unrecorded"
    /\ \E state \in {"unrecorded", "unknown"} : remote' = [remote EXCEPT ![j] = state]
    /\ To(j, "unknown")
    /\ UNCHANGED <<project, job, receipts, artifact, submitting, server, stops>>

\* The outcome could not be recorded.  The exception ends the coroutine as
\* unknown or failed, or a stage that tolerates failures of a block goes on.
RemoteUnrecorded(j) ==
    /\ Waits(j)
    /\ remote' = [remote EXCEPT ![j] = "unrecorded"]
    /\ \E state \in {"unknown", "failed", "work"} : To(j, state)
    /\ UNCHANGED <<project, job, receipts, artifact, submitting, server, stops>>

-----------------------------------------------------------------------------
(* Shutdown, crash and start-up *)

\* registry.close(): nothing more is admitted; handlers have been drained.
Close ==
    /\ Serving
    /\ stops < MaxStops
    /\ submitting = {}
    /\ server' = "closing"
    /\ stops' = stops + 1
    /\ UNCHANGED <<project, job, receipts, artifact, remote, task, submitting>>

\* registry.shutdown() cancels a task.  One that waits for a remote answer
\* records the call as unknown and ends as unknown; any other ends at once and
\* leaves its row as it is for the next start.
CancelTask(j) ==
    /\ server = "closing"
    /\ task[j] # "none"
    /\ IF Waits(j)
       THEN /\ remote' = [remote EXCEPT ![j] = "unknown"]
            /\ To(j, "unknown")
       ELSE /\ To(j, "none")
            /\ UNCHANGED remote
    /\ UNCHANGED <<project, job, receipts, artifact, submitting, server, stops>>

Stop ==
    /\ server = "closing"
    /\ \A j \in JobIds : task[j] = "none"
    /\ server' = "down"
    /\ UNCHANGED <<project, job, receipts, artifact, remote, task, submitting, stops>>

\* The process dies: tasks and pending submissions vanish, rows stay.
Crash ==
    /\ Alive
    /\ stops < MaxStops
    /\ server' = "down"
    /\ stops' = stops + 1
    /\ task' = [j \in JobIds |-> "none"]
    /\ submitting' = {}
    /\ UNCHANGED <<project, job, receipts, artifact, remote>>

\* mark_interrupted_operation_jobs, one transaction before the first request:
\* in-flight remote calls become unknown, and every running row is settled or,
\* when its frozen inputs still match (the set intact), made pending again.
RecoveredStatus(j, calls, intact) ==
    IF calls[j] \in Unresolved THEN "unknown"
    ELSE IF job[j].cancel THEN "cancelled"
    ELSE IF j \in intact /\ InputsCurrent(j) THEN "pending"
    ELSE "failed"

MarkInterrupted(intact) ==
    LET calls == [j \in JobIds |-> IF HasUnresolvedCalls(j) THEN "unknown" ELSE remote[j]]
        interrupted == {j \in JobIds : job[j].status = "running"}
        status == [j \in interrupted |-> RecoveredStatus(j, calls, intact)]
    IN  /\ remote' = calls
        /\ job' = [j \in JobIds |->
                     IF j \in interrupted THEN [job[j] EXCEPT !.status = status[j]] ELSE job[j]]
        /\ project' = [p \in Projects |->
             IF \E j \in interrupted : job[j].project = p /\ job[j].revision = project[p].revision
             THEN LET j == CHOOSE i \in interrupted :
                              job[i].project = p /\ job[i].revision = project[p].revision
                  IN  [project[p] EXCEPT !.status =
                         IF status[j] = "pending" THEN "generating" ELSE ShownStatus(status[j])]
             ELSE project[p]]

\* Mutation of Boot: requests are served before interrupted work is reconciled.
BootWithoutReconciliation ==
    /\ server = "down"
    /\ server' = "up"
    /\ UNCHANGED <<project, job, receipts, artifact, remote, task, submitting, stops>>

\* main.py's lifespan: interrupted work is reconciled before the first request.
Boot ==
    /\ server = "down"
    /\ server' = "up"
    /\ \E intact \in SUBSET {j \in JobIds : job[j].status = "running"} : MarkInterrupted(intact)
    /\ UNCHANGED <<receipts, artifact, task, submitting, stops>>

-----------------------------------------------------------------------------

Request ==
    \/ \E p \in Projects :
         \/ CreateProject(p) \/ QuickCreate(p) \/ ReviseProject(p) \/ ReviseAndGenerate(p)
         \/ CancelProject(p) \/ DeleteProject(p)
         \/ \E kind \in Kinds : Enqueue(p, kind) \/ StartGeneration(p, kind)
         \/ \E j \in JobIds : RestoreArtifact(p, j)
    \/ \E j \in JobIds : RetryGeneration(j) \/ CancelGeneration(j)

RunJob(j) ==
    \/ Submit(j) \/ Claim(j) \/ ClaimNothing(j) \/ Settle(j) \/ RunnerCommitFails(j)
    \/ Guard(j) \/ BeginStage(j) \/ FinishIntermediate(j) \/ Fail(j)
    \/ Publish(j) \/ PublishRefused(j)
    \/ RemoteCall(j) \/ RemoteAnswer(j) \/ RemoteLost(j) \/ RemoteRefused(j)
    \/ RemoteUnrecorded(j)

Process == Close \/ Stop \/ Crash \/ Boot \/ \E j \in JobIds : CancelTask(j)

Next == Request \/ Process \/ \E j \in JobIds : RunJob(j)

Spec == Init /\ [][Next]_vars

(***************************************************************************)
(* What the code keeps going by itself.  The dispatcher polls every second *)
(* and the event loop runs every ready task (weak fairness of Submit,      *)
(* Claim, BeginStage, Settle); HTTP clients have timeouts, so a call in    *)
(* flight ends; start-up and draining end.  run_generation_job walks a     *)
(* finite list of stages and each stage a finite list of blocks, which the *)
(* model does not count: strong fairness of Guard and of the exits says    *)
(* that a job does not make calls, or begin stages, forever.               *)
(***************************************************************************)
Ends(j) == Publish(j) \/ PublishRefused(j) \/ FinishIntermediate(j)
RemoteEnds(j) == RemoteAnswer(j) \/ RemoteLost(j)

Fairness ==
    /\ WF_vars(Boot) /\ WF_vars(Stop)
    /\ \A j \in JobIds :
         /\ WF_vars(Submit(j)) /\ WF_vars(Claim(j)) /\ WF_vars(ClaimNothing(j))
         /\ SF_vars(Guard(j)) /\ WF_vars(BeginStage(j)) /\ WF_vars(Settle(j))
         /\ WF_vars(RemoteEnds(j)) /\ SF_vars(Ends(j))
         /\ WF_vars(CancelTask(j))

FairSpec == Spec /\ Fairness

-----------------------------------------------------------------------------
(* Correctness *)

\* Every row, task and flag has its type.
TypeOK ==
    /\ project \in [Projects -> ProjectRow]
    /\ job \in [JobIds -> JobRow \union {NoJob}]
    /\ receipts \subseteq JobIds
    /\ artifact \in [JobIds -> BOOLEAN]
    /\ remote \in [JobIds -> RemoteStates]
    /\ task \in [JobIds -> TaskStates]
    /\ submitting \subseteq JobIds
    /\ server \in {"up", "closing", "down"}
    /\ stops \in 0 .. MaxStops

\* A project never has two generations under way, whichever entry points race
\* and however often the process restarts (job_records.create_pending_job).
OneActiveJob ==
    \A i, j \in JobIds :
        IsActive(i) /\ IsActive(j) /\ job[i].project = job[j].project => i = j

\* While a job is pending or running its project exists and keeps the revision
\* the job was created for: edits, deletion, crash and resumption never pull the
\* inputs from under it, so the StaleGenerationInput checks are a second line.
ActiveJobInputsFrozen == \A j \in JobIds : IsActive(j) => InputsCurrent(j)

\* A video exists exactly for the jobs that publish and are completed: no job
\* that ends cancelled, failed or unknown leaves one, no cancellation or late
\* runner transaction takes a published success back.
PublishedIffCompleted ==
    \A j \in JobIds : Exists(j) /\ job[j].kind = "full" =>
        (artifact[j] <=> job[j].status = "completed")

\* A cancellation that was accepted (the request answered "changed") is never
\* followed by success: completion and cancellation compete for one lock.
CancelledNeverSucceeds ==
    \A j \in JobIds : job[j].status = "completed" => ~job[j].cancel

\* An ended job is ended: no runner, restart or cancellation rewrites its status.
EndedIsFinal ==
    [][\A j \in JobIds : Exists(j) /\ ~IsActive(j) /\ Exists(j)' =>
            job'[j].status = job[j].status]_vars

\* Remote work whose outcome is open is always visible: the owning job is still
\* active or is unknown, never completed, failed or cancelled.
OpenRemoteWorkIsVisible ==
    \A j \in JobIds : HasUnresolvedCalls(j) => job[j].status \in Active \union {"unknown"}

\* After an unknown outcome the project starts nothing more: the unknown job is
\* its last one (no repetition of work that may have been billed).
UnknownIsLast ==
    \A j \in JobIds : job[j].status = "unknown" =>
        /\ Live(job[j].project)
        /\ \A i \in JobsOf(job[j].project) : i <= j

\* While the server is up every running row has its task at work: nothing is
\* left running after a restart, a shutdown that was cut short, or a lost race.
\* (A runner whose closing transaction fails does leave its row running.)
RunningHasTask ==
    Serving /\ ~CommitMayFail => \A j \in JobIds : job[j].status = "running" => task[j] \in Working

\* A project shown as generating has a job under way, so a user who waits for
\* it waits for something (project.status is written in many places).
GeneratingMeansActive ==
    \A p \in Projects : Live(p) /\ project[p].status = "generating" => HasActiveProjectJob(p)

\* The current video of a project is a completed publication of that project.
CurrentVideoIsPublished ==
    \A p \in Projects : project[p].artifact # 0 =>
        LET j == project[p].artifact IN
            artifact[j] /\ job[j].status = "completed" /\ job[j].project = p

\* The end of a job tells the truth: what is published completed, what was cancelled
\* never succeeds, and remote work without an outcome never hides behind an end.
EndsAreTruthful == PublishedIffCompleted /\ CancelledNeverSucceeds /\ OpenRemoteWorkIsVisible

\* An identity is handed out once: either no project is ever deleted, or every
\* job is created by an operation, whose receipt outlives the row.
IdentitiesKept == Deletable = {} \/ "route" \notin Entries

\* What holds of each job by itself, the inductive core of the properties above:
\* a task at work belongs to a running row or to its published one, rows of
\* artifacts and of remote calls have their job, and a pending job is untouched.
JobConsistent(j) ==
    /\ task[j] \in Working /\ Exists(j) =>
         \/ job[j].status = "running" /\ (task[j] = "completed" => job[j].kind = "part")
         \/ job[j].status = "completed" /\ task[j] = "completed"
    /\ task[j] # "none" \/ j \in submitting => Exists(j) \/ j \in receipts
    /\ Exists(j) /\ "route" \notin Entries => j \in receipts
    /\ artifact[j] => Exists(j) /\ job[j].kind = "full"
    /\ remote[j] # "none" => Exists(j)
    /\ job[j].status = "pending" => ~HasUnresolvedCalls(j) /\ ~job[j].cancel

\* Every job is consistent, and an active job is the last of its project.
JobsConsistent ==
    \A j \in JobIds :
        /\ JobConsistent(j)
        /\ IsActive(j) => \A i \in JobsOf(job[j].project) : i <= j

\* However jobs, tasks, receipts, videos and deletions are interleaved, they fit each
\* other: no task meets the row of another job (create_pending_job), nothing follows an
\* unknown job, and a current video is one that a job of its own project published.
JobsStayInOrder == TypeOK /\ JobsConsistent /\ UnknownIsLast /\ CurrentVideoIsPublished

\* A project is deleted only when no local work for it may still finish, so the
\* runner about to close never meets the row of another job under its identity
\* (api/utils.py, ensure_project_deletable).
RunnerMeetsItsOwnRow ==
    \A j \in JobIds : task[j] \in Outcomes /\ Exists(j) =>
        job[j].status \in {"running", "completed"}

\* Every job that was accepted reaches an end, through cancellations, restarts
\* and resumption.
EveryJobEnds == \A j \in JobIds : IsActive(j) ~> ~IsActive(j)
=============================================================================
