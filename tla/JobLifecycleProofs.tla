-------------------------- MODULE JobLifecycleProofs --------------------------
(***************************************************************************)
(* Proofs about JobLifecycle for every set of projects and every bound:    *)
(* the types, that activity is exclusive and its inputs frozen; then how   *)
(* jobs end - what is published, cancelled, unknown and final - and how    *)
(* they follow each other.  The theorems about ends assume IdentitiesKept, *)
(* that an identity is handed out once; the run jobs_identity shows what   *)
(* happens without it.                                                     *)
(***************************************************************************)
EXTENDS JobLifecycle, TLAPS

-----------------------------------------------------------------------------
(* Type correctness *)

\* Rows written for a new job have the row type.
LEMMA PendingRowType ==
    ASSUME NEW p \in Projects, NEW kind \in Kinds, NEW r \in 1 .. MaxRevision
    PROVE  PendingRow(p, kind, r) \in JobRow
  BY DEF PendingRow, JobRow, JobStatus

\* A missing row is not a row, and has none of the statuses of one.
LEMMA NoJobFacts == NoJob \notin JobRow /\ NoJob.status = "none"
  BY DEF NoJob, JobRow, JobStatus

\* A row that exists is a job row.
LEMMA ExistsRow ==
    ASSUME TypeOK, NEW j \in JobIds, Exists(j)
    PROVE  /\ job[j] \in JobRow
           /\ job[j].project \in Projects
           /\ job[j].kind \in Kinds
           /\ job[j].revision \in 1 .. MaxRevision
           /\ job[j].status \in JobStatus
           /\ job[j].cancel \in BOOLEAN
  BY DEF TypeOK, Exists, JobRow

\* A slot with a real status holds a row.
LEMMA StatusExists ==
    ASSUME TypeOK, NEW j \in JobIds, job[j].status # "none"
    PROVE  Exists(j)
  BY NoJobFacts DEF Exists

\* Rewriting one project with a well-typed row leaves well-typed projects.
LEMMA ProjectUpdate ==
    ASSUME TypeOK, NEW p \in Projects, NEW row \in ProjectRow,
           project' = [project EXCEPT ![p] = row]
    PROVE  project' \in [Projects -> ProjectRow]
  BY DEF TypeOK

\* The ways in which an action changes the row of a project.
LEMMA ProjectRowChanges ==
    ASSUME NEW row \in ProjectRow, NEW s \in ProjectStatus, NEW a \in 0 .. MaxJobs
    PROVE  /\ [row EXCEPT !.artifact = a] \in ProjectRow
           /\ [row EXCEPT !.life = "deleted", !.artifact = a] \in ProjectRow
           /\ [row EXCEPT !.artifact = a, !.status = s] \in ProjectRow
  <1>1. [row EXCEPT !.artifact = a] \in ProjectRow
    BY DEF ProjectRow
  <1>3. [row EXCEPT !.life = "deleted", !.artifact = a] \in ProjectRow
    BY DEF ProjectRow
  <1>4. [row EXCEPT !.artifact = a, !.status = s] \in ProjectRow
    BY DEF ProjectRow
  <1> QED
    BY <1>1, <1>3, <1>4

\* The initial rows, tasks and flags are within their types.
LEMMA TypeInit == Init => TypeOK
  BY BoundsAssumption DEF Init, TypeOK, ProjectRow, ProjectStatus, RemoteStates, TaskStates

\* The row and the project written by create_pending_job have their types.
LEMMA CreateType ==
    ASSUME TypeOK, NEW j \in JobIds, NEW p \in Projects, NEW kind \in Kinds,
           NEW r \in 1 .. MaxRevision, CreatePendingJob(j, p, kind, r)
    PROVE  project' \in [Projects -> ProjectRow] /\ job' \in [JobIds -> JobRow \union {NoJob}]
  <1>1. job' \in [JobIds -> JobRow \union {NoJob}]
    BY PendingRowType DEF CreatePendingJob, TypeOK
  <1>2. project' \in [Projects -> ProjectRow]
    BY ZenonT(60) DEF CreatePendingJob, TypeOK, ProjectRow, ProjectStatus
  <1> QED
    BY <1>1, <1>2

\* cancel_job leaves well-typed rows.
LEMMA CancelType ==
    ASSUME TypeOK, NEW S \in SUBSET JobIds, CancelJobs(S)
    PROVE  project' \in [Projects -> ProjectRow] /\ job' \in [JobIds -> JobRow \union {NoJob}]
  <1>1. \A j \in JobIds : job'[j] \in JobRow \union {NoJob}
    <2> TAKE j \in JobIds
    <2>1. CASE job'[j] = job[j]
      BY <2>1 DEF TypeOK
    <2>2. CASE job'[j] # job[j]
      <3>1. Exists(j)
        BY <2>2, StatusExists DEF CancelJobs, IsActive, Active
      <3>2. job[j] \in JobRow
        BY <3>1, ExistsRow
      <3>3. QED
        BY <2>2, <3>2 DEF CancelJobs, JobRow, JobStatus
    <2> QED
      BY <2>1, <2>2
  <1>2. job' \in [JobIds -> JobRow \union {NoJob}]
    BY <1>1 DEF CancelJobs
  <1>3. \A p \in Projects : project'[p] \in ProjectRow
    BY ZenonT(60) DEF CancelJobs, TypeOK, ProjectRow, ProjectStatus
  <1>4. QED
    BY <1>2, <1>3 DEF CancelJobs, TypeOK

\* Every action keeps every row, task and flag within its type.
LEMMA TypeStep == TypeOK /\ [Next]_vars => TypeOK'
  <1> SUFFICES ASSUME TypeOK, [Next]_vars PROVE TypeOK'
    OBVIOUS
  <1>1. ASSUME NEW p \in Projects, CreateProject(p) PROVE TypeOK'
    <2>1. NewProject("draft") \in ProjectRow
      BY BoundsAssumption DEF NewProject, ProjectRow, ProjectStatus
    <2> QED
      BY <1>1, <2>1 DEF CreateProject, TypeOK
  <1>2. ASSUME NEW p \in Projects, QuickCreate(p) PROVE TypeOK'
    <2>1. PendingRow(p, "full", 1) \in JobRow
      BY PendingRowType, BoundsAssumption DEF Kinds
    <2>2. job' \in [JobIds -> JobRow \union {NoJob}]
      BY <1>2, <2>1 DEF QuickCreate, TypeOK
    <2>3. project' \in [Projects -> ProjectRow]
      <3>1. NewProject("generating") \in ProjectRow
        BY BoundsAssumption DEF NewProject, ProjectRow, ProjectStatus
      <3> QED
        BY <1>2, <3>1, ProjectUpdate DEF QuickCreate
    <2> QED
      BY <1>2, <2>2, <2>3 DEF QuickCreate, TypeOK
  <1>3. ASSUME NEW p \in Projects, ReviseProject(p) PROVE TypeOK'
    <2>1. project' \in [Projects -> ProjectRow]
      BY <1>3, BoundsAssumption DEF ReviseProject, TypeOK, ProjectRow
    <2> QED
      BY <1>3, <2>1 DEF ReviseProject, TypeOK
  <1>4. ASSUME NEW p \in Projects, ReviseAndGenerate(p) PROVE TypeOK'
    <2>1. PICK j \in JobIds : CreatePendingJob(j, p, "full", project[p].revision + 1)
                               /\ receipts' = receipts \union {j}
      BY <1>4 DEF ReviseAndGenerate
    <2>2. project[p].revision + 1 \in 1 .. MaxRevision
      BY <1>4, BoundsAssumption DEF ReviseAndGenerate, TypeOK, ProjectRow
    <2>3. project' \in [Projects -> ProjectRow] /\ job' \in [JobIds -> JobRow \union {NoJob}]
      BY <2>1, <2>2, CreateType DEF Kinds
    <2> QED
      BY <1>4, <2>1, <2>3 DEF ReviseAndGenerate, TypeOK
  <1>5. ASSUME NEW p \in Projects, CancelProject(p) PROVE TypeOK'
    <2>1. JobsOf(p) \in SUBSET JobIds
      BY DEF JobsOf
    <2>2. project' \in [Projects -> ProjectRow] /\ job' \in [JobIds -> JobRow \union {NoJob}]
      BY <1>5, <2>1, CancelType DEF CancelProject
    <2> QED
      BY <1>5, <2>2 DEF CancelProject, TypeOK
  <1>6. ASSUME NEW p \in Projects, DeleteProject(p) PROVE TypeOK'
    <2>1. project' \in [Projects -> ProjectRow]
      <3>1. project[p] \in ProjectRow /\ "draft" \in ProjectStatus /\ 0 \in 0 .. MaxJobs
        BY BoundsAssumption DEF TypeOK, ProjectStatus
      <3>2. [project[p] EXCEPT !.life = "deleted", !.artifact = 0] \in ProjectRow
        BY <3>1, ProjectRowChanges
      <3> QED
        BY <1>6, <3>2, ProjectUpdate DEF DeleteProject
    <2>2. job' \in [JobIds -> JobRow \union {NoJob}]
      BY <1>6 DEF DeleteProject, TypeOK
    <2> QED
      BY <1>6, <2>1, <2>2 DEF DeleteProject, TypeOK, RemoteStates
  <1>7. ASSUME NEW p \in Projects, NEW kind \in Kinds, Enqueue(p, kind) PROVE TypeOK'
    <2>1. PICK j \in JobIds : CreatePendingJob(j, p, kind, project[p].revision)
      BY <1>7 DEF Enqueue
    <2>2. project[p].revision \in 1 .. MaxRevision
      BY DEF TypeOK, ProjectRow
    <2>3. project' \in [Projects -> ProjectRow] /\ job' \in [JobIds -> JobRow \union {NoJob}]
      BY <2>1, <2>2, CreateType
    <2> QED
      BY <1>7, <2>3 DEF Enqueue, TypeOK
  <1>8. ASSUME NEW p \in Projects, NEW kind \in Kinds, StartGeneration(p, kind) PROVE TypeOK'
    <2>1. PICK j \in JobIds : CreatePendingJob(j, p, kind, project[p].revision)
      BY <1>8 DEF StartGeneration
    <2>2. project[p].revision \in 1 .. MaxRevision
      BY DEF TypeOK, ProjectRow
    <2>3. project' \in [Projects -> ProjectRow] /\ job' \in [JobIds -> JobRow \union {NoJob}]
      BY <2>1, <2>2, CreateType
    <2> QED
      BY <1>8, <2>3 DEF StartGeneration, TypeOK
  <1>9. ASSUME NEW p \in Projects, NEW j \in JobIds, RestoreArtifact(p, j) PROVE TypeOK'
    <2>1. project' \in [Projects -> ProjectRow]
      <3>1. project[p] \in ProjectRow /\ "draft" \in ProjectStatus /\ j \in 0 .. MaxJobs
        BY BoundsAssumption DEF TypeOK, ProjectStatus, JobIds
      <3>2. [project[p] EXCEPT !.artifact = j] \in ProjectRow
        BY <3>1, ProjectRowChanges
      <3> QED
        BY <1>9, <3>2, ProjectUpdate DEF RestoreArtifact
    <2> QED
      BY <1>9, <2>1 DEF RestoreArtifact, TypeOK
  <1>10. ASSUME NEW j \in JobIds, RetryGeneration(j) PROVE TypeOK'
    <2>1. job[j].project \in Projects /\ job[j].kind \in Kinds
      BY <1>10, StatusExists, ExistsRow DEF RetryGeneration
    <2>2. project[job[j].project].revision \in 1 .. MaxRevision
      BY <2>1 DEF TypeOK, ProjectRow
    <2>3. PICK i \in JobIds : CreatePendingJob(i, job[j].project, job[j].kind,
                                               project[job[j].project].revision)
      BY <1>10 DEF RetryGeneration
    <2>4. project' \in [Projects -> ProjectRow] /\ job' \in [JobIds -> JobRow \union {NoJob}]
      BY <2>1, <2>2, <2>3, CreateType
    <2> QED
      BY <1>10, <2>4 DEF RetryGeneration, TypeOK
  <1>11. ASSUME NEW j \in JobIds, CancelGeneration(j) PROVE TypeOK'
    <2>1. project' \in [Projects -> ProjectRow] /\ job' \in [JobIds -> JobRow \union {NoJob}]
      BY <1>11, CancelType DEF CancelGeneration
    <2> QED
      BY <1>11, <2>1 DEF CancelGeneration, TypeOK
  <1>12. ASSUME NEW j \in JobIds, Submit(j) PROVE TypeOK'
    BY <1>12 DEF Submit, TypeOK, TaskStates
  <1>13. ASSUME NEW j \in JobIds, Claim(j) PROVE TypeOK'
    <2>1. job[j] \in JobRow
      BY <1>13, StatusExists, ExistsRow DEF Claim
    <2>2. \A s \in JobStatus : [job[j] EXCEPT !.status = s] \in JobRow
      BY <2>1 DEF JobRow
    <2>3. PICK s \in JobStatus : job' = [job EXCEPT ![j].status = s]
      BY <1>13 DEF Claim, JobStatus
    <2>4. job' \in [JobIds -> JobRow \union {NoJob}]
      BY <2>2, <2>3 DEF TypeOK
    <2> QED
      BY <1>13, <2>4 DEF Claim, TypeOK, TaskStates, Working
  <1>14. ASSUME NEW j \in JobIds, ClaimNothing(j) PROVE TypeOK'
    BY <1>14 DEF ClaimNothing, TypeOK, TaskStates
  <1>15. ASSUME NEW j \in JobIds, Settle(j) PROVE TypeOK'
    <2>1. SettledStatus(j) \in Outcomes
      BY <1>15 DEF Settle, SettledStatus, Outcomes
    <2>2. ShownStatus(SettledStatus(j)) \in ProjectStatus
      BY DEF ShownStatus, ProjectStatus
    <2>3. Exists(j) => job[j] \in JobRow
      BY ExistsRow
    <2>4. Exists(j) => [job[j] EXCEPT !.status = SettledStatus(j)] \in JobRow
      BY <2>1, <2>3 DEF JobRow, JobStatus, Outcomes
    <2>5. job' \in [JobIds -> JobRow \union {NoJob}]
      BY <1>15, <2>4 DEF Settle, TypeOK
    <2>6. project' \in [Projects -> ProjectRow]
      BY <1>15, <2>2 DEF Settle, TypeOK, ProjectRow
    <2> QED
      BY <1>15, <2>5, <2>6 DEF Settle, TypeOK, TaskStates
  <1>16. ASSUME NEW j \in JobIds, Guard(j) PROVE TypeOK'
    BY <1>16 DEF Guard, To, TypeOK, TaskStates, Working, Outcomes
  <1>17. ASSUME NEW j \in JobIds, BeginStage(j) PROVE TypeOK'
    <2>1. project' \in [Projects -> ProjectRow]
      BY <1>17 DEF BeginStage, TypeOK, ProjectRow, ProjectStatus
    <2> QED
      BY <1>17, <2>1 DEF BeginStage, To, TypeOK, TaskStates, Working, Outcomes
  <1>18. ASSUME NEW j \in JobIds, FinishIntermediate(j) PROVE TypeOK'
    <2>1. project' \in [Projects -> ProjectRow]
      BY ZenonT(60), <1>18 DEF FinishIntermediate, TypeOK, ProjectRow, ProjectStatus
    <2> QED
      BY <1>18, <2>1 DEF FinishIntermediate, To, TypeOK, TaskStates, Working, Outcomes
  <1>19. ASSUME NEW j \in JobIds, Fail(j) PROVE TypeOK'
    BY <1>19 DEF Fail, To, TypeOK, TaskStates, Working, Outcomes
  <1>20. ASSUME NEW j \in JobIds, Publish(j) PROVE TypeOK'
    <2>1. job[j] \in JobRow
      BY <1>20, ExistsRow DEF Publish
    <2>2. [job[j] EXCEPT !.status = "completed"] \in JobRow
      BY <2>1 DEF JobRow, JobStatus
    <2>3. job' \in [JobIds -> JobRow \union {NoJob}]
      BY <1>20, <2>2 DEF Publish, TypeOK
    <2>4. project' \in [Projects -> ProjectRow]
      <3> DEFINE p == job[j].project
      <3>1. p \in Projects
        BY <2>1 DEF JobRow
      <3>2. project[p] \in ProjectRow /\ "completed" \in ProjectStatus /\ j \in 0 .. MaxJobs
        BY <3>1, BoundsAssumption DEF TypeOK, ProjectStatus, JobIds
      <3>3. [project[p] EXCEPT !.artifact = j, !.status = "completed"] \in ProjectRow
        BY <3>2, ProjectRowChanges
      <3>4. CASE artifact[j]
        BY <1>20, <3>4 DEF Publish, TypeOK
      <3>5. CASE ~artifact[j]
        <4>1. project' = [project EXCEPT ![p] =
                             [project[p] EXCEPT !.artifact = j, !.status = "completed"]]
          BY <1>20, <3>5 DEF Publish
        <4> QED
          BY <3>1, <3>3, <4>1, ProjectUpdate
      <3> QED
        BY <3>4, <3>5
    <2> QED
      BY <1>20, <2>3, <2>4 DEF Publish, To, TypeOK, TaskStates, Working, Outcomes
  <1>21. ASSUME NEW j \in JobIds, PublishRefused(j) PROVE TypeOK'
    BY <1>21 DEF PublishRefused, To, TypeOK, TaskStates, Working, Outcomes
  <1>22. ASSUME NEW j \in JobIds, RemoteCall(j) PROVE TypeOK'
    BY <1>22 DEF RemoteCall, To, TypeOK, TaskStates, Working, Outcomes, RemoteStates
  <1>23. ASSUME NEW j \in JobIds, RemoteAnswer(j) \/ RemoteLost(j) PROVE TypeOK'
    BY <1>23 DEF RemoteAnswer, RemoteLost, To, TypeOK, TaskStates, Working, Outcomes, RemoteStates
  <1>24. ASSUME NEW j \in JobIds,
                RemoteUnrecorded(j) \/ RemoteRefused(j) \/ RunnerCommitFails(j)
         PROVE  TypeOK'
    BY <1>24
    DEF RemoteUnrecorded, RemoteRefused, RunnerCommitFails, To, TypeOK, TaskStates, Working,
        Outcomes, RemoteStates
  <1>25. CASE Close
    BY <1>25, BoundsAssumption DEF Close, TypeOK
  <1>26. CASE Stop
    BY <1>26 DEF Stop, TypeOK
  <1>27. CASE Crash
    BY <1>27, BoundsAssumption DEF Crash, TypeOK, TaskStates
  <1>28. CASE Boot
    <2>1. PICK intact \in SUBSET {j \in JobIds : job[j].status = "running"} : MarkInterrupted(intact)
      BY <1>28 DEF Boot
    <2>2. remote' \in [JobIds -> RemoteStates]
      BY <2>1 DEF MarkInterrupted, TypeOK, RemoteStates
    <2>3. \A j \in JobIds : job'[j] \in JobRow \union {NoJob}
      <3> TAKE j \in JobIds
      <3>1. CASE job[j].status = "running"
        <4>1. job[j] \in JobRow
          BY <3>1, StatusExists, ExistsRow
        <4>2. \A s \in JobStatus : [job[j] EXCEPT !.status = s] \in JobRow
          BY <4>1 DEF JobRow
        <4>3. RecoveredStatus(j, remote', intact) \in JobStatus
          BY DEF RecoveredStatus, JobStatus
        <4>4. job'[j] = [job[j] EXCEPT !.status = RecoveredStatus(j, remote', intact)]
          BY <2>1, <3>1 DEF MarkInterrupted
        <4> QED
          BY <4>2, <4>3, <4>4
      <3>2. CASE job[j].status # "running"
        BY <2>1, <3>2 DEF MarkInterrupted, TypeOK
      <3> QED
        BY <3>1, <3>2
    <2>4. job' \in [JobIds -> JobRow \union {NoJob}]
      BY <2>1, <2>3 DEF MarkInterrupted
    <2>5. \A p \in Projects : project'[p] \in ProjectRow
      BY ZenonT(60), <2>1 DEF MarkInterrupted, TypeOK, ProjectRow, ProjectStatus, ShownStatus
    <2>6. project' = [p \in Projects |-> project'[p]]
      BY <2>1 DEF MarkInterrupted
    <2> QED
      BY <1>28, <2>2, <2>4, <2>5, <2>6 DEF Boot, TypeOK
  <1>29. ASSUME NEW j \in JobIds, CancelTask(j) PROVE TypeOK'
    BY <1>29 DEF CancelTask, To, TypeOK, TaskStates, Working, Outcomes, RemoteStates
  <1>30. CASE UNCHANGED vars
    BY <1>30 DEF vars, TypeOK
  <1> QED
    BY <1>1, <1>2, <1>3, <1>4, <1>5, <1>6, <1>7, <1>8, <1>9, <1>10, <1>11, <1>12, <1>13, <1>14,
       <1>15, <1>16, <1>17, <1>18, <1>19, <1>20, <1>21, <1>22, <1>23, <1>24, <1>25, <1>26, <1>27,
       <1>28, <1>29, <1>30
    DEF Next, Request, RunJob, Process

\* Every reachable state of the job model is well typed.
THEOREM TypeCorrect == Spec => []TypeOK
  BY TypeInit, TypeStep, PTL DEF Spec

-----------------------------------------------------------------------------
(* One generation at a time, for inputs that stay: OneActiveJob and        *)
(* ActiveJobInputsFrozen are inductive together with TypeOK.               *)

\* The inductive invariant.
Exclusive == TypeOK /\ OneActiveJob /\ ActiveJobInputsFrozen

\* A step is quiet when it activates no job, moves no active job to another
\* project or revision, and leaves the inputs of active jobs alone.
Quiet ==
    \A j \in JobIds :
        /\ IsActive(j)' => /\ IsActive(j)
                           /\ job'[j].project = job[j].project
                           /\ job'[j].revision = job[j].revision
        /\ IsActive(j)' => /\ project'[job[j].project].life = project[job[j].project].life
                           /\ project'[job[j].project].revision = project[job[j].project].revision

\* An active job has a row.
LEMMA ActiveExists ==
    ASSUME NEW j \in JobIds, IsActive(j)
    PROVE  Exists(j)
  BY NoJobFacts DEF IsActive, Active, Exists

\* The same after a step.
LEMMA ActiveExistsAfter ==
    ASSUME NEW j \in JobIds, IsActive(j)'
    PROVE  Exists(j)'
  BY NoJobFacts DEF IsActive, Active, Exists

\* A step that activates no job and moves no revision of an active job keeps Exclusive.
LEMMA QuietKeepsExclusive ==
    ASSUME Exclusive, Quiet
    PROVE  OneActiveJob' /\ ActiveJobInputsFrozen'
  <1>1. OneActiveJob'
    BY DEF Exclusive, Quiet, OneActiveJob
  <1>2. ActiveJobInputsFrozen'
    <2> SUFFICES ASSUME NEW j \in JobIds, IsActive(j)' PROVE InputsCurrent(j)'
      BY DEF ActiveJobInputsFrozen
    <2>1. InputsCurrent(j) /\ job'[j].project = job[j].project /\ job'[j].revision = job[j].revision
      BY DEF Exclusive, Quiet, ActiveJobInputsFrozen
    <2>2. Exists(j)'
      BY ActiveExistsAfter
    <2> QED
      BY <2>1, <2>2 DEF Quiet, InputsCurrent, Live
  <1> QED
    BY <1>1, <1>2

\* What create_pending_job's identity rule gives: the identity is free.
LEMMA NextJobIdFree ==
    ASSUME NEW j \in JobIds, NextJobId(j)
    PROVE  ~Exists(j) /\ j \notin receipts /\ remote[j] = "none" /\ ~artifact[j]
  <1>1. j \notin UsedIds
    BY DEF NextJobId, UsedIds, JobIds
  <1> QED
    BY <1>1 DEF UsedIds

\* A new job on a project that has no active one.
LEMMA CreateKeepsExclusive ==
    ASSUME Exclusive, NEW j \in JobIds, NEW p \in Projects, NEW kind \in Kinds,
           NEW r \in 1 .. MaxRevision,
           NextJobId(j), ~HasActiveProjectJob(p),
           job' = [job EXCEPT ![j] = PendingRow(p, kind, r)],
           project'[p].life = "live", project'[p].revision = r,
           \A q \in Projects \ {p} : project'[q] = project[q]
    PROVE  OneActiveJob' /\ ActiveJobInputsFrozen'
  <1>1. job'[j] = PendingRow(p, kind, r) /\ \A i \in JobIds \ {j} : job'[i] = job[i]
    BY DEF Exclusive, TypeOK
  <1>2. \A i \in JobIds \ {j} : IsActive(i) => job[i].project \in Projects \ {p}
    <2> TAKE i \in JobIds \ {j}
    <2> HAVE IsActive(i)
    <2> QED
      BY ActiveExists, ExistsRow DEF HasActiveProjectJob, JobsOf, Exclusive
  <1>3. OneActiveJob'
    BY <1>1, <1>2 DEF Exclusive, OneActiveJob, PendingRow, IsActive
  <1>4. ActiveJobInputsFrozen'
    <2> SUFFICES ASSUME NEW i \in JobIds, IsActive(i)' PROVE InputsCurrent(i)'
      BY DEF ActiveJobInputsFrozen
    <2>1. Exists(i)'
      BY ActiveExistsAfter
    <2>2. CASE i = j
      BY <1>1, <2>1, <2>2 DEF InputsCurrent, Live, PendingRow
    <2>3. CASE i # j
      <3>1. IsActive(i) /\ job'[i] = job[i]
        BY <1>1, <2>3 DEF IsActive
      <3>2. InputsCurrent(i) /\ project'[job[i].project] = project[job[i].project]
        BY <1>2, <2>3, <3>1 DEF Exclusive, ActiveJobInputsFrozen
      <3> QED
        BY <2>1, <3>1, <3>2 DEF InputsCurrent, Live
    <2> QED
      BY <2>2, <2>3
  <1> QED
    BY <1>3, <1>4

\* create_pending_job keeps Exclusive.
LEMMA CreatePendingKeepsExclusive ==
    ASSUME Exclusive, NEW j \in JobIds, NEW p \in Projects, NEW kind \in Kinds,
           NEW r \in 1 .. MaxRevision, MayCreate(p), CreatePendingJob(j, p, kind, r)
    PROVE  OneActiveJob' /\ ActiveJobInputsFrozen'
  <1>1. project \in [Projects -> ProjectRow] /\ project[p] \in ProjectRow
    BY DEF Exclusive, TypeOK
  <1>2. /\ project'[p] = [project[p] EXCEPT !.status = "generating", !.revision = r]
        /\ \A q \in Projects \ {p} : project'[q] = project[q]
    BY <1>1 DEF CreatePendingJob
  <1>3. project'[p].life = "live" /\ project'[p].revision = r
    BY <1>1, <1>2 DEF MayCreate, Live, ProjectRow
  <1> QED
    BY <1>2, <1>3, CreateKeepsExclusive DEF CreatePendingJob, MayCreate

\* cancel_job activates nothing and moves no inputs.
LEMMA CancelIsQuiet ==
    ASSUME TypeOK, NEW S \in SUBSET JobIds, CancelJobs(S)
    PROVE  Quiet
  <1> SUFFICES ASSUME NEW j \in JobIds, IsActive(j)'
               PROVE  /\ IsActive(j)
                      /\ job'[j].project = job[j].project
                      /\ job'[j].revision = job[j].revision
                      /\ project'[job[j].project].life = project[job[j].project].life
                      /\ project'[job[j].project].revision = project[job[j].project].revision
    BY DEF Quiet
  <1>1. \/ job'[j] = job[j]
        \/ job'[j] = [job[j] EXCEPT !.cancel = TRUE, !.status = "cancelled"]
        \/ job'[j] = [job[j] EXCEPT !.cancel = TRUE] /\ IsActive(j)
    BY DEF CancelJobs
  <1>2. IsActive(j)
    <2>1. IsActive(j) \/ job'[j] = job[j]
      BY DEF CancelJobs
    <2> QED
      BY <2>1 DEF IsActive
  <1>3. job[j] \in JobRow
    BY <1>2, ActiveExists, ExistsRow
  <1>4. job'[j].project = job[j].project /\ job'[j].revision = job[j].revision
    BY <1>1, <1>3 DEF JobRow
  <1>5. \A p \in Projects : project[p] \in ProjectRow
    BY DEF TypeOK
  <1>6. \A p \in Projects : /\ project'[p].life = project[p].life
                            /\ project'[p].revision = project[p].revision
    BY <1>5 DEF CancelJobs, ProjectRow
  <1> QED
    BY <1>2, <1>3, <1>4, <1>6 DEF JobRow

\* Every step keeps the invariant: it is quiet, or it creates a job, or it
\* leaves jobs and the inputs of projects as they are.
LEMMA ExclusiveStep == Exclusive /\ [Next]_vars => Exclusive'
  <1> SUFFICES ASSUME Exclusive, [Next]_vars PROVE OneActiveJob' /\ ActiveJobInputsFrozen'
    BY TypeStep DEF Exclusive
  <1> USE DEF Exclusive
  <1>rows. \A p \in Projects : project[p] \in ProjectRow
    BY DEF TypeOK
  <1>own. \A j \in JobIds : IsActive(j) => /\ job[j] \in JobRow
                                            /\ job[j].project \in Projects
                                            /\ Live(job[j].project)
                                            /\ HasActiveProjectJob(job[j].project)
    BY ActiveExists, ExistsRow
    DEF ActiveJobInputsFrozen, InputsCurrent, HasActiveProjectJob, JobsOf
  <1>quiet. Quiet => OneActiveJob' /\ ActiveJobInputsFrozen'
    BY QuietKeepsExclusive
  <1>same. ASSUME job' = job,
                  \A p \in Projects : HasActiveProjectJob(p) =>
                      /\ project'[p].life = project[p].life
                      /\ project'[p].revision = project[p].revision
           PROVE  OneActiveJob' /\ ActiveJobInputsFrozen'
    BY <1>same, <1>own, <1>quiet DEF Quiet, IsActive
  <1>frame. ASSUME job' = job, project' = project PROVE OneActiveJob' /\ ActiveJobInputsFrozen'
    BY <1>frame, <1>same
  <1>1. ASSUME NEW p \in Projects, CreateProject(p)
        PROVE  OneActiveJob' /\ ActiveJobInputsFrozen'
    <2>1. ~HasActiveProjectJob(p)
      BY <1>1, <1>own DEF CreateProject, HasActiveProjectJob, JobsOf, Live
    <2> QED
      BY <1>1, <2>1, <1>same DEF CreateProject, TypeOK
  <1>2. ASSUME NEW p \in Projects, QuickCreate(p)
        PROVE  OneActiveJob' /\ ActiveJobInputsFrozen'
    <2>1. ~HasActiveProjectJob(p)
      BY <1>2, <1>own DEF QuickCreate, HasActiveProjectJob, JobsOf, Live
    <2>2. PICK j \in JobIds : NextJobId(j) /\ job' = [job EXCEPT ![j] = PendingRow(p, "full", 1)]
      BY <1>2 DEF QuickCreate
    <2>3. project'[p] = NewProject("generating") /\ \A q \in Projects \ {p} : project'[q] = project[q]
      BY <1>2 DEF QuickCreate, TypeOK
    <2>4. project'[p].life = "live" /\ project'[p].revision = 1 /\ 1 \in 1 .. MaxRevision
      BY <2>3, BoundsAssumption DEF NewProject
    <2> QED
      BY <2>1, <2>2, <2>3, <2>4, CreateKeepsExclusive DEF Kinds
  <1>3. ASSUME NEW p \in Projects, ReviseProject(p)
        PROVE  OneActiveJob' /\ ActiveJobInputsFrozen'
    BY <1>3, <1>same DEF ReviseProject, TypeOK
  <1>4. ASSUME NEW p \in Projects, ReviseAndGenerate(p)
        PROVE  OneActiveJob' /\ ActiveJobInputsFrozen'
    <2>1. PICK j \in JobIds : CreatePendingJob(j, p, "full", project[p].revision + 1)
      BY <1>4 DEF ReviseAndGenerate
    <2>2. project[p].revision + 1 \in 1 .. MaxRevision
      BY <1>4, <1>rows, BoundsAssumption DEF ReviseAndGenerate, ProjectRow
    <2> QED
      BY <1>4, <2>1, <2>2, CreatePendingKeepsExclusive DEF ReviseAndGenerate, Kinds
  <1>5. ASSUME NEW p \in Projects, CancelProject(p)
        PROVE  OneActiveJob' /\ ActiveJobInputsFrozen'
    <2>1. JobsOf(p) \in SUBSET JobIds
      BY DEF JobsOf
    <2> QED
      BY <1>5, <2>1, <1>quiet, CancelIsQuiet DEF CancelProject
  <1>6. ASSUME NEW p \in Projects, DeleteProject(p)
        PROVE  OneActiveJob' /\ ActiveJobInputsFrozen'
    <2>1. \A j \in JobIds : IsActive(j)' => IsActive(j) /\ job'[j] = job[j] /\ job[j].project # p
      BY <1>6, ActiveExistsAfter DEF DeleteProject, JobsOf, IsActive, Exists, HasActiveProjectJob
    <2>2. \A q \in Projects \ {p} : project'[q] = project[q]
      BY <1>6 DEF DeleteProject, TypeOK
    <2> QED
      BY <2>1, <2>2, <1>own, <1>quiet DEF Quiet
  <1>7. ASSUME NEW p \in Projects, NEW kind \in Kinds,
               Enqueue(p, kind) \/ StartGeneration(p, kind)
        PROVE  OneActiveJob' /\ ActiveJobInputsFrozen'
    <2>1. MayCreate(p) /\ project[p].revision \in 1 .. MaxRevision
      BY <1>7, <1>rows DEF Enqueue, StartGeneration, ProjectRow
    <2>2. PICK j \in JobIds : CreatePendingJob(j, p, kind, project[p].revision)
      BY <1>7 DEF Enqueue, StartGeneration
    <2> QED
      BY <2>1, <2>2, CreatePendingKeepsExclusive
  <1>8. ASSUME NEW p \in Projects, NEW j \in JobIds, RestoreArtifact(p, j)
        PROVE  OneActiveJob' /\ ActiveJobInputsFrozen'
    BY <1>8, <1>same DEF RestoreArtifact, TypeOK
  <1>9. ASSUME NEW j \in JobIds, RetryGeneration(j)
        PROVE  OneActiveJob' /\ ActiveJobInputsFrozen'
    <2> DEFINE p == job[j].project
    <2>1. p \in Projects /\ job[j].kind \in Kinds
      BY <1>9, StatusExists, ExistsRow DEF RetryGeneration
    <2>2. MayCreate(p) /\ project[p].revision \in 1 .. MaxRevision
      BY <1>9, <2>1, <1>rows DEF RetryGeneration, ProjectRow
    <2>3. PICK i \in JobIds : CreatePendingJob(i, p, job[j].kind, project[p].revision)
      BY <1>9 DEF RetryGeneration
    <2> QED
      BY <2>1, <2>2, <2>3, CreatePendingKeepsExclusive
  <1>10. ASSUME NEW j \in JobIds, CancelGeneration(j)
         PROVE  OneActiveJob' /\ ActiveJobInputsFrozen'
    BY <1>10, <1>quiet, CancelIsQuiet DEF CancelGeneration
  <1>11. ASSUME NEW j \in JobIds, Claim(j)
         PROVE  OneActiveJob' /\ ActiveJobInputsFrozen'
    <2>1. IsActive(j) /\ job[j] \in JobRow
      BY <1>11, <1>own DEF Claim, IsActive, Active
    <2>2. PICK s \in JobStatus : job' = [job EXCEPT ![j].status = s]
      BY <1>11 DEF Claim, JobStatus
    <2>3. \A i \in JobIds : job'[i].project = job[i].project /\ job'[i].revision = job[i].revision
      BY <2>1, <2>2 DEF TypeOK, JobRow
    <2>4. \A i \in JobIds : IsActive(i)' => IsActive(i)
      BY <2>1, <2>2 DEF TypeOK, IsActive
    <2> QED
      BY <1>11, <2>3, <2>4, <1>quiet DEF Claim, Quiet
  <1>12. ASSUME NEW j \in JobIds, Settle(j)
         PROVE  OneActiveJob' /\ ActiveJobInputsFrozen'
    <2>1. CASE job' = job /\ project' = project
      BY <2>1, <1>frame
    <2>2. CASE Exists(j) /\ ~(job' = job /\ project' = project)
      <3>1. job[j] \in JobRow
        BY <2>2, ExistsRow
      <3>2. job' = [job EXCEPT ![j].status = SettledStatus(j)] /\ SettledStatus(j) \in Outcomes
        BY <1>12, <2>2 DEF Settle, SettledStatus, Outcomes
      <3>3. \A i \in JobIds : job'[i].project = job[i].project /\ job'[i].revision = job[i].revision
        BY <3>1, <3>2 DEF TypeOK, JobRow
      <3>4. \A i \in JobIds : IsActive(i)' => IsActive(i)
        BY <3>1, <3>2 DEF TypeOK, IsActive, Active, Outcomes, JobRow
      <3>5. \A p \in Projects : /\ project'[p].life = project[p].life
                                /\ project'[p].revision = project[p].revision
        BY <1>12, <2>2, <1>rows DEF Settle, TypeOK, ProjectRow
      <3> QED
        BY <3>3, <3>4, <3>5, <1>own, <1>quiet DEF Quiet
    <2> QED
      BY <1>12, <2>1, <2>2 DEF Settle
  <1>13. ASSUME NEW j \in JobIds, BeginStage(j) \/ FinishIntermediate(j)
         PROVE  OneActiveJob' /\ ActiveJobInputsFrozen'
    <2>1. \A p \in Projects : /\ project'[p].life = project[p].life
                              /\ project'[p].revision = project[p].revision
      BY <1>13, <1>rows DEF BeginStage, FinishIntermediate, TypeOK, ProjectRow
    <2> QED
      BY <1>13, <2>1, <1>same DEF BeginStage, FinishIntermediate
  <1>14. ASSUME NEW j \in JobIds, Publish(j)
         PROVE  OneActiveJob' /\ ActiveJobInputsFrozen'
    <2>1. CASE artifact[j]
      BY <1>14, <2>1, <1>frame DEF Publish
    <2>2. CASE ~artifact[j]
      <3>1. job[j] \in JobRow
        BY <1>14, ExistsRow DEF Publish
      <3>2. /\ job' = [job EXCEPT ![j].status = "completed"]
            /\ project' = [project EXCEPT ![job[j].project] =
                              [@ EXCEPT !.artifact = j, !.status = "completed"]]
        BY <1>14, <2>2 DEF Publish
      <3>3. \A i \in JobIds : job'[i].project = job[i].project /\ job'[i].revision = job[i].revision
        BY <3>1, <3>2 DEF TypeOK, JobRow
      <3>4. \A i \in JobIds : IsActive(i)' => IsActive(i)
        BY <3>1, <3>2 DEF TypeOK, IsActive, Active, JobRow
      <3>5. \A p \in Projects : /\ project'[p].life = project[p].life
                                /\ project'[p].revision = project[p].revision
        BY <3>2, <1>rows DEF TypeOK, ProjectRow
      <3> QED
        BY <3>3, <3>4, <3>5, <1>own, <1>quiet DEF Quiet
    <2> QED
      BY <2>1, <2>2
  <1>15. CASE Boot
    <2>1. PICK intact \in SUBSET {j \in JobIds : job[j].status = "running"} : MarkInterrupted(intact)
      BY <1>15 DEF Boot
    <2>2. \A p \in Projects : /\ project'[p].life = project[p].life
                              /\ project'[p].revision = project[p].revision
      BY <2>1, <1>rows DEF MarkInterrupted, ProjectRow
    <2>3. \A j \in JobIds : /\ job[j].status # "running" => job'[j] = job[j]
                            /\ job[j].status = "running" =>
                                 \E s \in JobStatus : job'[j] = [job[j] EXCEPT !.status = s]
      BY <2>1 DEF MarkInterrupted, RecoveredStatus, JobStatus
    <2>4. \A j \in JobIds : job[j].status = "running" => IsActive(j) /\ job[j] \in JobRow
      BY <1>own DEF IsActive, Active
    <2>5. \A j \in JobIds : /\ IsActive(j)' => IsActive(j)
                            /\ job'[j].project = job[j].project
                            /\ job'[j].revision = job[j].revision
      BY <2>3, <2>4 DEF IsActive, JobRow
    <2> QED
      BY <2>2, <2>5, <1>own, <1>quiet DEF Quiet
  <1>16. ASSUME NEW j \in JobIds,
                \/ Submit(j) \/ ClaimNothing(j) \/ Guard(j) \/ Fail(j) \/ PublishRefused(j)
                \/ RemoteCall(j) \/ RemoteAnswer(j) \/ RemoteLost(j) \/ RemoteUnrecorded(j)
                \/ RemoteRefused(j) \/ CancelTask(j) \/ RunnerCommitFails(j)
         PROVE  OneActiveJob' /\ ActiveJobInputsFrozen'
    BY <1>16, <1>frame
    DEF Submit, ClaimNothing, Guard, Fail, PublishRefused, RemoteCall, RemoteAnswer, RemoteLost,
        RemoteRefused, RemoteUnrecorded, CancelTask, RunnerCommitFails
  <1>17. CASE Close \/ Stop \/ Crash \/ UNCHANGED vars
    BY <1>17, <1>frame DEF Close, Stop, Crash, vars
  <1> QED
    BY <1>1, <1>2, <1>3, <1>4, <1>5, <1>6, <1>7, <1>8, <1>9, <1>10, <1>11, <1>12, <1>13, <1>14,
       <1>15, <1>16, <1>17
    DEF Next, Request, RunJob, Process

\* No two jobs of a project are ever active together, for any number of
\* projects, jobs, edits and restarts.
THEOREM OneActiveJobAlways == Spec => []OneActiveJob
  <1>1. Init => Exclusive
    BY TypeInit, NoJobFacts
    DEF Init, Exclusive, OneActiveJob, ActiveJobInputsFrozen, IsActive, Active
  <1> QED
    BY <1>1, ExclusiveStep, PTL DEF Spec, Exclusive

\* An active job's project lives and stays at the job's revision.
THEOREM ActiveJobInputsFrozenAlways == Spec => []ActiveJobInputsFrozen
  <1>1. Init => Exclusive
    BY TypeInit, NoJobFacts
    DEF Init, Exclusive, OneActiveJob, ActiveJobInputsFrozen, IsActive, Active
  <1> QED
    BY <1>1, ExclusiveStep, PTL DEF Spec, Exclusive


-----------------------------------------------------------------------------
(* Each job by itself *)

\* What holds of a job whatever the others do.
JobSafe(j) ==
    /\ JobConsistent(j)
    /\ Exists(j) /\ job[j].kind = "full" => (artifact[j] <=> job[j].status = "completed")
    /\ job[j].status = "completed" => ~job[j].cancel
    /\ HasUnresolvedCalls(j) => job[j].status \in Active \union {"unknown"}
    /\ Serving /\ ~CommitMayFail /\ job[j].status = "running" => task[j] \in Working

AllJobsSafe == \A j \in JobIds : JobSafe(j)

\* A job that a step leaves alone stays safe.
LEMMA UntouchedJobSafe ==
    ASSUME NEW i \in JobIds, JobSafe(i),
           job'[i] = job[i], task'[i] = task[i], remote'[i] = remote[i],
           artifact'[i] = artifact[i], receipts \subseteq receipts', Serving' => Serving,
           i \in submitting' => i \in submitting
    PROVE  JobSafe(i)'
  BY DEF JobSafe, JobConsistent, Exists, HasUnresolvedCalls

\* A job created under a new identity is safe.
LEMMA CreatedJobSafe ==
    ASSUME Exclusive, IdentitiesKept, AllJobsSafe, NEW j \in JobIds, NextJobId(j),
           NEW p \in Projects, NEW kind \in Kinds, NEW r \in 1 .. MaxRevision,
           job' = [job EXCEPT ![j] = PendingRow(p, kind, r)],
           receipts \subseteq receipts', "route" \notin Entries => j \in receipts',
           submitting' \subseteq submitting \union {j},
           UNCHANGED <<artifact, remote, task, server>>
    PROVE  AllJobsSafe'
  <1>1. job'[j] = PendingRow(p, kind, r) /\ \A i \in JobIds \ {j} : job'[i] = job[i]
    BY DEF Exclusive, TypeOK
  <1>2. \A i \in JobIds \ {j} : JobSafe(i)'
    BY <1>1, UntouchedJobSafe DEF AllJobsSafe, Serving
  <1>3. ~Exists(j) /\ j \notin receipts /\ remote[j] = "none" /\ ~artifact[j]
    BY NextJobIdFree
  <1>4. task[j] = "none"
    BY <1>3 DEF AllJobsSafe, JobSafe, JobConsistent
  <1>5. Exists(j)'
    BY <1>1 DEF Exists, PendingRow, NoJob
  <1>6. JobSafe(j)'
    BY <1>1, <1>3, <1>4, <1>5
    DEF JobSafe, JobConsistent, PendingRow, HasUnresolvedCalls, Unresolved, Working, Outcomes, Active
  <1> QED
    BY <1>2, <1>6 DEF AllJobsSafe

\* cancel_job: pending jobs are cancelled, running ones flagged.
LEMMA CancelKeepsJobsSafe ==
    ASSUME Exclusive, AllJobsSafe, NEW S \in SUBSET JobIds, CancelJobs(S),
           UNCHANGED <<receipts, artifact, remote, task, submitting, server>>
    PROVE  AllJobsSafe'
  <1> SUFFICES ASSUME NEW j \in JobIds PROVE JobSafe(j)'
    BY DEF AllJobsSafe
  <1>1. JobSafe(j)
    BY DEF AllJobsSafe
  <1>2. CASE job'[j] = job[j]
    BY <1>1, <1>2, UntouchedJobSafe DEF Serving
  <1>3. CASE job'[j] # job[j]
    <2>1. IsActive(j)
      BY <1>3 DEF CancelJobs
    <2>2. job[j] \in JobRow
      BY <2>1, ActiveExists, ExistsRow DEF Exclusive
    <2>3. CASE job[j].status = "pending"
      <3>1. job'[j] = [job[j] EXCEPT !.cancel = TRUE, !.status = "cancelled"]
        BY <1>3, <2>3 DEF CancelJobs
      <3>2. Exists(j) /\ Exists(j)'
        BY <2>2, <3>1, NoJobFacts DEF Exists, JobRow, NoJob
      <3> QED
        BY <1>1, <2>2, <2>3, <3>1, <3>2
        DEF JobSafe, JobConsistent, HasUnresolvedCalls, JobRow, Working, Outcomes
    <2>4. CASE job[j].status = "running"
      <3>1. job'[j] = [job[j] EXCEPT !.cancel = TRUE]
        BY <1>3, <2>4 DEF CancelJobs
      <3>2. Exists(j) /\ Exists(j)'
        BY <2>2, <3>1, NoJobFacts DEF Exists, JobRow, NoJob
      <3> QED
        BY <1>1, <2>2, <2>4, <3>1, <3>2
        DEF JobSafe, JobConsistent, HasUnresolvedCalls, JobRow, Working, Outcomes, Active, Serving
    <2> QED
      BY <2>1, <2>3, <2>4 DEF IsActive, Active
  <1> QED
    BY <1>2, <1>3

\* A step that rewrites the status of one job, and nothing else of its row.
LEMMA RewrittenJobSafe ==
    ASSUME Exclusive, AllJobsSafe, NEW j \in JobIds, Exists(j), NEW s \in JobStatus,
           job' = [job EXCEPT ![j].status = s],
           \A i \in JobIds \ {j} : task'[i] = task[i] /\ artifact'[i] = artifact[i],
           UNCHANGED <<receipts, remote, submitting, server>>,
           artifact'[j] => job[j].kind = "full",
           task'[j] \in Working =>
               \/ s = "running" /\ (task'[j] = "completed" => job[j].kind = "part")
               \/ s = "completed" /\ task'[j] = "completed",
           s # "pending",
           job[j].kind = "full" => (artifact'[j] <=> s = "completed"),
           s = "completed" => ~job[j].cancel,
           HasUnresolvedCalls(j) => s \in Active \union {"unknown"},
           Serving /\ ~CommitMayFail /\ s = "running" => task'[j] \in Working
    PROVE  AllJobsSafe'
  <1>1. job[j] \in JobRow /\ JobSafe(j)
    BY ExistsRow DEF Exclusive, AllJobsSafe
  <1>2. job'[j] = [job[j] EXCEPT !.status = s] /\ \A i \in JobIds \ {j} : job'[i] = job[i]
    BY DEF Exclusive, TypeOK
  <1>3. \A i \in JobIds \ {j} : JobSafe(i)'
    BY <1>2, UntouchedJobSafe DEF AllJobsSafe, Serving
  <1>4. /\ job'[j].status = s /\ job'[j].kind = job[j].kind /\ job'[j].cancel = job[j].cancel
        /\ Exists(j)'
    BY <1>1, <1>2, NoJobFacts DEF JobRow, Exists, NoJob
  <1>5. JobSafe(j)'
    BY <1>1, <1>4 DEF JobSafe, JobConsistent, HasUnresolvedCalls, Serving
  <1> QED
    BY <1>3, <1>5 DEF AllJobsSafe

\* A step that moves only the task of one job, or its remote work.
LEMMA MovedTaskSafe ==
    ASSUME Exclusive, AllJobsSafe, NEW j \in JobIds,
           UNCHANGED <<job, receipts, artifact, server>>, submitting' \subseteq submitting,
           \A i \in JobIds \ {j} : task'[i] = task[i] /\ remote'[i] = remote[i],
           task'[j] # "none" => task[j] # "none" \/ j \in submitting \/ Exists(j),
           task'[j] = "completed" => task[j] = "completed" \/ job[j].kind = "part",
           task'[j] \in Working => task[j] \in Working,
           task[j] \in Working /\ Serving /\ ~CommitMayFail /\ job[j].status = "running" =>
               task'[j] \in Working,
           task[j] = "completed" => task'[j] \in {"completed", "none"},
           remote'[j] # "none" => remote[j] # "none" \/ Exists(j),
           HasUnresolvedCalls(j)' => HasUnresolvedCalls(j) \/ job[j].status = "running"
    PROVE  AllJobsSafe'
  <1>1. JobSafe(j)
    BY DEF AllJobsSafe
  <1>2. \A i \in JobIds \ {j} : JobSafe(i)'
    BY UntouchedJobSafe DEF AllJobsSafe, Serving
  <1>3. JobSafe(j)'
    BY <1>1 DEF JobSafe, JobConsistent, HasUnresolvedCalls, Serving, Exists, Active, Working, Outcomes
  <1> QED
    BY <1>2, <1>3 DEF AllJobsSafe

\* mark_interrupted_operation_jobs.
LEMMA BootKeepsJobsSafe ==
    ASSUME Exclusive, AllJobsSafe, \A j \in JobIds : task[j] = "none", Boot
    PROVE  AllJobsSafe'
  <1>1. PICK intact \in SUBSET {j \in JobIds : job[j].status = "running"} : MarkInterrupted(intact)
    BY DEF Boot
  <1> SUFFICES ASSUME NEW j \in JobIds PROVE JobSafe(j)'
    BY DEF AllJobsSafe
  <1>2. JobSafe(j) /\ task'[j] = "none" /\ artifact'[j] = artifact[j] /\ receipts' = receipts
       /\ submitting' = submitting
    BY DEF AllJobsSafe, Boot
  <1>3. remote'[j] = IF HasUnresolvedCalls(j) THEN "unknown" ELSE remote[j]
    BY <1>1 DEF MarkInterrupted
  <1>4. CASE job[j].status = "running"
    <2>1. Exists(j) /\ job[j] \in JobRow
      BY <1>4, StatusExists, ExistsRow DEF Exclusive
    <2> DEFINE s == RecoveredStatus(j, remote', intact)
    <2>2. job'[j] = [job[j] EXCEPT !.status = s]
      BY <1>1, <1>4 DEF MarkInterrupted
    <2>3. /\ s \in {"unknown", "cancelled", "pending", "failed"}
          /\ s # "unknown" => ~HasUnresolvedCalls(j)'
          /\ s = "pending" => ~job[j].cancel
      BY DEF RecoveredStatus, HasUnresolvedCalls
    <2> HIDE DEF s
    <2>4. /\ job'[j].status = s /\ job'[j].kind = job[j].kind /\ job'[j].cancel = job[j].cancel
          /\ Exists(j)'
      BY <2>1, <2>2, NoJobFacts DEF JobRow, Exists, NoJob
    <2> QED
      BY <1>2, <1>3, <1>4, <2>1, <2>3, <2>4
      DEF JobSafe, JobConsistent, HasUnresolvedCalls, Unresolved, Working, Outcomes
  <1>5. CASE job[j].status # "running"
    <2>1. job'[j] = job[j]
      BY <1>1, <1>5 DEF MarkInterrupted
    <2> QED
      BY <1>2, <1>3, <1>5, <2>1
      DEF JobSafe, JobConsistent, Exists, HasUnresolvedCalls, Unresolved, Working, Outcomes
  <1> QED
    BY <1>4, <1>5

\* No job exists at first, so each one is safe.
LEMMA JobsSafeInit == Init => AllJobsSafe
  BY NoJobFacts
  DEF Init, AllJobsSafe, JobSafe, JobConsistent, Exists, HasUnresolvedCalls, Unresolved, Working,
      Outcomes

\* While the process is down no task exists.
NoTaskDown == server = "down" => \A j \in JobIds : task[j] = "none"

\* Every step keeps every job safe.
LEMMA JobsSafeStep ==
    ASSUME Exclusive, NoTaskDown, IdentitiesKept, AllJobsSafe, [Next]_vars
    PROVE  AllJobsSafe'
  <1> USE DEF Exclusive
  <1>frame. ASSUME UNCHANGED <<job, receipts, artifact, remote, task, submitting>>, Serving' => Serving
            PROVE  AllJobsSafe'
    BY <1>frame, UntouchedJobSafe DEF AllJobsSafe
  <1>safe. \A j \in JobIds : JobSafe(j)
    BY DEF AllJobsSafe
  <1>1. ASSUME NEW p \in Projects, CreateProject(p) \/ ReviseProject(p) PROVE AllJobsSafe'
    BY <1>1, <1>frame DEF CreateProject, ReviseProject, Serving
  <1>2. ASSUME NEW p \in Projects, QuickCreate(p) PROVE AllJobsSafe'
    <2>1. PICK j \in JobIds : NextJobId(j) /\ job' = [job EXCEPT ![j] = PendingRow(p, "full", 1)]
      BY <1>2 DEF QuickCreate
    <2>2. 1 \in 1 .. MaxRevision /\ "full" \in Kinds
      BY BoundsAssumption DEF Kinds
    <2> QED
      BY <1>2, <2>1, <2>2, CreatedJobSafe DEF QuickCreate
  <1>3. ASSUME NEW p \in Projects, ReviseAndGenerate(p) PROVE AllJobsSafe'
    <2>1. PICK j \in JobIds : CreatePendingJob(j, p, "full", project[p].revision + 1)
                              /\ receipts' = receipts \union {j}
      BY <1>3 DEF ReviseAndGenerate
    <2>2. project[p].revision + 1 \in 1 .. MaxRevision /\ "full" \in Kinds
      BY <1>3, BoundsAssumption DEF ReviseAndGenerate, TypeOK, ProjectRow, Kinds
    <2> QED
      BY <1>3, <2>1, <2>2, CreatedJobSafe DEF ReviseAndGenerate, CreatePendingJob
  <1>4. ASSUME NEW p \in Projects, CancelProject(p) PROVE AllJobsSafe'
    <2>1. JobsOf(p) \in SUBSET JobIds
      BY DEF JobsOf
    <2> QED
      BY <1>4, <2>1, CancelKeepsJobsSafe DEF CancelProject
  <1>5. ASSUME NEW p \in Projects, DeleteProject(p) PROVE AllJobsSafe'
    <2> SUFFICES ASSUME NEW j \in JobIds PROVE JobSafe(j)'
      BY DEF AllJobsSafe
    <2>1. CASE j \in JobsOf(p)
      <3>1. job'[j] = NoJob /\ ~artifact'[j] /\ remote'[j] = "none" /\ task' = task
            /\ receipts' = receipts /\ submitting' = submitting
        BY <1>5, <2>1 DEF DeleteProject
      <3>2. ~Exists(j)' /\ job'[j].status = "none" /\ Exists(j)
        BY <2>1, <3>1, NoJobFacts DEF Exists, JobsOf
      <3>3. j \in receipts
        BY <1>5, <1>safe, <3>2 DEF JobSafe, JobConsistent, IdentitiesKept, DeleteProject
      <3> QED
        BY <3>1, <3>2, <3>3 DEF JobSafe, JobConsistent, HasUnresolvedCalls, Unresolved
    <2>2. CASE j \notin JobsOf(p)
      <3>1. job'[j] = job[j] /\ artifact'[j] = artifact[j] /\ remote'[j] = remote[j]
        BY <1>5, <2>2 DEF DeleteProject, TypeOK
      <3> QED
        BY <1>5, <1>safe, <3>1, UntouchedJobSafe DEF DeleteProject, Serving
    <2> QED
      BY <2>1, <2>2
  <1>6. ASSUME NEW p \in Projects, NEW kind \in Kinds,
               Enqueue(p, kind) \/ StartGeneration(p, kind)
        PROVE  AllJobsSafe'
    <2>1. project[p].revision \in 1 .. MaxRevision
      BY DEF TypeOK, ProjectRow
    <2>2. PICK j \in JobIds : /\ CreatePendingJob(j, p, kind, project[p].revision)
                              /\ "route" \notin Entries => receipts' = receipts \union {j}
                              /\ receipts \subseteq receipts'
      BY <1>6 DEF Enqueue, StartGeneration
    <2> QED
      BY <1>6, <2>1, <2>2, CreatedJobSafe DEF Enqueue, StartGeneration, CreatePendingJob
  <1>7. ASSUME NEW p \in Projects, NEW j \in JobIds, RestoreArtifact(p, j) PROVE AllJobsSafe'
    BY <1>7, <1>frame DEF RestoreArtifact, Serving
  <1>8. ASSUME NEW j \in JobIds, RetryGeneration(j) PROVE AllJobsSafe'
    <2> DEFINE p == job[j].project
    <2>1. p \in Projects /\ job[j].kind \in Kinds
      BY <1>8, StatusExists, ExistsRow DEF RetryGeneration
    <2>2. project[p].revision \in 1 .. MaxRevision
      BY <2>1 DEF TypeOK, ProjectRow
    <2>3. PICK i \in JobIds : /\ CreatePendingJob(i, p, job[j].kind, project[p].revision)
                              /\ receipts' = receipts \union {i}
      BY <1>8 DEF RetryGeneration
    <2> QED
      BY <1>8, <2>1, <2>2, <2>3, CreatedJobSafe DEF RetryGeneration, CreatePendingJob
  <1>9. ASSUME NEW j \in JobIds, CancelGeneration(j) PROVE AllJobsSafe'
    BY <1>9, CancelKeepsJobsSafe DEF CancelGeneration
  <1>10. ASSUME NEW j \in JobIds, Claim(j) PROVE AllJobsSafe'
    <2>1. Exists(j) /\ job[j] \in JobRow /\ ~job[j].cancel /\ ~HasUnresolvedCalls(j) /\ ~artifact[j]
      BY <1>10, <1>safe, StatusExists, ExistsRow DEF Claim, JobSafe, JobConsistent
    <2>2. job' = [job EXCEPT ![j].status = "running"] /\ task' = [task EXCEPT ![j] = "work"]
      BY <1>10, <2>1 DEF Claim
    <2> QED
      BY <1>10, <2>1, <2>2, RewrittenJobSafe
      DEF Claim, TypeOK, JobStatus, Active, Working, Outcomes
  <1>11. ASSUME NEW j \in JobIds, Settle(j) PROVE AllJobsSafe'
    <2>1. CASE ~Exists(j) \/ job[j].status = "completed"
      <3>1. job[j].status # "running" /\ job' = job
        BY <1>11, <2>1, NoJobFacts DEF Settle, Exists
      <3> QED
        BY <1>11, <3>1, MovedTaskSafe DEF Settle, TypeOK, Working, Outcomes, HasUnresolvedCalls
    <2>2. CASE Exists(j) /\ job[j].status # "completed"
      <3> DEFINE s == SettledStatus(j)
      <3>1. /\ task[j] \in Working /\ job[j].status = "running"
            /\ task[j] = "completed" => job[j].kind = "part"
        BY <1>11, <1>safe, <2>2 DEF Settle, JobSafe, JobConsistent, Working
      <3>2. /\ s \in JobStatus \ {"pending", "running"}
            /\ s = "completed" => ~job[j].cancel /\ task[j] = "completed"
            /\ HasUnresolvedCalls(j) => s = "unknown"
        BY <1>11 DEF Settle, SettledStatus, Outcomes, JobStatus
      <3>3. job' = [job EXCEPT ![j].status = s] /\ task' = [task EXCEPT ![j] = "none"]
        BY <1>11, <2>2 DEF Settle
      <3>4. artifact[j] => job[j].kind = "full"
        BY <1>safe DEF JobSafe, JobConsistent
      <3>5. job[j].kind = "full" => ~artifact[j] /\ s # "completed"
        BY <1>safe, <2>2, <3>1, <3>2 DEF JobSafe
      <3>6. \A i \in JobIds \ {j} : task'[i] = task[i] /\ task'[j] = "none"
        BY <3>3 DEF TypeOK
      <3>7. task'[j] \notin Working
        BY <3>3 DEF TypeOK, Working, Outcomes
      <3>8. UNCHANGED <<receipts, artifact, remote, submitting, server>>
        BY <1>11 DEF Settle
      <3> HIDE DEF s
      <3> QED
        BY <2>2, <3>2, <3>3, <3>4, <3>5, <3>6, <3>7, <3>8, RewrittenJobSafe
    <2> QED
      BY <2>1, <2>2
  <1>12. ASSUME NEW j \in JobIds, Publish(j) PROVE AllJobsSafe'
    <2>1. Exists(j) /\ task[j] = "work" /\ job[j].kind = "full"
      BY <1>12 DEF Publish, Runs
    <2>2. job[j].status = "running" /\ ~artifact[j]
      BY <1>safe, <2>1 DEF JobSafe, JobConsistent, Working
    <2>3. /\ job' = [job EXCEPT ![j].status = "completed"]
          /\ artifact' = [artifact EXCEPT ![j] = TRUE]
          /\ task' = [task EXCEPT ![j] = "completed"]
          /\ ~job[j].cancel /\ ~HasUnresolvedCalls(j)
          /\ UNCHANGED <<receipts, remote, submitting, server>>
      BY <1>12, <2>2 DEF Publish, PublishChecks, To
    <2>4. "completed" \in JobStatus
      BY DEF JobStatus
    <2> QED
      BY <2>1, <2>3, <2>4, RewrittenJobSafe DEF TypeOK
  <1>13. ASSUME NEW j \in JobIds,
                \/ Submit(j) \/ ClaimNothing(j) \/ Guard(j) \/ Fail(j) \/ PublishRefused(j)
                \/ BeginStage(j) \/ FinishIntermediate(j) \/ RemoteUnrecorded(j)
                \/ RemoteRefused(j) \/ RunnerCommitFails(j)
         PROVE  AllJobsSafe'
    <2>1. CASE Submit(j)
      <3>1. job[j].status = "pending" => Exists(j)
        BY StatusExists
      <3> QED
        BY <2>1, <3>1, MovedTaskSafe DEF Submit, TypeOK, Working, Outcomes, HasUnresolvedCalls
    <2>2. CASE ClaimNothing(j) \/ RunnerCommitFails(j)
      BY <2>2, MovedTaskSafe
      DEF ClaimNothing, RunnerCommitFails, TypeOK, Working, Outcomes, HasUnresolvedCalls
    <2>3. CASE Guard(j) \/ Fail(j)
      BY <2>3, MovedTaskSafe DEF Guard, Fail, Runs, To, TypeOK, Working, Outcomes, HasUnresolvedCalls
    <2>4. CASE PublishRefused(j) \/ RemoteUnrecorded(j) \/ RemoteRefused(j)
      BY <2>4, MovedTaskSafe
      DEF PublishRefused, RemoteUnrecorded, RemoteRefused, Runs, Waits, To, TypeOK, Working, Outcomes,
          HasUnresolvedCalls, Unresolved
    <2>5. CASE BeginStage(j) \/ FinishIntermediate(j)
      BY <2>5, MovedTaskSafe
      DEF BeginStage, FinishIntermediate, Runs, To, TypeOK, Working, Outcomes, HasUnresolvedCalls
    <2> QED
      BY <1>13, <2>1, <2>2, <2>3, <2>4, <2>5
  <1>14. ASSUME NEW j \in JobIds, RemoteCall(j) PROVE AllJobsSafe'
    <2>1. Exists(j) /\ job[j].status = "running" /\ task[j] = "work"
      BY <1>14, <1>safe DEF RemoteCall, Runs, JobSafe, JobConsistent, Working
    <2> QED
      BY <1>14, <2>1, MovedTaskSafe DEF RemoteCall, Runs, To, TypeOK, Working, Outcomes, HasUnresolvedCalls
  <1>15. ASSUME NEW j \in JobIds, RemoteAnswer(j) \/ RemoteLost(j) PROVE AllJobsSafe'
    BY <1>15, MovedTaskSafe
    DEF RemoteAnswer, RemoteLost, Waits, To, TypeOK, Working, Outcomes, HasUnresolvedCalls, Unresolved
  <1>16. ASSUME NEW j \in JobIds, CancelTask(j) PROVE AllJobsSafe'
    BY <1>16, MovedTaskSafe
    DEF CancelTask, Waits, To, TypeOK, Working, Outcomes, HasUnresolvedCalls, Unresolved, Serving
  <1>17. CASE Boot
    BY <1>17, BootKeepsJobsSafe DEF Boot, NoTaskDown
  <1>18. CASE Crash
    <2> SUFFICES ASSUME NEW j \in JobIds PROVE JobSafe(j)'
      BY DEF AllJobsSafe
    <2> QED
      BY <1>18, <1>safe
      DEF Crash, JobSafe, JobConsistent, Exists, HasUnresolvedCalls, Working, Outcomes, Serving
  <1>19. CASE Close \/ Stop \/ UNCHANGED vars
    BY <1>19, <1>frame DEF Close, Stop, vars, Serving
  <1> QED
    BY <1>1, <1>2, <1>3, <1>4, <1>5, <1>6, <1>7, <1>8, <1>9, <1>10, <1>11, <1>12, <1>13, <1>14,
       <1>15, <1>16, <1>17, <1>18, <1>19
    DEF Next, Request, RunJob, Process

-----------------------------------------------------------------------------
(* How jobs end *)

\* No task outlives its process.
LEMMA NoTaskDownStep == TypeOK /\ NoTaskDown /\ [Next]_vars => NoTaskDown'
  <1> SUFFICES ASSUME TypeOK, NoTaskDown, [Next]_vars, server' = "down", NEW j \in JobIds
               PROVE  task'[j] = "none"
    BY DEF NoTaskDown
  <1>1. CASE server = "down"
    <2>1. \A i \in JobIds : task[i] = "none"
      BY <1>1 DEF NoTaskDown
    <2>2. UNCHANGED task
      BY <1>1
      DEF Next, Request, RunJob, Process, vars, Serving, Alive, Runs, Waits,
          CreateProject, QuickCreate, ReviseProject, ReviseAndGenerate, CancelProject,
          DeleteProject, Enqueue, StartGeneration, RestoreArtifact, RetryGeneration,
          CancelGeneration, Submit, Claim, ClaimNothing, Settle, Guard, BeginStage,
          FinishIntermediate, Fail, Publish, PublishRefused, RemoteCall, RemoteAnswer, RemoteLost, RemoteRefused,
          RemoteUnrecorded, RunnerCommitFails, Close, Stop, Crash, Boot, CancelTask
    <2> QED
      BY <2>1, <2>2
  <1>2. CASE server # "down"
    <2>1. Stop \/ Crash
      BY <1>2
      DEF Next, Request, RunJob, Process, vars,
          CreateProject, QuickCreate, ReviseProject, ReviseAndGenerate, CancelProject,
          DeleteProject, Enqueue, StartGeneration, RestoreArtifact, RetryGeneration,
          CancelGeneration, Submit, Claim, ClaimNothing, Settle, Guard, BeginStage,
          FinishIntermediate, Fail, Publish, PublishRefused, RemoteCall, RemoteAnswer, RemoteLost, RemoteRefused,
          RemoteUnrecorded, RunnerCommitFails, Close, Boot, CancelTask
    <2> QED
      BY <2>1 DEF Stop, Crash
  <1> QED
    BY <1>1, <1>2

\* The inductive invariant about how jobs end.
History == Exclusive /\ NoTaskDown /\ AllJobsSafe

\* The joint invariant holds at first.
LEMMA HistoryInit == Init => History
  BY TypeInit, NoJobFacts, JobsSafeInit
  DEF Init, History, NoTaskDown, Exclusive, OneActiveJob, ActiveJobInputsFrozen, IsActive, Active

\* Every step keeps the joint invariant as long as identities are kept.
LEMMA HistoryStep == IdentitiesKept /\ History /\ [Next]_vars => History'
  BY ExclusiveStep, NoTaskDownStep, JobsSafeStep DEF History, Exclusive

\* The joint invariant always holds.
LEMMA HistoryAlways == IdentitiesKept /\ Spec => []History
  <1>1. SUFFICES ASSUME IdentitiesKept PROVE Spec => []History
    OBVIOUS
  <1> QED
    BY <1>1, HistoryInit, HistoryStep, PTL DEF Spec

\* A job that publishes has its video exactly when it is completed.
THEOREM PublishedIffCompletedAlways == IdentitiesKept /\ Spec => []PublishedIffCompleted
  <1>1. History => PublishedIffCompleted
    BY DEF History, AllJobsSafe, JobSafe, PublishedIffCompleted
  <1> QED
    BY <1>1, HistoryAlways, PTL

\* No job with an accepted cancellation ever succeeds.
THEOREM CancelledNeverSucceedsAlways == IdentitiesKept /\ Spec => []CancelledNeverSucceeds
  <1>1. History => CancelledNeverSucceeds
    BY DEF History, AllJobsSafe, JobSafe, CancelledNeverSucceeds
  <1> QED
    BY <1>1, HistoryAlways, PTL

\* Remote work without a known outcome never hides behind an ended job.
THEOREM OpenRemoteWorkIsVisibleAlways == IdentitiesKept /\ Spec => []OpenRemoteWorkIsVisible
  <1>1. History => OpenRemoteWorkIsVisible
    BY DEF History, AllJobsSafe, JobSafe, OpenRemoteWorkIsVisible
  <1> QED
    BY <1>1, HistoryAlways, PTL

\* The end of a job tells the truth (JobRegistry.submit, publish_artifact).
THEOREM EndsAreTruthfulAlways == IdentitiesKept /\ Spec => []EndsAreTruthful
  <1>1. History => EndsAreTruthful
    BY DEF History, AllJobsSafe, JobSafe, EndsAreTruthful, PublishedIffCompleted,
           CancelledNeverSucceeds, OpenRemoteWorkIsVisible
  <1> QED
    BY <1>1, HistoryAlways, PTL

\* While requests are served every running row has its task.
THEOREM RunningHasTaskAlways == IdentitiesKept /\ Spec => []RunningHasTask
  <1>1. History => RunningHasTask
    BY DEF History, AllJobsSafe, JobSafe, RunningHasTask
  <1> QED
    BY <1>1, HistoryAlways, PTL

\* A step of a consistent state rewrites the status of active jobs only.
LEMMA EndedStep ==
    ASSUME History, [Next]_vars, NEW j \in JobIds, Exists(j), ~IsActive(j), Exists(j)'
    PROVE  job'[j].status = job[j].status
  <1> USE DEF History, Exclusive
  <1>type. TypeOK /\ \A i \in JobIds : JobSafe(i)
    BY DEF AllJobsSafe
  <1>ended. job[j].status \notin {"pending", "running"}
    BY DEF IsActive, Active
  <1>new. ASSUME NEW i \in JobIds, NextJobId(i), NEW row, job' = [job EXCEPT ![i] = row]
          PROVE  job'[j].status = job[j].status
    BY <1>new, NextJobIdFree DEF TypeOK
  <1>1. ASSUME NEW p \in Projects, QuickCreate(p) PROVE job'[j].status = job[j].status
    BY <1>1, <1>new DEF QuickCreate
  <1>2. ASSUME NEW p \in Projects, NEW kind \in Kinds,
               ReviseAndGenerate(p) \/ Enqueue(p, kind) \/ StartGeneration(p, kind)
        PROVE  job'[j].status = job[j].status
    <2>1. PICK i \in JobIds : \E r : CreatePendingJob(i, p, kind, r) \/ CreatePendingJob(i, p, "full", r)
      BY <1>2 DEF ReviseAndGenerate, Enqueue, StartGeneration
    <2> QED
      BY <2>1, <1>new DEF CreatePendingJob
  <1>3. ASSUME NEW i \in JobIds, RetryGeneration(i) PROVE job'[j].status = job[j].status
    BY <1>3, <1>new DEF RetryGeneration, CreatePendingJob
  <1>4. ASSUME NEW S, CancelJobs(S) PROVE job'[j].status = job[j].status
    BY <1>4 DEF CancelJobs
  <1>5. ASSUME NEW p \in Projects, CancelProject(p) PROVE job'[j].status = job[j].status
    BY <1>4, <1>5 DEF CancelProject
  <1>6. ASSUME NEW i \in JobIds, CancelGeneration(i) PROVE job'[j].status = job[j].status
    BY <1>4, <1>6 DEF CancelGeneration
  <1>7. ASSUME NEW p \in Projects, DeleteProject(p) PROVE job'[j].status = job[j].status
    BY <1>7 DEF DeleteProject, Exists
  <1>8. ASSUME NEW i \in JobIds, Claim(i) PROVE job'[j].status = job[j].status
    BY <1>8, <1>ended, <1>type DEF Claim, TypeOK
  <1>9. ASSUME NEW i \in JobIds, Settle(i) PROVE job'[j].status = job[j].status
    <2>1. CASE i = j
      BY <1>9, <1>ended, <1>type, <2>1 DEF Settle, JobSafe, JobConsistent, Working
    <2>2. CASE i # j
      BY <1>9, <1>type, <2>2 DEF Settle, TypeOK
    <2> QED
      BY <2>1, <2>2
  <1>10. ASSUME NEW i \in JobIds, Publish(i) PROVE job'[j].status = job[j].status
    BY <1>10, <1>ended, <1>type DEF Publish, PublishChecks, TypeOK
  <1>11. CASE Boot
    BY <1>11, <1>ended DEF Boot, MarkInterrupted
  <1>12. CASE UNCHANGED job
    BY <1>12
  <1> QED
    BY <1>1, <1>2, <1>3, <1>5, <1>6, <1>7, <1>8, <1>9, <1>10, <1>11, <1>12
    DEF Next, Request, RunJob, Process, vars,
        CreateProject, ReviseProject, RestoreArtifact, Submit, ClaimNothing, Guard, BeginStage,
        FinishIntermediate, Fail, PublishRefused, RemoteCall, RemoteAnswer, RemoteLost, RemoteRefused,
        RemoteUnrecorded, RunnerCommitFails, Close, Stop, Crash, CancelTask, Kinds

\* An ended job keeps its status until its row is deleted.
THEOREM EndedIsFinalAlways == IdentitiesKept /\ Spec => EndedIsFinal
  <1> DEFINE Kept == \A j \in JobIds : Exists(j) /\ ~IsActive(j) /\ Exists(j)' =>
                         job'[j].status = job[j].status
  <1>1. History /\ [Next]_vars => [Kept]_vars
    BY EndedStep
  <1>2. EndedIsFinal <=> [][Kept]_vars
    BY DEF EndedIsFinal
  <1> HIDE DEF Kept
  <1> QED
    BY <1>1, <1>2, HistoryAlways, PTL DEF Spec

-----------------------------------------------------------------------------
(* In which order jobs stand *)

\* A job that keeps its project from starting another one.
Blocks(j) == job[j].status \in Active \union {"unknown"}

\* Jobs belong to projects that are there, the one that blocks its project is the last of it,
\* and a current video is a publication of its project.
InOrder ==
    /\ \A j \in JobIds : Exists(j) => Live(job[j].project)
    /\ \A j \in JobIds : Blocks(j) => \A i \in JobsOf(job[j].project) : i <= j
    /\ CurrentVideoIsPublished

\* A step that rewrites rows of jobs without letting one block anew, or a success go,
\* and that shows no other video than a published one.
LEMMA RewritingKeepsOrder ==
    ASSUME TypeOK, InOrder,
           \A j \in JobIds :
               \/ job'[j] = job[j]
               \/ /\ Exists(j) /\ Exists(j)' /\ job'[j].project = job[j].project
                  /\ Blocks(j)' => Blocks(j)
                  /\ job[j].status = "completed" => job'[j].status = "completed",
           \A j \in JobIds : artifact[j] => artifact'[j],
           \A p \in Projects :
               /\ project'[p].life = project[p].life
               /\ \/ project'[p].artifact = project[p].artifact
                  \/ \E a \in JobIds : /\ project'[p].artifact = a /\ artifact'[a]
                                       /\ job'[a].status = "completed" /\ job'[a].project = p
    PROVE  InOrder'
  <1>1. \A j \in JobIds : /\ Exists(j)' => Exists(j) /\ job'[j].project = job[j].project
                          /\ Blocks(j)' => Blocks(j) /\ job'[j].project = job[j].project
                          /\ job[j].status = "completed" => /\ job'[j].status = "completed"
                                                            /\ job'[j].project = job[j].project
    BY DEF Exists, Blocks
  <1>2. \A j \in JobIds : Exists(j)' => Live(job[j].project)'
    BY <1>1, ExistsRow DEF InOrder, Live
  <1>3. \A j \in JobIds : Blocks(j)' => \A i \in JobsOf(job[j].project)' : i <= j
    BY <1>1 DEF InOrder, JobsOf
  <1>4. CurrentVideoIsPublished'
    <2> SUFFICES ASSUME NEW p \in Projects, project'[p].artifact # 0
                 PROVE  LET a == project'[p].artifact
                        IN  artifact'[a] /\ job'[a].status = "completed" /\ job'[a].project = p
      BY DEF CurrentVideoIsPublished
    <2>1. CASE project'[p].artifact = project[p].artifact
      <3>1. project[p].artifact \in JobIds
        BY <2>1 DEF TypeOK, ProjectRow, JobIds
      <3> QED
        BY <1>1, <2>1, <3>1 DEF InOrder, CurrentVideoIsPublished
    <2>2. CASE project'[p].artifact # project[p].artifact
      BY <2>2
    <2> QED
      BY <2>1, <2>2
  <1> QED
    BY <1>2, <1>3, <1>4 DEF InOrder

\* A job that is created in a project that nothing blocks becomes its last one.
LEMMA CreatingKeepsOrder ==
    ASSUME TypeOK, InOrder, NEW j \in JobIds, NextJobId(j), NEW p \in Projects,
           NEW kind \in Kinds, NEW r \in 1 .. MaxRevision,
           job' = [job EXCEPT ![j] = PendingRow(p, kind, r)], UNCHANGED artifact,
           \A i \in JobsOf(p) : ~Blocks(i),
           project'[p].life = "live" /\ project'[p].artifact \in {0, project[p].artifact},
           \A q \in Projects \ {p} : project'[q] = project[q]
    PROVE  InOrder'
  <1>1. job'[j] = PendingRow(p, kind, r) /\ \A i \in JobIds \ {j} : job'[i] = job[i]
    BY DEF TypeOK
  <1>2. \A i \in JobIds : Exists(i) => i < j
    BY DEF NextJobId, UsedIds
  <1>3. ~artifact[j]
    BY NextJobIdFree
  <1>4. \A i \in JobIds : Exists(i)' => Live(job[i].project)'
    BY <1>1, ExistsRow DEF InOrder, Live, PendingRow, Exists
  <1>5. ASSUME NEW i \in JobIds, Blocks(i)', NEW k \in JobsOf(job[i].project)'
        PROVE  k <= i
    <2>1. CASE i = j
      BY <1>1, <1>2, <2>1 DEF JobsOf, Exists, JobIds
    <2>2. CASE i # j
      <3>1. Blocks(i) /\ job'[i] = job[i] /\ Exists(i)
        BY <1>1, <1>5, <2>2, StatusExists DEF Blocks, Active
      <3>2. job[i].project # p
        BY <3>1 DEF JobsOf
      <3>3. k # j /\ k \in JobIds
        BY <1>1, <1>5, <3>1, <3>2 DEF JobsOf, PendingRow
      <3>4. k \in JobsOf(job[i].project)
        BY <1>1, <1>5, <3>1, <3>3 DEF JobsOf, Exists
      <3> QED
        BY <3>1, <3>4 DEF InOrder
    <2> QED
      BY <2>1, <2>2
  <1>6. CurrentVideoIsPublished'
    <2> SUFFICES ASSUME NEW q \in Projects, project'[q].artifact # 0
                 PROVE  LET a == project'[q].artifact
                        IN  artifact'[a] /\ job'[a].status = "completed" /\ job'[a].project = q
      BY DEF CurrentVideoIsPublished
    <2>1. project'[q].artifact = project[q].artifact
      OBVIOUS
    <2>2. project[q].artifact \in JobIds
      BY <2>1 DEF TypeOK, ProjectRow, JobIds
    <2> QED
      BY <1>1, <1>3, <2>1, <2>2 DEF InOrder, CurrentVideoIsPublished
  <1> QED
    BY <1>4, <1>5, <1>6 DEF InOrder

\* What create_pending_job accepts.
LEMMA AcceptedKeepsOrder ==
    ASSUME TypeOK, InOrder, NEW p \in Projects, MayCreate(p), NEW j \in JobIds,
           NEW kind \in Kinds, NEW r \in 1 .. MaxRevision, CreatePendingJob(j, p, kind, r),
           UNCHANGED artifact
    PROVE  InOrder'
  <1>1. \A i \in JobsOf(p) : ~Blocks(i)
    BY DEF MayCreate, HasActiveProjectJob, Blocks, IsActive
  <1>2. /\ project'[p].life = "live" /\ project'[p].artifact = project[p].artifact
        /\ \A q \in Projects \ {p} : project'[q] = project[q]
    BY DEF CreatePendingJob, MayCreate, Live, TypeOK, ProjectRow
  <1>3. NextJobId(j) /\ job' = [job EXCEPT ![j] = PendingRow(p, kind, r)]
    BY DEF CreatePendingJob
  <1> QED
    BY <1>1, <1>2, <1>3, CreatingKeepsOrder

\* No job, and no video, is there at first.
LEMMA InOrderInit == Init => InOrder
  BY NoJobFacts DEF Init, InOrder, Exists, Blocks, Active, CurrentVideoIsPublished

\* Every step keeps the order.
LEMMA InOrderStep ==
    ASSUME History, InOrder, [Next]_vars
    PROVE  InOrder'
  <1> USE DEF History, Exclusive
  <1>safe. \A i \in JobIds : JobSafe(i)
    BY DEF AllJobsSafe
  <1>alone. ASSUME NEW j \in JobIds, Exists(j), NEW s, job' = [job EXCEPT ![j].status = s],
                   s \in Active \union {"unknown"} => Blocks(j), job[j].status # "completed"
            PROVE  \A i \in JobIds :
                     \/ job'[i] = job[i]
                     \/ /\ Exists(i) /\ Exists(i)' /\ job'[i].project = job[i].project
                        /\ Blocks(i)' => Blocks(i)
                        /\ job[i].status = "completed" => job'[i].status = "completed"
    <2>1. job[j] \in JobRow
      BY <1>alone, ExistsRow
    <2>2. job'[j] = [job[j] EXCEPT !.status = s] /\ \A i \in JobIds \ {j} : job'[i] = job[i]
      BY <1>alone DEF TypeOK
    <2>3. job'[j].status = s /\ job'[j].project = job[j].project /\ Exists(j)'
      BY <2>1, <2>2, NoJobFacts DEF JobRow, Exists, NoJob
    <2> QED
      BY <1>alone, <2>2, <2>3 DEF Blocks
  <1>1. ASSUME NEW p \in Projects, CreateProject(p) PROVE InOrder'
    <2>1. /\ project'[p].life = "live" /\ project'[p].artifact = 0 /\ job' = job /\ artifact' = artifact
          /\ \A q \in Projects \ {p} : project'[q] = project[q]
      BY <1>1 DEF CreateProject, NewProject, TypeOK
    <2>2. \A j \in JobIds : Exists(j)' => Live(job[j].project)'
      BY <2>1, ExistsRow DEF InOrder, Live, Exists
    <2>3. \A j \in JobIds : Blocks(j)' => \A i \in JobsOf(job[j].project)' : i <= j
      BY <2>1 DEF InOrder, Blocks, JobsOf, Exists
    <2>4. CurrentVideoIsPublished'
      BY <2>1 DEF InOrder, CurrentVideoIsPublished
    <2> QED
      BY <2>2, <2>3, <2>4 DEF InOrder
  <1>2. ASSUME NEW p \in Projects, QuickCreate(p) PROVE InOrder'
    <2>1. PICK j \in JobIds : NextJobId(j) /\ job' = [job EXCEPT ![j] = PendingRow(p, "full", 1)]
      BY <1>2 DEF QuickCreate
    <2>2. 1 \in 1 .. MaxRevision /\ "full" \in Kinds
      BY BoundsAssumption DEF Kinds
    <2>3. JobsOf(p) = {}
      BY <1>2 DEF QuickCreate, InOrder, JobsOf, Live
    <2>4. /\ project'[p].life = "live" /\ project'[p].artifact = 0
          /\ \A q \in Projects \ {p} : project'[q] = project[q]
      BY <1>2 DEF QuickCreate, NewProject, TypeOK
    <2> QED
      BY <1>2, <2>1, <2>2, <2>3, <2>4, CreatingKeepsOrder DEF QuickCreate
  <1>3. ASSUME NEW p \in Projects, ReviseAndGenerate(p) PROVE InOrder'
    <2>1. PICK j \in JobIds : CreatePendingJob(j, p, "full", project[p].revision + 1)
      BY <1>3 DEF ReviseAndGenerate
    <2>2. project[p].revision + 1 \in 1 .. MaxRevision /\ "full" \in Kinds
      BY <1>3, BoundsAssumption DEF ReviseAndGenerate, TypeOK, ProjectRow, Kinds
    <2> QED
      BY <1>3, <2>1, <2>2, AcceptedKeepsOrder DEF ReviseAndGenerate
  <1>4. ASSUME NEW p \in Projects, NEW kind \in Kinds,
               Enqueue(p, kind) \/ StartGeneration(p, kind)
        PROVE  InOrder'
    <2>1. project[p].revision \in 1 .. MaxRevision
      BY DEF TypeOK, ProjectRow
    <2>2. PICK j \in JobIds : CreatePendingJob(j, p, kind, project[p].revision)
      BY <1>4 DEF Enqueue, StartGeneration
    <2> QED
      BY <1>4, <2>1, <2>2, AcceptedKeepsOrder DEF Enqueue, StartGeneration
  <1>5. ASSUME NEW j \in JobIds, RetryGeneration(j) PROVE InOrder'
    <2> DEFINE p == job[j].project
    <2>1. p \in Projects /\ job[j].kind \in Kinds
      BY <1>5, StatusExists, ExistsRow DEF RetryGeneration
    <2>2. project[p].revision \in 1 .. MaxRevision
      BY <2>1 DEF TypeOK, ProjectRow
    <2>3. MayCreate(p) /\ \E i \in JobIds : CreatePendingJob(i, p, job[j].kind, project[p].revision)
      BY <1>5 DEF RetryGeneration
    <2>4. UNCHANGED artifact
      BY <1>5 DEF RetryGeneration
    <2> HIDE DEF p
    <2> QED
      BY <2>1, <2>2, <2>3, <2>4, AcceptedKeepsOrder
  <1>6. ASSUME NEW S, CancelJobs(S), UNCHANGED artifact PROVE InOrder'
    <2>1. ASSUME NEW j \in JobIds, job'[j] # job[j]
          PROVE  /\ Exists(j) /\ Exists(j)' /\ job'[j].project = job[j].project
                 /\ Blocks(j) /\ job[j].status # "completed"
      <3>1. IsActive(j)
        BY <1>6, <2>1 DEF CancelJobs
      <3>2. job[j] \in JobRow /\ Exists(j)
        BY <3>1, ActiveExists, ExistsRow
      <3>3. \/ job'[j] = [job[j] EXCEPT !.cancel = TRUE, !.status = "cancelled"]
            \/ job'[j] = [job[j] EXCEPT !.cancel = TRUE]
        BY <1>6, <2>1 DEF CancelJobs
      <3>4. job'[j] \in JobRow /\ job'[j].project = job[j].project
        BY <3>2, <3>3 DEF JobRow, JobStatus
      <3> QED
        BY <3>1, <3>2, <3>4, NoJobFacts DEF Exists, Blocks, IsActive, Active
    <2>2. \A p \in Projects : /\ project'[p].life = project[p].life
                              /\ project'[p].artifact = project[p].artifact
      BY <1>6 DEF CancelJobs, TypeOK, ProjectRow
    <2> QED
      BY <1>6, <2>1, <2>2, RewritingKeepsOrder
  <1>7. ASSUME (\E p \in Projects : CancelProject(p)) \/ (\E j \in JobIds : CancelGeneration(j))
        PROVE  InOrder'
    BY <1>6, <1>7 DEF CancelProject, CancelGeneration
  <1>8. ASSUME NEW p \in Projects, DeleteProject(p) PROVE InOrder'
    <2>1. \A j \in JobIds : /\ Exists(j)' => Exists(j) /\ job'[j] = job[j] /\ job[j].project # p
                            /\ Blocks(j)' => Blocks(j) /\ job'[j] = job[j]
                            /\ job[j].project # p => job'[j] = job[j] /\ artifact'[j] = artifact[j]
      BY <1>8, NoJobFacts DEF DeleteProject, JobsOf, Exists, Blocks, Active, TypeOK
    <2>2. /\ project'[p].artifact = 0
          /\ \A q \in Projects \ {p} : project'[q] = project[q]
      BY <1>8 DEF DeleteProject, TypeOK, ProjectRow
    <2>3. \A j \in JobIds : Exists(j)' => Live(job[j].project)'
      BY <2>1, <2>2, ExistsRow DEF InOrder, Live
    <2>4. \A j \in JobIds : Blocks(j)' => \A i \in JobsOf(job[j].project)' : i <= j
      BY <2>1 DEF InOrder, JobsOf
    <2>5. CurrentVideoIsPublished'
      <3> SUFFICES ASSUME NEW q \in Projects, project'[q].artifact # 0
                   PROVE  LET a == project'[q].artifact
                          IN  artifact'[a] /\ job'[a].status = "completed" /\ job'[a].project = q
        BY DEF CurrentVideoIsPublished
      <3>1. q # p /\ project'[q] = project[q]
        BY <2>2
      <3>2. project[q].artifact \in JobIds
        BY <3>1 DEF TypeOK, ProjectRow, JobIds
      <3> QED
        BY <2>1, <3>1, <3>2 DEF InOrder, CurrentVideoIsPublished
    <2> QED
      BY <2>3, <2>4, <2>5 DEF InOrder
  <1>9. ASSUME NEW p \in Projects, NEW j \in JobIds, RestoreArtifact(p, j) PROVE InOrder'
    <2>1. artifact[j] /\ job[j].project = p /\ UNCHANGED <<job, artifact>>
      BY <1>9 DEF RestoreArtifact
    <2>2. job[j].status = "completed"
      BY <1>safe, <2>1 DEF JobSafe, JobConsistent
    <2>3. /\ project'[p].artifact = j /\ project'[p].life = project[p].life
          /\ \A q \in Projects \ {p} : project'[q] = project[q]
      BY <1>9 DEF RestoreArtifact, TypeOK, ProjectRow
    <2> QED
      BY <2>1, <2>2, <2>3, RewritingKeepsOrder
  <1>10. ASSUME NEW j \in JobIds, Claim(j) PROVE InOrder'
    <2>1. Exists(j) /\ job[j].status = "pending" /\ ~job[j].cancel
      BY <1>10, <1>safe, StatusExists DEF Claim, JobSafe, JobConsistent
    <2>2. job' = [job EXCEPT ![j].status = "running"] /\ UNCHANGED <<project, artifact>>
      BY <1>10, <2>1 DEF Claim
    <2>3. Blocks(j)
      BY <2>1 DEF Blocks, Active
    <2> QED
      BY <1>alone, <2>1, <2>2, <2>3, RewritingKeepsOrder
  <1>11. ASSUME NEW j \in JobIds, Settle(j), Exists(j), job[j].status # "completed" PROVE InOrder'
    <2>1. job[j].status = "running"
      BY <1>11, <1>safe DEF Settle, JobSafe, JobConsistent, Working
    <2>2. job' = [job EXCEPT ![j].status = SettledStatus(j)] /\ UNCHANGED artifact
      BY <1>11 DEF Settle
    <2>3. Blocks(j)
      BY <2>1 DEF Blocks, Active
    <2>4. \A p \in Projects : /\ project'[p].life = project[p].life
                              /\ project'[p].artifact = project[p].artifact
      BY <1>11 DEF Settle, TypeOK, ProjectRow
    <2> QED
      BY <1>11, <1>alone, <2>2, <2>3, <2>4, RewritingKeepsOrder
  <1>12. ASSUME NEW j \in JobIds, Publish(j), ~artifact[j] PROVE InOrder'
    <2>1. Exists(j) /\ job[j].status = "running" /\ job[j].project \in Projects
      BY <1>12, ExistsRow DEF Publish, PublishChecks
    <2>2. /\ job' = [job EXCEPT ![j].status = "completed"]
          /\ artifact' = [artifact EXCEPT ![j] = TRUE]
          /\ project' = [project EXCEPT ![job[j].project] =
                            [@ EXCEPT !.artifact = j, !.status = "completed"]]
      BY <1>12 DEF Publish
    <2>3. Blocks(j)
      BY <2>1 DEF Blocks, Active
    <2>4. \A i \in JobIds : artifact[i] => artifact'[i]
      BY <2>2 DEF TypeOK
    <2>5. artifact'[j] /\ job'[j].status = "completed" /\ job'[j].project = job[j].project
      <3>1. job[j] \in JobRow
        BY <2>1, ExistsRow
      <3> QED
        BY <2>2, <3>1 DEF TypeOK, JobRow
    <2>6. \A p \in Projects : /\ project'[p].life = project[p].life
                              /\ \/ project'[p].artifact = project[p].artifact
                                 \/ p = job[j].project /\ project'[p].artifact = j
      BY <2>1, <2>2 DEF TypeOK, ProjectRow
    <2>7. "completed" \notin Active \union {"unknown"}
      BY DEF Active
    <2> QED
      BY <1>alone, <2>1, <2>2, <2>4, <2>5, <2>6, <2>7, RewritingKeepsOrder
  <1>13. CASE Boot
    <2>1. PICK intact : MarkInterrupted(intact)
      BY <1>13 DEF Boot
    <2>2. ASSUME NEW j \in JobIds, job'[j] # job[j]
          PROVE  /\ Exists(j) /\ Exists(j)' /\ job'[j].project = job[j].project
                 /\ Blocks(j) /\ job[j].status # "completed"
      <3>1. job[j].status = "running" /\ \E s : job'[j] = [job[j] EXCEPT !.status = s]
        BY <2>1, <2>2 DEF MarkInterrupted
      <3>2. job[j] \in JobRow /\ Exists(j)
        BY <3>1, StatusExists, ExistsRow
      <3>3. job'[j].project = job[j].project /\ job'[j] # NoJob
        BY <3>1, <3>2 DEF JobRow, NoJob
      <3> QED
        BY <3>1, <3>2, <3>3 DEF Exists, Blocks, Active
    <2>3. \A p \in Projects : /\ project'[p].life = project[p].life
                              /\ project'[p].artifact = project[p].artifact
      BY <2>1 DEF MarkInterrupted, TypeOK, ProjectRow
    <2>4. UNCHANGED artifact
      BY <1>13 DEF Boot
    <2> QED
      BY <2>2, <2>3, <2>4, RewritingKeepsOrder
  <1>14. ASSUME UNCHANGED <<job, artifact>>,
                \A p \in Projects : /\ project'[p].life = project[p].life
                                    /\ project'[p].artifact = project[p].artifact
         PROVE  InOrder'
    BY <1>14, RewritingKeepsOrder
  <1>15. ASSUME NEW p \in Projects, ReviseProject(p) PROVE InOrder'
    BY <1>14, <1>15 DEF ReviseProject, TypeOK, ProjectRow
  <1>16. ASSUME NEW j \in JobIds, BeginStage(j) \/ FinishIntermediate(j) PROVE InOrder'
    <2>1. \A p \in Projects : /\ project'[p].life = project[p].life
                              /\ project'[p].artifact = project[p].artifact
      BY <1>16 DEF BeginStage, FinishIntermediate, TypeOK, ProjectRow
    <2> QED
      BY <1>14, <1>16, <2>1 DEF BeginStage, FinishIntermediate
  <1>17. ASSUME UNCHANGED <<project, job, artifact>> PROVE InOrder'
    BY <1>14, <1>17
  <1>18. ASSUME NEW j \in JobIds,
                \/ Submit(j) \/ ClaimNothing(j) \/ RunnerCommitFails(j) \/ Guard(j) \/ Fail(j)
                \/ PublishRefused(j) \/ RemoteCall(j) \/ RemoteAnswer(j) \/ RemoteLost(j)
                \/ RemoteRefused(j) \/ RemoteUnrecorded(j) \/ CancelTask(j)
                \/ Settle(j) /\ ~(Exists(j) /\ job[j].status # "completed")
                \/ Publish(j) /\ artifact[j]
         PROVE  InOrder'
    BY <1>17, <1>18
    DEF Submit, ClaimNothing, RunnerCommitFails, Guard, Fail, PublishRefused, RemoteCall,
        RemoteAnswer, RemoteLost, RemoteRefused, RemoteUnrecorded, CancelTask, Settle, Publish
  <1>19. CASE Close \/ Stop \/ Crash \/ UNCHANGED vars
    BY <1>17, <1>19 DEF Close, Stop, Crash, vars
  <1> QED
    BY <1>1, <1>2, <1>3, <1>4, <1>5, <1>7, <1>8, <1>9, <1>10, <1>11, <1>12, <1>13, <1>15, <1>16,
       <1>18, <1>19
    DEF Next, Request, RunJob, Process

\* The order always holds.
LEMMA InOrderAlways == IdentitiesKept /\ Spec => []InOrder
  <1>1. History /\ InOrder /\ [Next]_vars => InOrder'
    BY InOrderStep
  <1> QED
    BY <1>1, InOrderInit, HistoryAlways, PTL DEF Spec

\* After an unknown outcome its project starts nothing more (create_pending_job).
THEOREM UnknownIsLastAlways == IdentitiesKept /\ Spec => []UnknownIsLast
  <1>1. History /\ InOrder => UnknownIsLast
    BY StatusExists DEF History, Exclusive, InOrder, UnknownIsLast, Blocks
  <1> QED
    BY <1>1, HistoryAlways, InOrderAlways, PTL

\* The current video of a project is one that its own completed job published.
THEOREM CurrentVideoIsPublishedAlways == IdentitiesKept /\ Spec => []CurrentVideoIsPublished
  <1>1. InOrder => CurrentVideoIsPublished
    BY DEF InOrder
  <1> QED
    BY <1>1, InOrderAlways, PTL

\* Tasks, rows, videos and remote calls of a job fit each other, and no other job of its
\* project comes after an active one.
THEOREM JobsConsistentAlways == IdentitiesKept /\ Spec => []JobsConsistent
  <1>1. History /\ InOrder => JobsConsistent
    BY DEF History, AllJobsSafe, JobSafe, InOrder, Blocks, IsActive, JobsConsistent
  <1> QED
    BY <1>1, HistoryAlways, InOrderAlways, PTL
\* However jobs, tasks, receipts, videos and deletions are interleaved, they fit each other.
THEOREM JobsStayInOrderAlways == IdentitiesKept /\ Spec => []JobsStayInOrder
  <1>1. TypeOK /\ JobsConsistent /\ UnknownIsLast /\ CurrentVideoIsPublished => JobsStayInOrder
    BY DEF JobsStayInOrder
  <1> QED
    BY <1>1, TypeCorrect, JobsConsistentAlways, UnknownIsLastAlways, CurrentVideoIsPublishedAlways, PTL
=============================================================================
