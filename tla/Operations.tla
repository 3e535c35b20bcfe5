---------------------------- MODULE Operations ----------------------------
(***************************************************************************)
(* The operation core and the settings history: what a request does that   *)
(* is delivered late, twice, after the project changed or after it was     *)
(* deleted, next to the routes that change the same project.  Every        *)
(* handler writes inside one BEGIN IMMEDIATE transaction and keeps nothing *)
(* in memory, so an action is a handler and a crash only loses answers.    *)
(* One setting, the subtitle size, stands for the configuration.           *)
(***************************************************************************)
EXTENDS Naturals, FiniteSets

CONSTANTS
    RequestIds,     \* identifiers that clients choose
    NoReceipt,      \* no row in operation_requests
    MaxProject,     \* bound on project identities
    MaxLives,       \* bound on the projects of one identity; the code makes one
    MaxJob,         \* bound on job identities
    MaxRevision,    \* bound on the revision of a project
    MaxSize,        \* largest subtitle size that validates
    MaxIssued       \* bound on the requests that clients issue

ASSUME BoundsAssumption ==
    /\ MaxProject \in Nat \ {0} /\ MaxLives \in Nat /\ MaxJob \in Nat
    /\ MaxRevision \in Nat \ {0} /\ MaxSize \in Nat \ {0}

VARIABLES
    project,    \* projects, and project_identities
    versions,   \* settings_revisions
    jobs,       \* generation_jobs
    receipts,   \* operation_requests
    issued,     \* requests that clients have sent; each may arrive any number of times
    replies,    \* answers that have left
    past        \* history: every state the settings of a project have been in

vars == <<project, versions, jobs, receipts, issued, replies, past>>

ProjectIds == 1 .. MaxProject
JobIds == 1 .. MaxJob
Sizes == 1 .. MaxSize
Revisions == 1 .. MaxRevision
Lives == {"unborn", "live", "deleted"}
JobStatus == {"active", "ended", "unknown"}

Live(p) == project[p].life = "live"
IsSettled(p) == \A j \in jobs : j.project = p => j.status = "ended"
HasActiveJob(p) == \E j \in jobs : j.project = p /\ j.status = "active"
HasUnknownJob(p) == \E j \in jobs : j.project = p /\ j.status = "unknown"

\* A request: its content is what canonical_request compares, "seen" (history)
\* tells the project its client looked at from a later one of the same identity.
Operations == {"set", "adjust", "restore", "start"}
Contents == [project : ProjectIds, op : Operations, arg : Nat, base : Revisions,
             generate : BOOLEAN]
Requests == [id : RequestIds, project : ProjectIds, op : Operations, arg : Nat,
             base : Revisions, generate : BOOLEAN, seen : Nat]

\* An acknowledgement ("job" is 0 without a job), and the row that keeps it.
Results == [project : ProjectIds, base : Revisions, revision : Revisions, size : Sizes,
            job : JobIds \union {0}]
Receipts == [content : Contents, result : Results, seen : Nat, applied : Nat]

ASSUME ReceiptAssumption == NoReceipt \notin Receipts

\* allocate_project_id: above every identity any table names.
NamedProjects ==
    {p \in ProjectIds : project[p].life # "unborn"}
        \union {receipts[id].result.project : id \in {i \in RequestIds : receipts[i] # NoReceipt}}
        \union {v.project : v \in versions}

\* The number after the largest of S.
IsAfter(n, S) == (\A m \in S : m < n) /\ (n = 1 \/ n - 1 \in S)

\* Mutation of NextProjectId: only rows of projects count.
NextProjectIdOfRows(p) == IsAfter(p, {n \in ProjectIds : Live(n)})
NextProjectId(p) == IsAfter(p, NamedProjects)

\* Mutation of NextJobId: only rows of jobs count.
NextJobIdOfRows(n) == IsAfter(n, {j.id : j \in jobs})

\* create_pending_job: the identity is above those of rows and of receipts.
NextJobId(n) ==
    IsAfter(n, {j.id : j \in jobs}
                 \union {receipts[id].result.job : id \in {i \in RequestIds : receipts[i] # NoReceipt}})

-----------------------------------------------------------------------------
(* settings_history and project_settings *)

Version(p, rev, size, from) == [project |-> p, revision |-> rev, size |-> size, from |-> from]

\* record_settings retains the first configuration recorded for a revision.
Recorded(rows, row) ==
    IF \E v \in rows : v.project = row.project /\ v.revision = row.revision
    THEN rows
    ELSE rows \union {row}

\* Mutation of WithBaseline: a job leaves the history alone.
WithoutBaseline(p) == versions

WithBaseline(p) == Recorded(versions, Version(p, project[p].revision, project[p].size, 0))

\* "born" numbers the projects of one identity.
State(p, born, rev, size) == [project |-> p, born |-> born, revision |-> rev, size |-> size]
Remember(p, rev, size) == past' = past \union {State(p, project[p].born, rev, size)}

\* A restore is recorded even when the values already match ("from" is 0 otherwise).
NewRevision(p, size, from) ==
    IF size # project[p].size \/ from # 0 THEN project[p].revision + 1 ELSE project[p].revision

\* Mutation of ApplyProjectSettings: the baseline is recorded after the assignment.
ApplyBaselineLate(p, size, from) ==
    LET rev == NewRevision(p, size, from) IN
    /\ rev <= MaxRevision
    /\ project' = [project EXCEPT ![p].revision = rev, ![p].size = size]
    /\ versions' = Recorded(Recorded(versions, Version(p, project[p].revision, size, 0)),
                            Version(p, rev, size, from))
    /\ Remember(p, rev, size)

ApplyProjectSettings(p, size, from) ==
    LET rev == NewRevision(p, size, from) IN
    /\ rev <= MaxRevision
    /\ project' = [project EXCEPT ![p].revision = rev, ![p].size = size]
    /\ versions' = Recorded(WithBaseline(p), Version(p, rev, size, from))
    /\ Remember(p, rev, size)

-----------------------------------------------------------------------------
(* Jobs, as far as they hold up writers and pin what they will render *)

CreatePendingJob(n, p, rev, size) ==
    /\ ~HasActiveJob(p) /\ ~HasUnknownJob(p)
    /\ NextJobId(n)
    /\ jobs' = jobs \union
         {[id |-> n, project |-> p, revision |-> rev, size |-> size, status |-> "active"]}

\* The runner closes the job; a call whose outcome is open makes it unknown.
EndJob(j, status) ==
    /\ j.status = "active"
    /\ status \in {"ended", "unknown"}
    /\ jobs' = (jobs \ {j}) \union {[j EXCEPT !.status = status]}
    /\ UNCHANGED <<project, versions, receipts, issued, replies, past>>

-----------------------------------------------------------------------------
(* OperationService.execute *)

Content(q) == [project |-> q.project, op |-> q.op, arg |-> q.arg, base |-> q.base,
               generate |-> q.generate]

Reply(q, result) == replies' = replies \union {[id |-> q.id, content |-> Content(q), result |-> result]}

\* Mutation of SaveReceipt: only a change is worth a receipt.
SaveReceiptOfChange(q, rev, size, jobId) ==
    LET result == [project |-> q.project, base |-> q.base, revision |-> rev, size |-> size,
                   job |-> jobId] IN
    /\ receipts' = IF rev = q.base THEN receipts
                   ELSE [receipts EXCEPT ![q.id] =
                          [content |-> Content(q), result |-> result,
                           seen |-> q.seen, applied |-> project[q.project].born]]
    /\ Reply(q, result)
    /\ UNCHANGED issued

\* The receipt and the acknowledgement; "applied" (history) is the project written.
SaveReceipt(q, rev, size, jobId) ==
    LET result == [project |-> q.project, base |-> q.base, revision |-> rev, size |-> size,
                   job |-> jobId] IN
    /\ receipts' = [receipts EXCEPT ![q.id] =
                     [content |-> Content(q), result |-> result,
                      seen |-> q.seen, applied |-> project[q.project].born]]
    /\ Reply(q, result)
    /\ UNCHANGED issued

\* Mutation of Ready: the revision the client saw is not compared.
ReadyAtAnyRevision(q) ==
    /\ receipts[q.id] = NoReceipt
    /\ Live(q.project)
    /\ ~HasActiveJob(q.project)

\* Mutation of Ready: the receipt is not looked up first.
ReadyAgain(q) ==
    /\ Live(q.project)
    /\ ~HasActiveJob(q.project)
    /\ q.base = project[q.project].revision

\* No receipt yet, and the project is there, editable, and as the client saw it.
Ready(q) ==
    /\ receipts[q.id] = NoReceipt
    /\ Live(q.project)
    /\ ~HasActiveJob(q.project)
    /\ q.base = project[q.project].revision

\* A delta counts from the value found under the writer lock.
ResolvedSize(q) == IF q.op = "adjust" THEN project[q.project].size + q.arg ELSE q.arg

\* subtitle-font-size.set and .adjust, settings.update: with "generate" the
\* change, the job and the receipt are one transaction.
ChangeSettings(q) ==
    LET p == q.project
        size == ResolvedSize(q)
    IN /\ q.op \in {"set", "adjust"}
       /\ Ready(q)
       /\ size \in Sizes
       /\ ApplyProjectSettings(p, size, 0)
       /\ IF q.generate
          THEN \E n \in JobIds :
                 /\ CreatePendingJob(n, p, NewRevision(p, size, 0), size)
                 /\ SaveReceipt(q, NewRevision(p, size, 0), size, n)
          ELSE SaveReceipt(q, NewRevision(p, size, 0), size, 0) /\ UNCHANGED jobs

RestoreSettings(q) ==
    /\ q.op = "restore"
    /\ Ready(q)
    /\ \E v \in versions :
         /\ v.project = q.project /\ v.revision = q.arg
         /\ ApplyProjectSettings(q.project, v.size, v.revision)
         /\ SaveReceipt(q, NewRevision(q.project, v.size, v.revision), v.size, 0)
    /\ UNCHANGED jobs

StartGeneration(q) ==
    LET p == q.project IN
    /\ q.op = "start"
    /\ Ready(q)
    /\ versions' = WithBaseline(p)
    /\ \E n \in JobIds :
         /\ CreatePendingJob(n, p, project[p].revision, project[p].size)
         /\ SaveReceipt(q, project[p].revision, project[p].size, n)
    /\ UNCHANGED <<project, past>>

\* find_replay, before anything of the current state is looked at.  A request
\* that reuses the identifier for other content is refused and changes nothing.
Replay(q) ==
    /\ receipts[q.id] # NoReceipt
    /\ receipts[q.id].content = Content(q)
    /\ Reply(q, receipts[q.id].result)
    /\ UNCHANGED <<project, versions, jobs, receipts, issued, past>>

-----------------------------------------------------------------------------
(* Routes *)

CreateProject(p, size) ==
    /\ NextProjectId(p)
    /\ project[p].born < MaxLives
    /\ project' = [project EXCEPT ![p] =
                    [life |-> "live", revision |-> 1, size |-> size, born |-> project[p].born + 1]]
    /\ versions' = Recorded(versions, Version(p, 1, size, 0))
    /\ past' = past \union {State(p, project[p].born + 1, 1, size)}
    /\ UNCHANGED <<jobs, receipts, issued, replies>>

\* PATCH /projects/{id}, and the legacy font size operation without a request ID.
PatchProject(p, size) ==
    /\ Live(p)
    /\ ~HasActiveJob(p)
    /\ ApplyProjectSettings(p, size, 0)
    /\ UNCHANGED <<jobs, receipts, issued, replies>>

\* PATCH /blocks/{id} raises the revision and records no version.
PatchBlock(p) ==
    /\ Live(p)
    /\ ~HasActiveJob(p)
    /\ project[p].revision < MaxRevision
    /\ project' = [project EXCEPT ![p].revision = @ + 1]
    /\ Remember(p, project[p].revision + 1, project[p].size)
    /\ UNCHANGED <<versions, jobs, receipts, issued, replies>>

Generate(p) ==
    /\ Live(p)
    /\ versions' = WithBaseline(p)
    /\ \E n \in JobIds : CreatePendingJob(n, p, project[p].revision, project[p].size)
    /\ UNCHANGED <<project, receipts, issued, replies, past>>

\* Mutation of DeleteProject: the versions stay behind.
DeleteProjectOnly(p) ==
    /\ Live(p)
    /\ IsSettled(p)
    /\ project' = [project EXCEPT ![p].life = "deleted"]
    /\ jobs' = {j \in jobs : j.project # p}
    /\ UNCHANGED <<versions, receipts, issued, replies, past>>

\* Receipts and the identity survive; versions and jobs do not.
DeleteProject(p) ==
    /\ Live(p)
    /\ IsSettled(p)
    /\ project' = [project EXCEPT ![p].life = "deleted"]
    /\ versions' = {v \in versions : v.project # p}
    /\ jobs' = {j \in jobs : j.project # p}
    /\ UNCHANGED <<receipts, issued, replies, past>>

\* A client makes a request from what it has just read.
Issue(id, p, op, arg, generate) ==
    /\ Live(p)
    /\ generate => op \in {"set", "adjust"}
    /\ Cardinality(issued) < MaxIssued
    /\ issued' = issued \union {[id |-> id, project |-> p, op |-> op, arg |-> arg,
                                 base |-> project[p].revision, generate |-> generate,
                                 seen |-> project[p].born]}
    /\ UNCHANGED <<project, versions, jobs, receipts, replies, past>>

-----------------------------------------------------------------------------

Arguments(op) ==
    CASE op = "set" -> Sizes
      [] op = "adjust" -> {1}
      [] op = "restore" -> Revisions
      [] op = "start" -> {0}

Execute(q) == ChangeSettings(q) \/ RestoreSettings(q) \/ StartGeneration(q) \/ Replay(q)

Unborn == [life |-> "unborn", revision |-> 1, size |-> 1, born |-> 0]

\* A fresh database, or one whose first project is older than the history: its
\* revision has no recorded version.
Init ==
    /\ \/ project = [p \in ProjectIds |-> Unborn] /\ past = {}
       \/ /\ project = [p \in ProjectIds |->
                         IF p = 1 THEN [Unborn EXCEPT !.life = "live", !.born = 1] ELSE Unborn]
          /\ past = {State(1, 1, 1, 1)}
    /\ versions = {}
    /\ jobs = {}
    /\ receipts = [id \in RequestIds |-> NoReceipt]
    /\ issued = {}
    /\ replies = {}

Next ==
    \/ \E p \in ProjectIds :
         \/ PatchBlock(p) \/ Generate(p) \/ DeleteProject(p)
         \/ \E size \in Sizes : CreateProject(p, size) \/ PatchProject(p, size)
         \/ \E id \in RequestIds, op \in Operations, generate \in BOOLEAN :
              \E arg \in Arguments(op) : Issue(id, p, op, arg, generate)
    \/ \E q \in issued : Execute(q)
    \/ \E j \in jobs, status \in JobStatus : EndJob(j, status)

Spec == Init /\ [][Next]_vars

-----------------------------------------------------------------------------
(* Correctness *)

HasReceipt(id) == receipts[id] # NoReceipt

\* Rows have their types, and no row refers to a project that is not there.
TypeOK ==
    /\ project \in [ProjectIds -> [life : Lives, revision : Revisions, size : Sizes, born : Nat]]
    /\ versions \subseteq [project : ProjectIds, revision : Revisions, size : Sizes, from : Nat]
    /\ jobs \subseteq [id : JobIds, project : ProjectIds, revision : Revisions, size : Sizes,
                       status : JobStatus]
    /\ receipts \in [RequestIds -> Receipts \union {NoReceipt}]
    /\ issued \subseteq Requests
    /\ replies \subseteq [id : RequestIds, content : Contents, result : Results]
    /\ past \subseteq [project : ProjectIds, born : Nat, revision : Revisions, size : Sizes]
    /\ \A row \in versions \union jobs : Live(row.project)
    /\ \A j, k \in jobs : j.id = k.id => j = k

\* However often a request arrives, and whatever happened in between, it gets one
\* answer; content that reuses its identifier gets none ("one committed request
\* and its immutable response").
OneAnswer == \A a, b \in replies : a.id = b.id => a = b

\* A request is applied to the project its client looked at, not to a later one
\* that got its identity ("a retry after deletion must not re-execute").
RightProject == \A id \in RequestIds : HasReceipt(id) => receipts[id].seen = receipts[id].applied

\* What a request did is what its client meant at the revision the client saw: a
\* set size, the size of that revision plus the delta, the size of the version
\* restored, or nothing but a job.
Meant(r, x) ==
    /\ r.result.size = CASE r.content.op = "set" -> r.content.arg
                         [] r.content.op = "adjust" -> x.size + r.content.arg
                         [] r.content.op = "start" -> x.size
                         [] r.content.op = "restore" ->
                              (CHOOSE y \in past : y.project = x.project /\ y.born = x.born
                                                      /\ y.revision = r.content.arg).size
    /\ r.result.revision = x.revision => r.result.size = x.size

IntentKept ==
    \A id \in RequestIds : HasReceipt(id) =>
        \E x \in past :
            /\ x.project = receipts[id].content.project /\ x.born = receipts[id].seen
            /\ x.revision = receipts[id].content.base
            /\ Meant(receipts[id], x)

\* A recorded version shows the settings its revision really had, through block
\* edits that record nothing, restores, and baselines recorded late.
VersionsAreTruthful ==
    \A v \in versions, x \in past :
        x.project = v.project /\ x.born = project[v.project].born /\ x.revision = v.revision
            => x.size = v.size

\* The settings a job renders are on record, so that the video can be traced to a
\* version that can be restored, and they are those its acknowledgement named.
JobsAreTraceable ==
    \A j \in jobs :
        /\ \E v \in versions :
             v.project = j.project /\ v.revision = j.revision /\ v.size = j.size
        /\ \A id \in RequestIds :
             HasReceipt(id) /\ receipts[id].result.job = j.id =>
                 j.revision = receipts[id].result.revision /\ j.size = receipts[id].result.size

\* What the next start verifies before it serves (validate_critical_references):
\* a restore names a version that is there, and the job of a receipt, if there
\* is one, belongs to the receipt's project.
ReferencesHold ==
    /\ \A v \in versions : v.from # 0 =>
         \E w \in versions : w.project = v.project /\ w.revision = v.from
    /\ \A id \in RequestIds, j \in jobs :
         HasReceipt(id) /\ receipts[id].result.job = j.id => j.project = receipts[id].result.project

\* The history is true and complete: what its versions show, what a job renders and
\* what the next start verifies.
HistoryIsTrue == VersionsAreTruthful /\ JobsAreTraceable /\ ReferencesHold

\* The core keeps the promise of SettingsRegister.
Register == INSTANCE SettingsRegister WITH
    life <- [p \in ProjectIds |-> project[p].life],
    revision <- [p \in ProjectIds |-> project[p].revision],
    size <- [p \in ProjectIds |-> project[p].size],
    NoAnswer <- NoReceipt,
    answers <- [id \in RequestIds |->
                 IF HasReceipt(id)
                 THEN [project |-> receipts[id].result.project, base |-> receipts[id].result.base,
                       revision |-> receipts[id].result.revision, size |-> receipts[id].result.size]
                 ELSE NoReceipt]
KeepsRegister == Register!Spec
=============================================================================
