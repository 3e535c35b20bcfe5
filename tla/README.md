# Verification of BlockVideo

BlockVideo turns a Japanese script into an MP4: a FastAPI process with one
SQLite database runs *generation jobs* as asyncio tasks that split the script,
plan and draw the slides, speak the text through VOICEVOX and render the video.
What is hard about it is not the rendering: it is that jobs, cancellations,
edits, deletions, repeated requests, calls that cost money and restarts of the
process meet in one database, and that nothing may be generated twice, billed
twice, lost, or shown as something it is not. Beside the program stands a tool
chain that evaluates a release candidate and decides on its release, whose
evidence must be about the bytes that were tried.

This directory holds TLA+ models of these parts, the TLC runs that check them
on small instances, and TLAPS proofs of the properties that matter most. Paths
such as `workers/job_runner.py` are below `src/backend/app/`, those beginning
with `evaluation/` below `src/backend/`. `PROJECT.json` names the source lines
every definition stands for.

1. [The system](#1-the-system)
2. [The modules](#2-the-modules)
3. [The runs](#3-the-runs)
4. [Fairness and hypotheses](#4-fairness-and-hypotheses)
5. [What is proved](#5-what-is-proved)
6. [Findings and observations](#6-findings-and-observations)
7. [Not modelled, and the plan](#7-not-modelled-and-the-plan)

## 1. The system

### Components, their state and their operations

| Component | State | Operations | Modelled in |
|---|---|---|---|
| Generation jobs: `workers/`, `services/job_*.py` | `generation_jobs` rows; `JobRegistry._tasks`; `cancel_requested` | create, submit, claim, settle, cancel, retry, reconcile, drain | `JobLifecycle` |
| Pipeline: `services/pipeline.py`, `services/invalidation.py`, `services/generation_plan.py` | `projects.status`, block statuses, files, the checksums of `stage_materials` | plan the work, guard, stage by stage, checkpoint, resume | `JobLifecycle` (control), `Materials` |
| Artifact store: `services/artifact_store.py` | `generation_artifacts` rows, history directories | rename, publish, discard, restore | `JobLifecycle` (rows), `Materials` (files) |
| External call journal: `services/external_calls.py` | `external_calls` rows, locks per fingerprint | claim, post, finish, serve a cached reply, refuse, recover, clear | `ExternalCalls` |
| Operation core: `operations/` | `operation_requests` receipts | readiness, execute, replay | `Operations`, `JobLifecycle` |
| Settings, history, identities: `services/project_settings.py`, `settings_history.py`, `project_identity.py` | project columns, `settings_revisions`, `project_identities` | update, restore, record, allocate | `Operations`, `SettingsRegister` |
| Language operations: `language_operations/` | `language_requests`, `language_turns` | claim, interpret, confirm, execute a plan, correct, dismiss | `LanguageRequests` |
| Start-up: `main.py`, `migrations/` | lock file, schema version, backups | lease, back up, repair, migrate, restore | `DatabaseLease`, `Migrations` |
| Split stage: `services/splitter.py` | segments and their answers | mask, cut, ask, merge, repair | `ScriptSplit` |
| Visual planning and drawing: `services/visual_planner.py`, `visual_focus.py` | plans, pictures, the style | style, plan all blocks, normalize, draw | `VisualPlanning` |
| Captions: `services/narration.py`, `subtitles.py`, `presentation.py` | `narration.json`, caption files | measure, rescale, pack, snap to frames | `CaptionTiming` |
| Project page: `src/frontend/src/api/use*.ts` | session storage, calls in flight | send, resend, look up, confirm, leave, reload | `ProjectPage` |
| Trial host and scorer: `evaluation/scripts/evaluation_trial_host.py`, `blinded_scoring.py` | states read, answers, effects | submit, event, second request, score | `TrialScoring` |
| Blinded evaluator: `evaluation/blinded_runner.py` | files of the output directory | pin, run trials, record, seal, publish | `EvaluationRun` |
| Owned processes: `evaluation/blinded_runtime.py` | scope, gates, sessions | start, watch, stop, kill, close | `OwnedProcesses` |
| Candidate runtime: `evaluation/runtime_materialization.py`, `release_verification.py` | copy, marker, record, receipt | copy, read, use, remove | `CandidateRuntime` |
| Release evidence: `evaluation/release_candidate/freeze.py`, `result_import.py`, `release_decision.py` | publications | freeze, import, decide | `ReleaseEvidence` |
| Language understanding, providers, rendering, views, configuration, other tooling | none that steps share | computations and I/O | not, or by their outcomes |

### How they interact

* **Database.** Every handler, the runner and the publication write inside
  `BEGIN IMMEDIATE` (`services/transactions.py`), so writers are serial. A
  route declared with `def` runs in a worker thread: its transaction falls
  between any two steps of the event loop.
* **Creation and delivery.** A job is committed first and delivered afterwards:
  a REST route submits it to the `JobRegistry` itself, an operation only
  commits it. A dispatcher polls for pending rows every second and submits
  those as well, so both may submit the same job.
* **Running.** The runner claims the row in one transaction, runs the
  coroutine without a lock, and closes the row in another. In between the
  pipeline reads the row again at each guard, and publication commits the
  completion of the job together with the video.
* **Materials.** Edits reset the statuses of what they reach; a job turns
  statuses into work, redoes it block by block, and records checksums of what
  it completed. The guard compares files with the recorded checksums before
  each stage, except those the job itself rewrites.
* **Remote calls.** Every POST of an LLM or image provider goes through the
  journal of its job. A call whose outcome is open makes the job `unknown`,
  and nothing in the program takes that back.
* **Language.** A request is interpreted outside of any transaction, under a
  lease; what it proposes runs through the operation core, whose receipts
  decide what was done. The page of the project repeats what it has not heard of.
* **Restart.** Shutdown drains tasks; a crash does not. The next start takes
  the lease of the database, migrates it, and settles the rows that were
  running before it serves a request.
* **Evaluation.** Freeze, evaluation, import, verification and decision are
  separate programs; each reads what the others published and publishes once.

### What makes each component correct

* *Jobs*: at most one active job per project; the inputs of an active job do not
  change; an accepted cancellation is not followed by success; ended is final;
  every accepted job ends; no row is left running without a task.
* *Publication*: a publishing job has a video exactly when it is completed; the
  current video of a project is a completed publication of that project, and
  everything in it was up to date when it was made.
* *Materials*: what counts as done was made from the present inputs, and the
  guard of a job neither stops the job's own work nor trusts another's.
* *Journal*: a remote call leaves at most once; what left is on record; an open
  outcome stays visible; replies are kept while the job can be resumed.
* *Operations*: a repeated request has one effect and one answer, on the project
  and the revision its client saw; a recorded version keeps its meaning.
* *Language*: what is executed is what was confirmed, step by step; no
  generation starts that nobody wanted; an answer is final.
* *Stages*: no sentence or listing of the script is lost, doubled or moved;
  captions and pictures change with the voice and fill the video.
* *Database*: two processes never serve it together; a dead one does not block
  the next; what it owned survives every migration and restore.
* *Evaluation*: what is scored as complete was done right; a bundle counts each
  trial of one candidate once; a confirmed teardown leaves no process; a
  favourable decision rests on one candidate from end to end.

## 2. The modules

| Module | What it holds |
|---|---|
| `JobLifecycle` | jobs, their rows, tasks, publication, edits, deletion, shutdown, crash, recovery |
| `ExternalCalls` | the journal of one job and the sibling coroutines that use it |
| `Materials` | what a job works on: statuses, products, work, guards, checkpoints, the video's files |
| `Operations`, `SettingsRegister` | requests with receipts, settings, history, identities; what they promise, as an abstract register that `Operations` refines |
| `LanguageRequests` | requests in words and the plans made of them |
| `ProjectPage` | the page of a project in one tab |
| `LanguagePage` | both of these over the same records: what the server does, and the page |
| `DatabaseLease`, `Migrations` | the lock file, one system call at a time; what is done under it |
| `Database` | both of these, each with its own state |
| `ScriptSplit`, `VisualPlanning`, `CaptionTiming`, `TextCutting` | the stages of a job; operators on texts |
| `OwnedProcesses` | the processes of one evaluation scope |
| `TrialScoring`, `EvaluationRun`, `CandidateRuntime`, `ReleaseEvidence` | the tools of the evaluation |
| `EvaluationTools` | these four, each with its own state |
| `MC...` | what the runs instantiate |
| `...Proofs` | theorems of the module they are named after (`LanguageRequestsProofs` also those of `LanguagePage`) |

The modules meet at named places. `remote` of `JobLifecycle` summarises a whole
journal of `ExternalCalls` (`HasUnresolvedCalls` is in both). `Materials` is one
project whose jobs never overlap and whose inputs are frozen while a job is
active: `OneActiveJob` and `ActiveJobInputsFrozen` of `JobLifecycle`, both
theorems. A job of `Operations` is `active`, `ended` or `unknown`; how it gets
there is `JobLifecycle`. Exclusive access to the database, which `DatabaseLease`
is about, is what `Migrations` and the others rely on. `ReleaseEvidence` takes
from `EvaluationRun` and `CandidateRuntime` what they promise: a bundle and a
manifest about one candidate. `ProjectPage` has the server as an external part
that commits an identifier once, which `Operations` and `LanguageRequests` show.

Modules that share no state, and instances of one module with different bounds or
constants, are run **side by side**: the `MC` module has a variable `at`, chosen in
the first state, that says which of them the behaviour is of, and the others stay in
an initial state. This puts them into one run without multiplying their states.
`MCJobLifecycle` has the instances *entries* and *deletion*, `MCJobDelivery` *deletion*
and *delivery*, `MCMaterials` the materials and three stages, `MCOwnedProcesses` a
scope and one command with more mishaps. `MCOperations`, `MCDatabase`,
`MCLanguageRequests` and `MCEvaluationTools` take *slices* of one specification:
every `at` names the steps and the bounds of its slice, on the variables and with the
properties of the module it extends, so that a theorem of that module is about the very
formula the run checks. `MCDatabase` has the lease once more, with variables of its own,
for its liveness.

Definitions with a comment "Mutation of ..." (`MayCreateWhileActive`,
`ResendableInFlight`, ...) are not part of any specification: each is the form a
plausible bug would give to the definition that follows it, and shows that a
property notices it.

### JobLifecycle

| Variable | Code |
|---|---|
| `project` | `projects` rows: life, revision, status, current artifact |
| `job` | `generation_jobs` rows: status, project, kind, the revision it was made for, `cancel_requested` |
| `receipts` | the job identities that `operation_requests` rows name; they outlive a deletion |
| `artifact` | `generation_artifacts` rows |
| `remote` | the journal of the job: nothing, in flight, answered, sent but unrecorded, unknown |
| `task` | the asyncio task in `JobRegistry._tasks`, with the place of its coroutine |
| `submitting` | jobs a REST handler has committed and not yet handed to the registry |
| `server`, `stops` | the process: up, draining, down |

An action is one `BEGIN IMMEDIATE` transaction or one step of the event loop
between two awaits: `Enqueue`, `StartGeneration`, `RetryGeneration`,
`ReviseProject`, `ReviseAndGenerate`, `CancelProject`, `CancelGeneration`,
`RestoreArtifact`, `CreateProject`, `QuickCreate`, `DeleteProject` are the
handlers; `Submit`, `Claim`, `ClaimNothing`, `Settle`, `RunnerCommitFails` the
runner; `Guard`, `BeginStage`, `FinishIntermediate`, `Fail`, `Publish`,
`PublishRefused` the pipeline; `Remote...` a call; `Close`, `CancelTask`, `Stop`,
`Crash`, `Boot` the process. `kind` separates jobs that publish ("full") from
those that stop after their target ("part"). What a stage computes is in
`Materials` and the modules of the stages: here it may make remote calls and may
fail. `JobRegistry.request_cancel` has no caller and no action. Progress,
messages and timestamps are left out.

### ExternalCalls

One journal, that of one job: `row` is the `external_calls` row of each request
fingerprint, `phase` and `target` the position of each coroutine inside
`journaled_post`, `sent` how often a request has left (what no code records),
`raised` the failure that has left a `gather` while its siblings go on, `job`
and `alive` the outside. Actions: `Ask`, `ServeCached`, `Refuse`, `Claim`,
`ClaimFails`, `Send`, `NotSent`, `Answer`, `Lose`, `Unrecorded`, `Settle`,
`Crash`, `Restart`. A fingerprint is a model value; VOICEVOX calls, which have no
remote side effect and may be repeated, are `Calls \ Remote`. The provider is
external.

### Materials

Each block has a `status` per stage and, per stage, a `content`: how the product
relates to the inputs the stage really reads (`fresh`, `untracked`, `stale`, `torn`,
`altered`, `absent`). `Readers` says which stages read an input and is written
from the stages; `PatchInvalidates` and `DependenciesForSettings` are the
invalidation lists of the code. That the two agree is what `StatusesAreTruthful`
checks, except in two places where they do not: `patch_block` resets neither the plan
nor the picture when the narration text changes, which the planner, the prompt of an AI
picture and a slide without a summary read; and an AI picture leaves the additional
slides of the drawn picture before it where they are, and the render stage encodes them.
What comes of these is `untracked`, and `Worth`, `SlidesAreTheirs` and
`VideoIsExplained` say where it may be found: under a plan or a picture, in the slides
of an AI picture, and in a video with one of these in it, never in a narration. `slides`
are the additional pictures `image_1.png` and so on. `run` is the coroutine (the stage it is at, the blocks left, its
expected materials, what it has written), `known` the recorded checksums,
`changed` the files that differ from them, `directory` and `artifact` the history
of videos. Actions: `PatchBlock`, `ChangeSettings`, `Request`, `Begin`, `Split`,
`BeginStage`, `PlanStage`, `StartMaterial`, `WriteMaterial`, `CommitMaterial`,
`Concatenate`, `Rename`, `Publish`, `FinishPart`, `Fail`, `Crash`, `Restart`,
`OutsideChange`. A file is torn from the moment it is opened, so a crash in the
middle of a product is a crash after `StartMaterial`. Abstracted: a later
checkpoint keeps earlier records; only checkpointed files are altered from
outside; every planner and picture counts as a reader of the narration text, although
one with a summary does not look at it; a block whose plan asks for an AI picture while
no provider makes any is drawn, and counts as drawn; restoring an artifact and the
import of legacy videos are not here.

### Operations and SettingsRegister

`project` joins `projects` and `project_identities`; `versions` is
`settings_revisions`, `jobs` is `generation_jobs`, `receipts` is
`operation_requests`. `issued` holds the requests clients have sent: each stays
there, so it may arrive never, late, twice and in any order. `replies` holds the
answers, `past` every state that settings have been in (history, for the
properties). Every handler writes in one transaction and keeps nothing in
memory, so an action is a handler and a crash only loses an answer. One setting,
the subtitle size, stands for the configuration; absolute, relative and
restoring requests differ, for they resolve differently. `born`, `seen` and
`applied` number the projects of one identity, so that a property can say
*which* project a client looked at; no guard reads them. Left out: the validation
of values, the repair of legacy colours, block content. `NextJobId` counts jobs
and receipts only: in the code, artifacts and journal rows count as well, but
they are deleted with their project, so a number they alone would keep does not
exist.

`SettingsRegister` is a register per project with a revision, and requests
answered at most once, for the revision they were made for. `Operations`
instantiates it with `life`, `revision` and `size` read from `project` and
`answers` from `receipts`; jobs, versions, replies and deliveries are hidden. A
request that is replayed, conflicts or is out of date is a stutter.

### LanguageRequests

`record` joins `language_requests` and `language_turns`; `lapsed` says whose
lease has passed; `receipt` are the operation receipts of a request's steps, the
only truth about what was done; `handler` is what each concurrent HTTP handler
holds between two transactions; `agreed` (history) the tokens that were accepted
with the flag for a generation. What a model makes of a text is an arbitrary
`Readings`; `Guarded` and `Asks` are what the service does with it, whatever it
says. Actions: `Claim`, `Interpret`, `NoProposal`, `Finish`, `Resubmit`,
`Submit`, `Execute`, `Confirm`, `CoreExecutes`, `CoreRefuses`, `Acknowledge`,
`Follow`, `Lookup`, `Lapse`, and around them `OtherEdit`, `JobEnds`, `Stop`.
One project; a deletion or another target is a refusal; "closed" stands for
dismissed, unsupported and error.

### ProjectPage

`stored` is the session storage, `command` and `language` the state of the two
hooks in the mounting (`visit`) that the user sees, `calls` the HTTP calls that
are out, with the visit that waits for them; `committed` and `record` the server.
`told` and `answered` are what the user was told and what is definitely known.
`loose` holds the identifiers with a call nobody on the page waits for: such a
call may be refused (a 4xx of a page that was left) or commit after the user
discarded the intent, and what the page says of it is not held against the page.
A page that is left while it waits for fresh views before it sends does not stop:
`abandoned` holds such visits, and `CheckedLate` is the end of their wait, where they
store and send their intent, or are told to leave it. What this overwrites in the
storage of the page shown now is in `crossed`, with the intent that was sent.
The storage is assumed to be there; one tab; the parent of a continuation is not
modelled; the server stops in the middle of an interpretation only as "prepared".

### DatabaseLease and Migrations

`path` is the inode that the lock path names, `named` the inodes with a name on
disk, `file`, `held` and `tomb` what each process has open, locked and moved
aside, `pc` its next system call. One action is one system call of
`acquire_database_lease`, `_remove_stale_lease` or `DatabaseLease.release`. The
POSIX branch only: on Windows an open file cannot be renamed, which is another
protocol. `CrashAt` says where a process may die, `WritesMayFail` whether the
payload may fail to be written.

`Migrations` is what the holder of the lease does with a database of version 0:
the verified backup and its metadata, the repair, the migration, serving, and
`restore_database_backup`. Content is rows by their owners, a file is torn while
a transaction is open and carries its rollback journal (the code sets no journal
mode). A kill may fall between any two commits, renames and unlinks; a backup may
be altered. The classification of other schemas is left out, and a failed
migration ends its process, although the code serves its status page while it
holds the lease.

### ScriptSplit, VisualPlanning, CaptionTiming, TextCutting

Texts are sequences of *classes* of characters. `ScriptSplit` masks listings,
cuts a script into segments, asks a model for each (`Ask`, `Answer`,
`BadAnswer`, `Lost`), merges small blocks and repairs narration that the code
left with holes (`Repair`, `RepairLost`). A repair is accepted from half the length of
the narration up to three times it or `Growth` characters more (200 in the code), whichever
is longer. The recognition of a bare token and the stripping of Markdown are left out.

`VisualPlanning` is the style, the plans of all blocks asked at once with a
second attempt, the server's normalization and downgrading, the author's own
slides, the pictures with the listings behind them, over two jobs with a
cancellation and a journal that answers a repeated request. A job that leaves a block
without a plan ends there ("incomplete"), without a picture. Answers that do not
pass the schema are one failure; the resumption of a job with its own journal is
not here.

`CaptionTiming` is pure arithmetic: sentence spans measured, rescaled or
estimated, captions packed or by sentence in a band of a given height, pictures
snapped to the captions or to what is named, rounded to milliseconds and frames
of 1/30 s. Speed is 1; pauses are a choice; the limits 31 and 32 of
`focus_slides` are `MaxEvents` and `MaxVariants`. Colours, the margins of the
layout and the formats of the caption files are left out.

### The tools of the evaluation

`OwnedProcesses`: a scope, and per command its launch, gate, target, helpers,
watcher and `stop()`; an action runs from one await to the next. Deadlines,
memory samples and bounded waits are choices. POSIX; the peak of a Windows Job and
`invoke_trial_host`, a simpler sibling, are not modelled. Helpers live until they are killed.

`TrialScoring`: a candidate that may deviate from the protocol of a case up to
`MaxDeviations` times, the states the host reads before, between and after its
calls, and the checks of the score over them. Correctness is stated from what the
candidate did, not from what was read. Settings are known by their revision;
"rewrite" stands for any earlier record. Not modelled: the disclosure check,
cancellations, the budget of model calls, the embedding configuration; the
external calls of a trial.

`EvaluationRun`: the files of one output directory and evaluators that are
killed, resumed and overlap. A score is part of the outcome of a trial; freeze
publication and tool sources are one version of the candidate. The directory of a trial's
group and its `cases` are made one after the other (`MakeGroup`, `MakeCases`), each case
having a group of its own; the refusal of a protocol that leaves a category uncovered is
left out.

`CandidateRuntime`: one copy of the frozen files, its marker, lock, record and
receipt, its maker, verifiers and cleaners, each killed anywhere, while somebody
else writes into it. Deleting a file is one step with the last comparison of its
bytes and identity. Two makers on one output, a swap of the root and I/O errors before the
marker are not modelled.

`ReleaseEvidence`: freeze, import and decision, each reading and publishing in
steps of its own, among edits of checkout and tools, replaced inputs, intruded
stages, kills and failed writes. The last look at the owner of a stage is one step with
the rename that publishes it (`FreezePublishes`): an exchange of the stage between those
two calls is left out. Publications are not tampered with after they
are made; command inventory and smoke receipts are behind `passed`.

## 3. The runs

| Run | Instance | Shows |
|---|---|---|
| `jobs_two_projects` | *entries*: 2 projects, 2 jobs, revision 2, 1 stop, both entry points, failing runner transactions. *deletion*: the same with deletion, jobs of operations, no edits | exclusive jobs, frozen inputs, videos and statuses that agree, cancellation that is not overtaken, visible remote work, final ends; nothing follows an unknown job; a task never meets another job under its identity |
| `jobs_delivery` | *delivery*: 1 project, 2 jobs, 2 stops, both entry points, fairness. *deletion*: 2 projects, 2 jobs, 1 stop, operations | every job ends; no running row without a task |
| `jobs_identity` | 2 projects, 1 job, deletion, REST only | **violated**, see section 6 |
| `calls_journal` | 2 remote calls and a local one, 2 workers, 1 crash, fairness | sent at most once, on record, refused only when lost, nothing forgotten, every waiter served |
| `calls_siblings` | 2 remote calls, 2 workers | **violated**, see section 6 |
| `ops_core` | *core*: 1 identity with up to 2 lives, revision 3, size 2. *identities*: 2 identities, revision 2, size 1. Both: 2 identifiers, 2 requests, 1 job | one answer, what was meant, a true history, traceable jobs, the right project, the refinement |
| `materials` | 2 blocks (one with several drawn pictures or an AI one), 2 jobs (targeted ones for that block), 1 edit, 1 fault; 3 scripts; 6 texts; 1 block with every answer of a model, 2 blocks with few | statuses that are true and videos that are current but for the two exceptions, a guard that trusts its own work; scripts kept, pictures of the script, captions that follow the voice |
| `language` | 2 requests (one unattended), 2 handlers. *requests*: revision 2, proposals "follow" and "film". *films*: "film" with revision 3. *operations*, *words*: the page with 2 operations and 3 visits, with 2 requests and 2 visits, 1 lost call | plans carried out, wanted generations, final answers; a page that tells the truth |
| `database` | lease: 2 processes, 3 inodes, twice; migrations: 2 projects, 2 jobs, 2 mishaps | exclusive lease, one that is had alone; sound migrations, backups that hold |
| `lease_exclusive` | 3 processes, 5 inodes, nobody dies | **violated**, see section 6 |
| `processes` | 2 commands, 1 mishap; 1 command, 3 mishaps, fairness | true reports, failures that stick and reach the others; everything ends |
| `evaluation_tools` | *trial*: 3 deviations. *evaluators*, *evaluator*: 2 held-out cases, both or one approved, 2 evaluators and 1 mishap, 1 evaluator and 2. *runtime*: 2 files, 1 verifier, 1 cleaner, 2 mishaps. *release*: 1 freezer, 1 importer, 2 deciders, 2 mishaps, all reviews. *reviews*: 1 mishap, a review may be missing | just verdicts, results that are the trials, an accounted runtime, an earned decision, nothing replaced |

Several properties of the runs are conjunctions of named parts, all of which are
stated and commented in the module they are about:

| Property | Parts |
|---|---|
| `EndsAreTruthful` | `PublishedIffCompleted`, `CancelledNeverSucceeds`, `OpenRemoteWorkIsVisible` |
| `JobsStayInOrder` | `JobsConsistent`, `UnknownIsLast`, `CurrentVideoIsPublished`, with the types |
| `JournalIsTrue` | `SentIsRecorded`, `RefusedOnlyWhenLost`, `RepliesAreKept` |
| `HistoryIsTrue` | `VersionsAreTruthful`, `JobsAreTraceable`, `ReferencesHold` |
| `RowsAreTruthful` | `StatusesAreTruthful`, `PublishedVideoStays` |
| `PlansAreCarriedOut` | `StepsAreContiguous`, `CompletedMeansDone` |
| `PageKnowsItsRequests` | the parts of the same name in `ProjectPage` |
| `AnswersAreFinal` | `AnswersAreKept`, `WithdrawnNeverRuns` |
| `LeaseIsExclusive` | `Exclusive`, `UndisturbedLeaseIsInPlace`, `LeaseFileSurvives` |
| `BackupsHold` | `OriginalIsKept`, `RestoreIsAllOrNothing` |
| `ReportsAreTrue` | `ClosedMeansGone`, `CompletedIsClean`, `FailureHasCause` |
| `VerdictIsJust`, `ResultsAreTheTrials`, `RuntimeIsAccountedFor`, `DecisionIsEarned`, `NothingIsReplaced` | see `EvaluationTools` |
| `EverythingEnds` | `EveryCommandEnds`, `CloseReturns` |

**Why the bounds are enough.** Two jobs of one project show every race for the
active place, two projects the mixing of rows and identities; the job count also
bounds how far an identity can be handed on, once. Revision 2 is one edit between
a decision and its use. Two stops let a resumed job be interrupted again; after a
second stop a row is back in a state it had after the first. Two workers on the
same and on different fingerprints show every pair of siblings; a third waiter of
a lock adds only its place in the queue. Two requests with two identifiers cover
repetition, conflict of content and the race of different requests for one
revision. Two blocks show what one block's work leaves of another's, and the first of
them has every kind of picture; one edit between two jobs reaches every dependency, and
one fault every point of a job. Three visits let a page that was left send between two
others. A
trial calls its candidate at most three times and each call deviates in one way at
most, so with 3 deviations the run has every trial there is. Two handlers of one
request show every repetition that overlaps. A process names at most two inodes
(the one it opened, the one it moved), the path a third, so `2 * (n - 1) + 1`
inodes always leave a fresh one to the process that creates. Where the numbers
matter beyond that, the theorems of section 5 have no bound. Larger instances that
pass but take too long to be kept as runs: `Materials` with targeted jobs for both blocks
(1.64 million states), the language requests with revision 3 for both sets of proposals,
two commands with 2 mishaps, two verifiers with 2 mishaps (2.1 million), three
jobs for one block of `VisualPlanning`, `ops_core` with 2 jobs.

**Deadlock** is not checked: every instance may really stop, because requests
are bounded, a server with no work waits, an ended job stays ended, and a process
may serve or rest for ever. The liveness properties say what must not stop.

**Symmetry** is used in safety runs only, over projects, request identifiers,
handlers, calls and processes. Inodes are not interchangeable where
`NewFile` chooses one, blocks are numbers because stages take them in order, and
the language requests differ by their mode.

## 4. Fairness and hypotheses

Fairness is stated only where the scheduling of the code gives it.

* `JobLifecycle` (*delivery* of `MCJobDelivery`): the dispatcher polls every
  second, the event loop runs every ready task, HTTP clients carry timeouts,
  start-up and draining end: weak fairness of `Submit`, `Claim`, `ClaimNothing`,
  `BeginStage`, `Settle`, `RemoteEnds`, `CancelTask`, `Boot` and `Stop`. The
  coroutine walks a finite list of stages and blocks that the model does not
  count; strong fairness of `Guard` and of the exits says that it does not begin
  stages or make calls for ever. Requests, failures, cancellations and crashes
  have no fairness.
* `ExternalCalls`: `asyncio.Lock` wakes its waiters in order (strong fairness of
  `Return`), and every POST ends by its timeout (weak fairness of `End`).
* `DatabaseLease`: a process that is neither done nor dead takes its next step,
  a refused one is started again by whoever supervises it, and a full disk does
  not stay full.
* `OwnedProcesses` (*one command* of `MCOwnedProcesses`): launches, watchers, bounded waits
  and the end of `close()` are scheduled by their event loop and their deadlines.

Hypotheses under which a property is stated:

* `CommitMayFail`: with it, a transaction of the runner may fail and its row
  stays `running` without a task until the next start. `RunningHasTask` and
  `EveryJobIsDelivered` are stated without it; the other properties hold with it.
* `IdentitiesKept`: nothing is deleted, or every job has a receipt. Without it
  identities of jobs are handed out again (finding 1), and what is proved of how
  jobs end is false. The instances with deletion therefore create
  jobs by operations only.
* `CrashAt` in `database.cfg`: a process that dies between a rename and the step
  that undoes it leaves the path free while the owner of the moved file still
  serves; with such deaths `Exclusive` fails for two processes already. The run
  leaves the labels of `Windows` out; the theorem on `LeaseFileSurvives` does not.
* `Two`: there is one process and at most one other. `TwoProcessesExclude` is
  stated with it, and with `CrashAt` disjoint from `Windows`.
* `LegacyIsTyped`: the databases of before are row sets over the given projects and a
  finite set of jobs, with any orphans in them, and `None` is nothing a column or a
  file holds. TLC evaluates it as `LegacyAssumption`.
* `IdentifiersDiffer`: the identifiers of operations and of requests in words are
  different, as the random UUIDs the page draws for them are, and `None` is
  neither one of them nor a status. TLC evaluates it as `PagesAssumption`.
* `EvidenceAssumption`: results meet gates of the modes that exist, and reviews are of
  the kinds that are asked for. `EvaluationAssumption`: in both versions of the inputs
  the approved cases are held-out cases, in some order; that no case is approved twice
  is not assumed. `UsersAssumption`: nobody who uses a runtime has the name of its maker.
  TLC evaluates all three. `RefusedForCause` is about inputs that approve a case, since
  a run without one is refused by the code (`evaluation/blinded_runner.py:1051`).
* `WritesMayFail`: a payload that cannot be written is unlinked by path after a
  separate comparison (`migrations/lease.py:229-234`), and that call can hit a
  file that another process has put there meanwhile. `LeaseFileSurvives` and
  `Exclusive` are stated for writes that succeed.

## 5. What is proved

Every theorem holds for every value of the constants that the named assumptions
allow: any sets of projects, requests, calls, workers, handlers, commands and
processes, any number of blocks, any bound. Each rests on an inductive invariant
that was checked by TLC on an instance first.

**JobLifecycle** (`JobLifecycleProofs`). `OneActiveJobAlways` and
`ActiveJobInputsFrozenAlways` share the invariant `Exclusive` with the types: an
edit is refused because a job is active, so inputs stay frozen only while
activity is exclusive.

**How jobs end** (also there, under `IdentitiesKept`). `AllJobsSafe`
says for every job on its own where its task may stand given its row, which
artifact and calls may exist, and what the flags exclude. It is stronger than
the properties because they relate a row to a coroutine that read it earlier: a
task that is "completed" and not yet settled belongs to a row that publication
has completed already. With `NoTaskDown` it gives `EndsAreTruthful`,
`RunningHasTask` and `EndedIsFinal`. `InOrder` adds what orders the jobs of one
project: a job that blocks (active or unknown) is the last one and its project
is there. That a job's project is there must be part of it, because quick creation
takes a project nobody has used and asks no `MayCreate`. It gives `UnknownIsLast`,
`JobsConsistent` and, with the rows of artifacts, `CurrentVideoIsPublished`:
together `JobsStayInOrderAlways`.

**ExternalCalls** (`ExternalCallsProofs`). `CallInv` ties `sent` to the row and
to the worker that holds the fingerprint's lock: one holder, whose row is in
flight and whose request has not left before it posts. It gives `AtMostOnce` and
`SentIsRecorded`, and action by action `UnknownStays`. `OpenInv` adds which rows
have a body and what may be open after the job has ended, which strays of a
`gather` make delicate; it gives the rest of `JournalIsTrue` and
`EndedLeavesNothingOpen`.

**Operations** (`OperationsProofs`). On the types, which include that versions and
jobs belong to live projects, rest `Answered` (a reply is what the receipt
says), `Identities` (a receipt was applied to the project its client saw,
because a deleted identity is never allocated again), `History` (each version,
and the present state, is one the project was in, and a revision occurs once),
`Intents` (a receipt's size is the one its content means at its base) and
`JobsOnRecord`, `RestoresOnRecord`, `ReceiptsNameJobs`. `KeepsTheRegister` maps
every action to a step of `SettingsRegister` or to a stutter. All of it holds for any
number of identities.

**DatabaseLease** (`DatabaseProofs`). `TypeInv`: an inode has one place, the
lock path or the tombstone of one process. `LeaseFileSurvivesAlways` assumes
that payloads can be written, lets processes die anywhere, and follows from
`LeaseInv`: two holders of an flock have opened different inodes, creators have
inodes of their own, and a starter that moved the very file it had locked has
not moved that of a process that serves. `TwoProcessesExclude` is `Exclusive` with
`UndisturbedLeaseIsInPlace` for the conditions of the run and any number of
inodes. `InPlace` carries it: the file of a serving process is in place, or
in the tombstone of the other one with nothing in its place, because
the only process that could create a file there is the one that must put it back.
That is where a third process breaks it (finding 3).

**Migrations** (second half of `DatabaseProofs`, as the instance `M`).
`KeptIsOwned` says that the loop of the repair ends with the largest set of jobs
that have their project and their parents: each pass removes nothing that is
owned, and after as many passes as there are jobs a pass removes nothing. On it
rests that repairing twice is repairing once, which a start after an interrupted
one relies on. The invariant follows file, journal and backups through every
commit and rename: `JournalFits` (a torn file has its journal, unless a restore
removed it), `Descent` (every content of version 0 is the first one or its
repair), `Referenced`, `Progress` and `Restoring` (what each label of the process
means for the file), `Original` (the first database is in a backup with its
metadata, or nothing was touched yet) and `Restorable`. It gives
`MigratedDatabaseIsSound` and `BackupsHoldAlways`, whose second part is an action
property, for any legacy databases and mishaps. Like `LeaseIsExclusiveAlways`,
which joins the theorems on the lease under the conditions of the run, they are
about `DatabaseSpec`.

**Materials** (`MaterialsProofs`). `RowsAreTruthfulAlways`,
`GuardTrustsOwnWorkAlways` and the action property `FinalVideoIsCurrentAlways`
share `Inv`. What has to be carried from step to step is the agreement of three
things that are written at different times, the rows, the files and the memory
of the coroutine: `JobsMatch` and `BeforeSplit` (no coroutine without a running
job, nothing done before the blocks exist), `PlansFirst` (no picture without a
plan), `PlanWork`, `StageWork` and `RenderWork` (what is not in the coroutine's
remaining work is done, at each place it may be), `Recorded` (what is done and
present is recorded by the job's checkpoint), `Excused` (what the guard excuses
contains all that the job may yet rewrite), `AlteredIsSeen` (what was altered
from outside differs from its record until a checkpoint takes it) and
`RenamedIsThere`. `StageWork` has with it that the product of the block in work is worth
its status before it gets one (`CurrentIsWorth`), which is where the two exceptions come
in: what is encoded from a picture that counts as done, its slides and a narration is
`untracked` only if the picture or the slides are. `FinalVideoIsCurrent` is a property of the step `Rename` alone, and
needs all of them: the video is current because the job that began genuine has
redone, stage by stage, whatever was not.

**LanguageRequests** (`LanguageRequestsProofs`). Handlers work on a request
between two transactions while leases lapse, confirmations repeat and corrections
take the request over. `HandlerFits` says what a handler may still believe: it
holds a claimed record (`HasClaim`), its answer is one the guards let through
(`AnswerFits`), what it is about to store agrees with the receipts
(`StoresTruth`), what it is about to execute follows them and was agreed to
(`ExecutesNext`). `RecordFits` says the same of the row. From these and the two
parts that are properties themselves (steps contiguous, generations wanted) follow
`PlansAreCarriedOutAlways`, for any set of proposals, `GenerationsAreWantedAlways`
and `AnswersAreFinalAlways`.

**ProjectPage** (second half of `LanguageRequestsProofs`, as the instance `P`).
`PageKnowsItsRequestsAlways` is what the run checks for a page of operations and for
one of requests in words, for any identifiers of both at once, any number of visits and
of calls that go astray. The invariant `PageInv` follows the calls: one that is not of
the visit the user sees makes its identifier loose (`OthersAreLoose`), the page has one
call of each hook out and waits for it (`OneOut`, `Awaited`), and so an identifier that
is not loose has at most one call, the page's own. On that rest `Settling` (an answer to
an operation is true and the last word), `AnswersHold` (what a call brings back of a
request in words is still true when it arrives), `SessionHolds` (what the page shows and
would do next is true of the server's record) and `Remembered` (a stored intent has
its call out, or one that went astray, and the page asks about that very intent).
A page that was left and sends after all makes its identifier loose as well, and what it
overwrites is `crossed`: of all other intents the theorem says that they are not
forgotten.

**OwnedProcesses** (`OwnedProcessesProofs`). `Inv` has `NothingBeforeLaunch`,
`GateComesFirst`, `ConfirmedIsGone` (a confirmed session stays empty),
`ClosedIsSilent`, `WatcherDecidesOnce`, and `StoppedAreRegistered`: a launch that
somebody stops belongs to a scope that is not open any more. The last is the
reason why a stop may confirm a command that has no process yet: the launch
looks at the scope before it releases anything. From it follow `ReportsAreTrue`
and the action properties `LatchedFailureSticks` and `FailureReachesTheOthers`.

**ReleaseEvidence** (`EvaluationToolsProofs`, as the instance `R`). `EvidenceInv`
has the types, that what is published was earned, and `ProcessesKnow`, what
carries it from reading to publishing through edits, kills and intruders: as long
as the checkout has the snapshot a freezer started with, what it has read of the
files is the commit; what an importer holds is of a publication that exists; what
a decider writes is earned, and its first file is in place unless somebody
withdrew it. It gives `DecisionIsEarnedAlways` for any paths, results, reviews and
processes.

**CandidateRuntime** (also there, as `C`). `RuntimeInv` ties the marker, the lock and the
record on disk to what each process holds in memory: `MakerHolds`, `UsersHold` (what a
verifier or cleaner may still do follows from what it found under the lock it has),
`UndisturbedIsOwn` (a runtime nobody touched has nothing foreign in it) and
`ToldIsGone`. It gives `RuntimeIsAccountedForAlways`. The attempt to prove it found a
quantifier of `CopyGroup` whose scope took in the rest of the action, so that TLC had
accepted a weaker step than the code's; the module says now what the code does.

**EvaluationRun** (also there, as `E`). All the state of an evaluator is in files that
others may write, so `RunInv` says at each place of each evaluator what it may still
believe of them. `KnowsTheRecords`: every approved trial is in its records, as it is on
disk, or still to come. `KnowsItsAttempt`: the attempts before the one it means to open are
open, and the one its host works on is nobody else's (`Apart`). `IsAlone`: what
it found is still so unless somebody overlaps. `IsOfTheFirst`: as long as nobody
edits, all is of version 0. Of the files it says `RecordsFit`, `BundleFits`, `PartialFits`,
`AttemptsFit` (attempts are numbered without a hole, which is why counting them gives a
number that is free), `SealHolds` and `FirstVersion`; and `FailedForCause`, where the
input that a run was refused for is torn, or its group without `cases`, for good. It rests on lemmas that the order
goes through every approved trial whatever the order of the modes, and that the
partial result divides the approved cases, their numbers included. The first attempt
showed that the model sealed a run whose records did not cover its protocol, which the
code refuses, and that `RefusedForCause` is false of inputs that approve nothing; both
are corrected. It gives `ResultsAreTheTrialsAlways` and, with the action properties of
the other two, `NothingIsReplacedAlways`.

### What is only model-checked

* `ScriptIsKept`, `CaptionsFollowTheVoice`, `PicturesAreOfTheScript`: they say
  what folds over texts and lists compute, which needs induction over data.
  The proof system instantiates no induction theorem, so these stay checked over
  bounded inputs.
* `VerdictIsJust`: a trial is finite whatever its bound, and the run has all of it
  (section 3), so a proof would say no more than the run.
* Liveness (`EveryJobIsDelivered`, `EveryCallReturns`, `LoneStarterGetsIt`,
  `EverythingEnds`): the proof system covers neither fairness nor `ENABLED`.

Every other property of the runs is a theorem.

No module declares a `RECURSIVE` operator; iteration is written with the folds of
the community modules or with recursive functions.

## 6. Findings and observations

Three runs expect a violation of what the repository says of itself:

1. **A deleted project's runner settles another project's job**
   (`jobs_identity`). `api/utils.py:28` says that deletion is rejected "while
   local or externally uncertain work may still finish". Only pending and
   running rows are looked at, and publication completes the row while the
   coroutine still has to close its providers and its runner to commit. Deleted
   in that gap, a job that came from a REST route leaves its identity to the
   next job, which the old runner then settles as completed without a video.
2. **A call outlives its job** (`calls_siblings`). The comment at
   `services/splitter.py:935` wants every segment to finish "so no sibling call
   is left in flight when the job ends". The gathers at
   `services/splitter.py:451` and `services/pipeline.py:318` have no
   `return_exceptions`: `ExternalOutcomeUnknown` raised by one sibling ends the
   job while another is posting. The journal stays right all the same
   (`EndedLeavesNothingOpen`), and nothing is sent twice.
3. **Three starters can make two holders** (`lease_exclusive`). The takeover
   renames whatever the path names at that moment (`migrations/lease.py:90`) and
   compares afterwards; a third process can create the file in the gap.

What was noticed while modelling, read in the code and not the subject of a run:

* *Materials.* The checkpoint of an early stage also records a narration that
  was altered from outside and that the plan is about to redo
  (`services/pipeline.py:1380`); after a stop a new job trusts it. Additional
  slides that "would otherwise be picked up by the render stage" (`pipeline.py:470`) are
  removed after drawing only: when a block of several slides gets an AI picture
  (`pipeline.py:427-436`), they stay, and the video shows them behind it. `patch_block`
  takes `tts_text` for an input of the narration and the video (`routes_blocks.py:131`);
  the planner (`pipeline.py:306`), the prompt of an AI picture (`430`) and a slide
  without a summary (`454-463`) read it too, so a published video may show a picture of
  the older text. Changed runtime settings end a resumed job.
* *Visual planning.* A job that leaves one of its blocks without a plan keeps the plans
  it had, and raises (`pipeline.py:1454`) before it draws or publishes. An author's slide beyond the
  limits of a heading or body raises out of `plan_one` and ends the stage
  without writing the plans of the siblings. An empty first slide fence hides a
  later one; a code slide without code is downgraded even when the block has a
  listing; a plan with a copied `code` field counts the listing as shown. The
  request for a diagram has no block index, so equal blocks share one answer. A
  stop between the commit of the style and the next checkpoint makes the restart
  fail the job.
* *Splitting.* A hard cut, or the cut of the model, can tear a 〔コードN〕 token;
  the comment says that a segment boundary never lands inside a listing. Merged
  narration may exceed `max_chars` by the joining space.
* *Captions.* A sentence to which proportional timing gives no millisecond is
  dropped. Words that begin with a blank are compared after stripping, and the
  ends of identifiers such as `insert!` do not line up as `narration.py` says.
* *Language.* A plan that a refused step stops, waiting for the write lock
  included, is stored as blocked and is not resumed, although the docstring of
  `_execute_plan` speaks of it. A correction of a completed plan is always out
  of date, for it expects the revision before the plan.
* *Page.* Revalidation after a cancellation or a retry can put an operation and
  a language request out at once; the revision check of the server decides. A
  page that was left may be answered by a 4xx and forget the intent that the page
  shown now is sending again; a discard can be told that nothing was found
  before the delayed POST commits. A page that is left while it revalidates goes on when
  its views arrive (`ProjectDetailPage.tsx:66-107`) and stores its request over the
  unanswered one of the page that followed, which is then neither repeated nor reported: "One user intent has one durable request ID"
  (`useProjectOperation.ts:1`) does not hold of it.
* *Operations.* `JobRegistry.request_cancel` has no caller.
* *Migrations.* A restore killed between the removal of the sidecar files
  (`runner.py:312`) and the replacement leaves a torn file without a journal; it has to be
  repeated. After an interrupted migration the newest backup can be one of the
  repaired database, the original is in the one before.
* *Owned processes.* A launch that raises marks the scope as failed without
  latching its siblings; a launch that is late overwrites a graver reason with
  "timeout".
* *Evaluation.* A killed evaluator can leave a torn `input.json`
  (`evaluation/blinded_runner.py:782`), or a directory `groups/NNNNNN` without its `cases`
  (`blinded_runner.py:758`, `blinded_io.py:64`), after which every resumption is refused;
  no lock keeps two evaluators off one directory, and an orphaned host can write
  into its attempt after the seal. A missing change can be scored as an
  unauthorized one (`evaluation/blinded_scoring.py:837`).
* *Runtime and release.* A materialization killed before its marker is active
  can never be cleaned by `cleanup_candidate_runtime`. Of two identical deciders
  the one whose summary fails removes the other's `decision.json`, also when the other
  has published its summary (`evaluation/release_decision.py:912`), although the comment
  there says "Remove only the decision.json this call published" (line 909) and the
  docstring "A lone decision.json is never left behind" (889); here `decision.md` is left
  alone. `NothingIsReplaced` states what the code does and `PairIsOne` marks the case; a kill between the two publications
  leaves a decision after which a repetition is refused.

## 7. Not modelled, and the plan

Not modelled, because they compute or display and no sequence of steps of several
actors breaks them: pronunciation, read-only views, configuration, secrets,
logging and schemas, forms and polling views of the frontend, smoke tests, corpus
tools and probes. Of language understanding, drawing, encoding and the formats
of the providers only the outcomes are modelled. The Windows branches of the lease
and of the owned processes are other protocols than the POSIX ones and are left
out, as are the legacy direct pipelines, the import of videos older than the
history, and the repair of legacy colours. `PROJECT.json` gives the reason
component by component.

Left to prove: the three properties that need induction over data, once a prover can
instantiate an induction theorem. Worth modelling next: the Windows branch of the lease
and of the owned processes, and the restoration of artifacts together with the files of
`Materials`.
