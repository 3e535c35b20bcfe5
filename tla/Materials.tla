------------------------------ MODULE Materials ------------------------------
(***************************************************************************)
(* What a generation job of BlockVideo works on: per block a visual plan,  *)
(* an image, a narration and a block video, each with a status row and a   *)
(* product that may or may not reflect the current inputs.  Edits          *)
(* invalidate statuses, generation_plan turns statuses into work, the job  *)
(* redoes that work stage by stage, and publish_artifact makes one final   *)
(* video out of it.  The process may stop between any two writes.          *)
(*                                                                         *)
(* One project, whose jobs never overlap (JobLifecycle!OneActiveJob) and   *)
(* whose inputs are frozen while a job is active (ActiveJobInputsFrozen).  *)
(***************************************************************************)
EXTENDS Naturals, FiniteSets

CONSTANTS
    NumBlocks,   \* how many blocks the script is split into
    LongBlocks,  \* blocks whose drawn slides may fill more than one picture
    AiBlocks,    \* blocks whose plan may ask for an AI image instead
    MaxJobs,     \* bound: generation jobs are requested this often
    MaxEdits,    \* bound: block patches and settings changes
    MaxFaults    \* bound: stops of the process, and files lost or altered from outside

ASSUME BlocksAssumption == LongBlocks \subseteq 1 .. NumBlocks /\ AiBlocks \subseteq 1 .. NumBlocks
ASSUME MaterialsAssumption ==
    /\ NumBlocks \in Nat \ {0} /\ MaxJobs \in Nat \ {0}
    /\ MaxEdits \in Nat /\ MaxFaults \in Nat

Blocks == 1 .. NumBlocks
VisualTypes(b) == IF b \in AiBlocks THEN {"drawn", "ai"} ELSE {"drawn"}
JobIds == 1 .. MaxJobs
None == 0                       \* no block, no job

\* The stages that work on one block; each names its product too ("render"
\* makes the block's video).  The product of "plan" is a column, not a file.
Stages == {"plan", "image", "audio", "render"}
Files == {"image", "audio", "render"}
Rank == [split |-> 1, plan |-> 2, image |-> 3, audio |-> 4, render |-> 5]
FileProducts == Blocks \X Files

VARIABLES
    split,      \* have the block rows been created?
    pacing,     \* projects.narration_pacing_mode
    visual,     \* per block: "drawn" slides or one "ai" image
    status,     \* blocks.status_*, per block and stage
    content,    \* per block and stage: how the product relates to its inputs
    slides,     \* per block: the additional slides image_1.png, image_2.png ...
    job,        \* the newest generation_jobs row
    run,        \* the coroutine of run_generation_job
    known,      \* products with a recorded checksum: in the current artifact's
    changed,    \* manifest, in the stage_materials of jobs; those that differ by now
    directory,  \* per job: the videos in its history directory
    artifact,   \* generation_artifacts rows
    edits, outside, crashes  \* how much of the bounds is used

blockVars == <<split, pacing, visual, status, content, slides>>
counters == <<edits, outside, crashes>>
vars == <<split, pacing, visual, status, content, slides, job, run, known, changed,
          directory, artifact, edits, outside, crashes>>

\* "running" is never committed: a stage commits only its end.
Status == {"pending", "completed", "failed"}

\* "fresh": made from the present value of every input it reads.  "stale": an
\* input changed since.  "untracked": the same, but only in a way that resets no
\* status: the narration text under a plan or a picture, and in a video such a
\* picture or slides that are not of its picture.  "torn": being written.
\* "altered": written by somebody else.
Content == {"absent", "torn", "stale", "untracked", "fresh", "altered"}

Kinds == {"full", "rerender", "block_visual", "block_audio"}
WholeKinds == {"full", "rerender"}
Settings == {"voice", "pacing", "slides", "subtitles", "look"}
Layers == {"artifact", "jobs"}

NoRun == [at |-> "none"]
Idle == job.status \notin {"pending", "running"}
Running == run # NoRun

Init ==
    /\ split = FALSE
    /\ pacing \in {"fixed", "adaptive"}
    /\ visual = [b \in Blocks |-> "drawn"]
    /\ status = [b \in Blocks |-> [s \in Stages |-> "pending"]]
    /\ content = [b \in Blocks |-> [s \in Stages |-> "absent"]]
    /\ slides = [b \in Blocks |-> "none"]
    /\ job = [id |-> 0, kind |-> "full", target |-> None, status |-> "none"]
    /\ run = NoRun
    /\ known = [l \in Layers |-> {}]
    /\ changed = [l \in Layers |-> {}]
    /\ directory = [j \in JobIds |-> {}]
    /\ artifact = {}
    /\ edits = 0 /\ outside = 0 /\ crashes = 0

-----------------------------------------------------------------------------
(* Which products an input reaches.  These are the inputs the stages read,   *)
(* not the ones the invalidation lists: the planner is asked with the        *)
(* narration text, an AI image and a slide without a summary fall back on it,*)
(* and the render stage puts the focus where the plan has its labels.        *)

Readers(input) ==
    CASE input = "source" -> {"plan", "image"}
      [] input = "tts" -> {"plan", "image", "audio", "render"}
      [] input = "plan" -> {"image", "render"} \union (IF pacing = "adaptive" THEN {"audio"} ELSE {})
      [] input \in {"image", "audio"} -> {"render"}
      [] input \in {"voice", "pacing"} -> {"audio"}
      [] input = "slides" -> {"image", "render"}
      [] input = "subtitles" -> {"image", "render"}
      [] input = "look" -> {"render"}

\* What becomes of a product whose input changes, with or without a status that says so.
Outdated(product) == IF product \in {"fresh", "untracked"} THEN "stale" ELSE product
Untracked(product) == IF product = "fresh" THEN "untracked" ELSE product

Outdate(products, readers) ==
    [s \in Stages |-> IF s \in readers THEN Outdated(products[s]) ELSE products[s]]

\* A product that changes may no longer match the checksums recorded for it.
Differs(written) == [l \in Layers |-> changed[l] \union (known[l] \intersect written)]

OutdateSlides(b, readers) == IF "image" \in readers THEN Outdated(slides[b]) ELSE slides[b]

-----------------------------------------------------------------------------
(* Edits: api/routes_blocks.py, services/project_settings.py *)

\* The statuses that patch_block resets.
PatchInvalidates(source, tts, plan) ==
    LET replanned == plan \in {"new", "null"} IN
    (IF source THEN {"plan", "image", "render"} ELSE {})
    \union (IF tts THEN {"audio", "render"} ELSE {})
    \union (IF replanned THEN {"image", "render"} ELSE {})
    \union (IF pacing = "adaptive" /\ (source \/ replanned) THEN {"audio"} ELSE {})

\* PATCH /api/blocks/{id}.  "same": the request repeats the plan on record.
\* An explicit plan is complete, whatever was edited beside it; null asks the
\* planner for another one.
PatchBlock(b, source, tts, plan, type) ==
    /\ Idle /\ split
    /\ edits < MaxEdits
    /\ source \/ tts \/ plan # "keep"
    /\ plan = "same" => content[b]["plan"] # "absent"
    /\ type \in VisualTypes(b)
    /\ plan # "new" => type = (IF plan = "null" THEN "drawn" ELSE visual[b])
    /\ edits' = edits + 1
    /\ visual' = [visual EXCEPT ![b] = type]
    /\ status' = [status EXCEPT ![b] = [s \in Stages |->
           IF s = "plan" /\ plan # "keep" THEN IF plan = "null" THEN "pending" ELSE "completed"
           ELSE IF s \in PatchInvalidates(source, tts, plan) THEN "pending" ELSE @[s]]]
    /\ LET readers == (IF source THEN Readers("source") ELSE {})
                      \union (IF tts THEN Readers("tts") \ {"plan", "image"} ELSE {})
                      \union (IF plan \in {"new", "null"} THEN Readers("plan") ELSE {})
           reworded == IF tts THEN {"plan", "image"} \ readers ELSE {}
       IN /\ content' = [content EXCEPT ![b] = [s \in Stages |->
                 IF s = "plan" /\ plan # "keep" THEN IF plan = "null" THEN "absent" ELSE "fresh"
                 ELSE IF s \in reworded THEN Untracked(@[s]) ELSE Outdate(@, readers)[s]]]
          /\ slides' = [slides EXCEPT ![b] =
                 IF "image" \in reworded THEN Untracked(@) ELSE OutdateSlides(b, readers)]
    /\ UNCHANGED <<split, pacing, job, run, known, changed, directory, artifact, outside, crashes>>

\* Mutation of DependenciesForSettings: captions are taken for a matter of the
\* renderer alone, although the slide is drawn beside the caption band.
DependenciesForSettingsRenderOnly(setting) ==
    CASE setting \in {"voice", "pacing"} -> {"audio", "render"}
      [] setting = "slides" -> {"image", "audio", "render"}
      [] setting \in {"subtitles", "look"} -> {"render"}

\* dependencies_for_settings
DependenciesForSettings(setting) ==
    CASE setting \in {"voice", "pacing"} -> {"audio", "render"}
      [] setting = "slides" -> {"image", "audio", "render"}
      [] setting = "subtitles" -> {"image", "render"}
      [] setting = "look" -> {"render"}

\* apply_project_settings and invalidate_project_settings.
ChangeSettings(setting) ==
    /\ Idle
    /\ edits < MaxEdits
    /\ edits' = edits + 1
    /\ pacing' = IF setting # "pacing" THEN pacing
                 ELSE IF pacing = "fixed" THEN "adaptive" ELSE "fixed"
    /\ status' = [b \in Blocks |-> [s \in Stages |->
           IF s \in DependenciesForSettings(setting) THEN "pending" ELSE status[b][s]]]
    /\ content' = [b \in Blocks |-> Outdate(content[b], Readers(setting))]
    /\ slides' = [b \in Blocks |-> OutdateSlides(b, Readers(setting))]
    /\ UNCHANGED <<split, visual, job, run, known, changed, directory, artifact, outside, crashes>>

-----------------------------------------------------------------------------
(* Requests and plans: job_records.py, generation_plan.py *)

\* stale_media_message: render-only work needs every image and narration.
MediaReady ==
    split => \A b \in Blocks : status[b]["audio"] = "completed" /\ status[b]["image"] = "completed"

\* _changed_materials: what jobs recorded replaces what the artifact recorded.
ChangedMaterials == changed["jobs"] \union (changed["artifact"] \ known["jobs"])

Exists(b, s) == content[b][s] # "absent"

\* What a full request finds incomplete, missing or changed.
Needed(b) ==
    (IF status[b]["plan"] # "completed" \/ ~Exists(b, "plan") THEN {"plan"} ELSE {})
    \union {s \in {"image", "audio"} : status[b][s] # "completed" \/ ~Exists(b, s)}
    \union {s \in Files : <<b, s>> \in ChangedMaterials}

\* A new plan is drawn, and spoken too where the pauses follow the picture.
WithEffects(needed) ==
    IF "plan" \notin needed THEN needed
    ELSE needed \union {"image"} \union (IF pacing = "adaptive" THEN {"audio"} ELSE {})

\* build_generation_plan, the work on block b.
PlanOf(b, kind, target) ==
    CASE kind = "rerender" -> {"render"}
      [] kind = "full" ->
           LET work == WithEffects(Needed(b)) IN
           IF work # {} \/ status[b]["render"] # "completed" \/ ~Exists(b, "render")
           THEN work \union {"render"} ELSE {}
      [] kind = "block_audio" -> IF b = target THEN {"audio"} ELSE {}
      [] kind = "block_visual" ->
           IF b = target THEN {"image"} \union (Needed(b) \intersect {"plan"}) ELSE {}

WorkOf(kind, target) == [b \in Blocks |-> IF split THEN PlanOf(b, kind, target) ELSE {}]

StagesOf(kind, work) ==
    (IF split \/ kind # "full" THEN {} ELSE {"split"} \union Stages)
    \union (UNION {work[b] : b \in Blocks})
    \union (IF kind \in WholeKinds THEN {"render"} ELSE {})

\* regenerate_visual and regenerate_audio: work on one block that exists.
AsksForBlock(kind, target) == kind \in Kinds \ WholeKinds /\ target \in Blocks /\ split

\* rerender_block and its sibling for the project: "the final MP4 is project-wide".
AsksForRender(kind, target) == kind = "rerender" /\ target = None /\ MediaReady

\* create_pending_job behind the routes and operations that request generation.
Request(kind, target) ==
    /\ Idle
    /\ job.id < MaxJobs
    /\ \/ kind = "full" /\ target = None
       \/ AsksForBlock(kind, target)
       \/ AsksForRender(kind, target)
    /\ job' = [id |-> job.id + 1, kind |-> kind, target |-> target, status |-> "pending"]
    /\ UNCHANGED <<blockVars, run, known, changed, directory, artifact, counters>>

-----------------------------------------------------------------------------
(* run_generation_job.  The coroutine is "between" two stages, in a stage     *)
(* with the blocks left to do, or on its way to publication.                  *)

\* Mutation of Mutable: the narration and its timing are not excused.
MutableWithoutAudio ==
    LET s == IF run.at \in {"candidate", "renamed"} THEN "render" ELSE run.at IN
    {p \in FileProducts : p[2] = s /\ s # "audio" /\ s \in run.work[p[1]]}

\* The files a stage may rewrite under the guard's eyes (mutable_paths); the
\* last stage keeps them until the job ends.
Mutable ==
    LET s == IF run.at \in {"candidate", "renamed"} THEN "render" ELSE run.at IN
    {p \in FileProducts : p[2] = s /\ s \in run.work[p[1]]}

\* guard and verify_materials: every recorded file is as recorded.  The other
\* checks of guard hold while the inputs of an active job are frozen.
Guard == Running /\ run.expected \intersect run.written \subseteq Mutable

\* collect_completed_materials: the files that exist and count as done.
CompletedMaterials ==
    {p \in FileProducts : status[p[1]][p[2]] = "completed" /\ Exists(p[1], p[2])}

\* The claim of a pending job and the plan of its work; the requested plan is
\* computed anew, because a restart may lie in between.  run.genuine is not in the
\* code: it remembers for FinalVideoIsCurrent what the job found.
Begin ==
    /\ job.status = "pending"
    /\ job' = [job EXCEPT !.status = "running"]
    /\ LET work == WorkOf(job.kind, job.target) IN
       run' = [at |-> "between", todo |-> StagesOf(job.kind, work), work |-> work,
               left |-> {}, block |-> "idle", expected |-> CompletedMaterials, written |-> {},
               genuine |-> \A b \in Blocks, s \in Stages : content[b][s] # "altered"]
    /\ UNCHANGED <<blockVars, known, changed, directory, artifact, counters>>

IsNext(s) == s \in run.todo /\ \A t \in run.todo : Rank[s] <= Rank[t]

\* checkpoint: the completed files are recorded for the guard, for the planner
\* and for a restart.
Checkpoint ==
    /\ known' = [known EXCEPT !["jobs"] = @ \union CompletedMaterials']
    /\ changed' = [changed EXCEPT !["jobs"] = @ \ CompletedMaterials']

Leave(s) ==
    [run EXCEPT !.at = "between", !.todo = @ \ {s}, !.left = {}, !.block = "idle",
                !.expected = CompletedMaterials', !.written = {}]

\* run_split_stage on a project without blocks, and the plan of their work.
Split ==
    /\ Guard
    /\ run.at = "between" /\ IsNext("split")
    /\ split' = TRUE
    /\ UNCHANGED <<pacing, visual, status, content, slides, job, directory, artifact, counters>>
    /\ Checkpoint
    /\ run' = [Leave("split") EXCEPT !.work = [b \in Blocks |-> Stages]]

\* Mutation of Reset: the mark of a stage in work gets committed.
ResetToRunning(s, selected) ==
    [b \in Blocks |-> IF b \in selected THEN [status[b] EXCEPT ![s] = "running"] ELSE status[b]]

\* The statuses of the selected blocks, committed before a stage touches a file.
Reset(s, selected) ==
    [b \in Blocks |-> IF b \in selected THEN [status[b] EXCEPT ![s] = "pending"] ELSE status[b]]

\* Files that collect_render_materials and run_render_stage insist on.
RenderInputsExist == \A b \in Blocks : Exists(b, "image") /\ Exists(b, "audio")

\* The head of the stage loop.  The render stage visits every block, and passes
\* over one whose video counts as done.
BeginStage(s) ==
    /\ Guard
    /\ run.at = "between" /\ IsNext(s)
    /\ LET selected == {b \in Blocks : s \in run.work[b]} IN
         /\ status' = Reset(s, selected)
         /\ run' = [run EXCEPT !.at = s,
               !.left = IF s # "render" THEN selected
                        ELSE {b \in Blocks : status'[b]["render"] # "completed"
                                             \/ ~Exists(b, "render")}]
    /\ s = "render" => split /\ MediaReady /\ RenderInputsExist
    /\ UNCHANGED <<split, pacing, visual, content, slides, job, known, changed,
                   directory, artifact, counters>>

\* run_visual_plan_stage: the blocks are planned together and committed
\* together; one whose planner failed fails the job after the commit.
PlanStage(failing) ==
    /\ Guard
    /\ run.at = "plan" /\ run.block = "idle"
    /\ failing \subseteq run.left
    /\ LET planned == run.left \ failing
           reset == {"image", "render"} \union (IF pacing = "adaptive" THEN {"audio"} ELSE {})
       IN /\ status' = [b \in Blocks |-> [s \in Stages |->
                 CASE s = "plan" /\ b \in planned -> "completed"
                   [] s = "plan" /\ b \in failing -> "failed"
                   [] s \in reset /\ b \in planned -> "pending"
                   [] OTHER -> status[b][s]]]
          /\ content' = [b \in Blocks |->
                 IF b \notin planned THEN content[b]
                 ELSE [Outdate(content[b], Readers("plan")) EXCEPT !["plan"] = "fresh"]]
          /\ slides' = [b \in Blocks |->
                 IF b \in planned THEN OutdateSlides(b, Readers("plan")) ELSE slides[b]]
    /\ \E types \in [Blocks -> {"drawn", "ai"}] :
         /\ \A b \in Blocks : types[b] \in (IF b \in run.left \ failing THEN VisualTypes(b) ELSE {visual[b]})
         /\ visual' = types
    /\ IF failing = {} THEN Checkpoint /\ run' = Leave("plan")
       ELSE run' = [run EXCEPT !.block = "failed"] /\ UNCHANGED <<known, changed>>
    /\ UNCHANGED <<split, pacing, job, directory, artifact, counters>>

\* The block a stage is on: blocks are taken in the order of their index.
Current == CHOOSE b \in run.left : \A c \in run.left : b <= c

\* _render_block_image, the additional slides: a drawn sequence, of one or of several
\* pictures, replaces them and removes the surplus; an AI image leaves them where they are.
SlidesMeanwhile(b) ==
    IF visual[b] = "drawn" /\ (b \in LongBlocks \/ slides[b] # "none") THEN "stale" ELSE slides[b]

\* Mutation of SlidesAfter: the surplus of a longer sequence is not removed.
SlidesAfterKept(b, several) ==
    CASE visual[b] = "ai" -> IF slides[b] = "none" THEN "none" ELSE "untracked"
      [] visual[b] # "ai" /\ several -> "fresh"
      [] OTHER -> slides[b]

SlidesAfter(b, several) ==
    CASE visual[b] = "ai" -> IF slides[b] = "none" THEN "none" ELSE "untracked"
      [] visual[b] # "ai" /\ several -> "fresh"
      [] OTHER -> "none"

\* A file is being written: the image and the narration in place, the video
\* beside the old one.
StartMaterial ==
    /\ Guard
    /\ run.at \in Files /\ run.left # {} /\ run.block = "idle"
    /\ run' = [run EXCEPT !.block = "writing", !.written =
                   IF run.at = "render" THEN @ ELSE @ \union {<<Current, run.at>>}]
    /\ IF run.at = "render"
       THEN Exists(Current, "image") /\ Exists(Current, "audio") /\ UNCHANGED <<content, changed>>
       ELSE /\ content' = [content EXCEPT ![Current][run.at] = "torn"]
            /\ changed' = Differs({<<Current, run.at>>})
    /\ slides' = IF run.at # "image" THEN slides
                 ELSE [slides EXCEPT ![Current] = SlidesMeanwhile(Current)]
    /\ UNCHANGED <<split, pacing, visual, status, job, known, directory, artifact, counters>>

\* What a video encoded from the present image, narration and additional slides is worth;
\* _block_slides takes those it finds.
Encoded(b) ==
    LET inputs == {content[b]["image"], content[b]["audio"], slides[b]} \ {"none"} IN
    CASE inputs = {"fresh"} -> "fresh"
      [] "altered" \in inputs -> "altered"
      [] inputs # {"fresh"} /\ inputs \subseteq {"fresh", "untracked"} -> "untracked"
      [] OTHER -> "stale"

\* The new file is in place and its status not yet committed.
WriteMaterial ==
    /\ Running /\ run.block = "writing"
    /\ LET b == Current IN
         /\ run.at = "render" => Guard
         /\ content' = [content EXCEPT ![b] =
               IF run.at = "render" THEN [@ EXCEPT !["render"] = Encoded(b)]
               ELSE [Outdate(@, Readers(run.at)) EXCEPT ![run.at] = "fresh"]]
         /\ \E several \in {FALSE, (b \in LongBlocks)} :
              slides' = [slides EXCEPT ![b] = IF run.at = "image" THEN SlidesAfter(b, several) ELSE @]
         /\ run' = [run EXCEPT !.block = "written", !.written = @ \union {<<b, run.at>>}]
         /\ changed' = Differs({<<b, run.at>>})
    /\ UNCHANGED <<split, pacing, visual, status, job, known, directory, artifact, counters>>

\* ... and now it is: a new image or narration calls for a new video.  The last
\* block of the image or the audio stage is followed by the checkpoint.
CommitMaterial ==
    /\ Guard
    /\ run.block = "written"
    /\ UNCHANGED <<split, pacing, visual, content, slides, job, directory, artifact, counters>>
    /\ status' = [status EXCEPT ![Current] =
           IF run.at = "render" THEN [@ EXCEPT !["render"] = "completed"]
           ELSE [@ EXCEPT ![run.at] = "completed", !["render"] = "pending"]]
    /\ IF run.at # "render" /\ run.left = {Current} THEN Checkpoint /\ run' = Leave(run.at)
       ELSE /\ run' = [run EXCEPT !.left = @ \ {Current}, !.block = "idle"]
            /\ UNCHANGED <<known, changed>>

-----------------------------------------------------------------------------
(* Publication: the end of run_render_stage and artifact_store.py *)

Concatenate ==
    /\ Guard
    /\ run.at = "render" /\ run.left = {} /\ run.block = "idle"
    /\ \A b \in Blocks : Exists(b, "render")
    /\ directory' = [directory EXCEPT ![job.id] = @ \union {"candidate"}]
    /\ run' = [run EXCEPT !.at = "candidate"]
    /\ UNCHANGED <<blockVars, job, known, changed, artifact, counters>>

\* _destination_is_referenced: a row names the video that would be replaced.
DestinationIsReferenced == job.id \in artifact

\* publish_artifact up to candidate.replace(final): the recorded files are
\* verified again, and no row may refer to the destination.
Rename ==
    /\ Guard
    /\ run.at = "candidate"
    /\ "candidate" \in directory[job.id]
    /\ \A b \in Blocks : Exists(b, "render")
    /\ ~DestinationIsReferenced
    /\ directory' = [directory EXCEPT ![job.id] = {"final"}]
    /\ run' = [run EXCEPT !.at = "renamed"]
    /\ UNCHANGED <<blockVars, job, known, changed, artifact, counters>>

\* The commit of the artifact, the current pointer and the end of the job.  An
\* exception may still reach the caller after it.
Publish(raises) ==
    /\ Running /\ run.at = "renamed"
    /\ artifact' = artifact \union {job.id}
    /\ job' = [job EXCEPT !.status = "completed"]
    /\ known' = [known EXCEPT !["artifact"] = FileProducts]
    /\ changed' = [changed EXCEPT !["artifact"] = {}]
    /\ run' = IF raises THEN [run EXCEPT !.at = "raised"] ELSE NoRun
    /\ UNCHANGED <<blockVars, directory, counters>>

\* A targeted job ends without a video.
FinishPart ==
    /\ Guard
    /\ run.at = "between" /\ run.todo = {}
    /\ job' = [job EXCEPT !.status = "completed"]
    /\ run' = NoRun
    /\ UNCHANGED <<blockVars, known, changed, directory, artifact, counters>>

\* Mutation of Discarded: nobody asks whether the video has been published.
DiscardedBlindly == {}

\* discard_unpublished_output
Discarded == IF job.id \in artifact THEN directory[job.id] ELSE {}

\* Any exception: a provider, FFmpeg, the guard, a refused publication, a
\* cancellation at a boundary.  A block in work is marked failed, the output
\* directory discarded, and the registry ends a job that is still running.
Fail ==
    /\ Running
    /\ status' = IF run.block \in {"writing", "written"} /\ run.at # "render"
                 THEN [status EXCEPT ![Current][run.at] = "failed"] ELSE status
    /\ directory' = [directory EXCEPT ![job.id] = Discarded]
    /\ job' = [job EXCEPT !.status = IF @ = "running" THEN "failed" ELSE @]
    /\ run' = NoRun
    /\ UNCHANGED <<split, pacing, visual, content, slides, known, changed, artifact, counters>>

-----------------------------------------------------------------------------
(* Faults *)

\* The process stops: everything but rows and files is gone.
Crash ==
    /\ Running
    /\ crashes + outside < MaxFaults
    /\ crashes' = crashes + 1
    /\ run' = NoRun
    /\ UNCHANGED <<blockVars, job, known, changed, directory, artifact, edits, outside>>

\* mark_interrupted_operation_jobs: _can_resume finds the inputs of the last
\* checkpoint unchanged, or not (the runtime settings may have changed).
Restart ==
    /\ job.status = "running" /\ ~Running
    /\ \E outcome \in {"pending", "failed"} : job' = [job EXCEPT !.status = outcome]
    /\ UNCHANGED <<blockVars, run, known, changed, directory, artifact, counters>>

\* A file disappears, or one that a running job guards is overwritten.  A file
\* that no checkpoint has recorded yet is left out here: after a restart nothing
\* tells whether it was exchanged meanwhile.
OutsideChange(b, s, how) ==
    /\ crashes + outside < MaxFaults
    /\ content[b][s] \in {"fresh", "untracked", "stale"}
    /\ how = "altered" => Running /\ <<b, s>> \in (run.expected \ Mutable)
                                      \intersect (known["jobs"] \union known["artifact"])
    /\ run.at = s => run.block = "idle"
    /\ outside' = outside + 1
    /\ content' = [content EXCEPT ![b][s] = how]
    /\ changed' = Differs({<<b, s>>})
    /\ run' = IF Running THEN [run EXCEPT !.written = @ \union {<<b, s>>}] ELSE run
    /\ UNCHANGED <<split, pacing, visual, status, slides, job, known, directory, artifact,
                   edits, crashes>>

-----------------------------------------------------------------------------
Next ==
    \/ \E b \in Blocks, source, tts \in BOOLEAN, plan \in {"keep", "new", "same", "null"},
          type \in {"drawn", "ai"} : PatchBlock(b, source, tts, plan, type)
    \/ \E setting \in Settings : ChangeSettings(setting)
    \/ \E kind \in Kinds, target \in Blocks \union {None} : Request(kind, target)
    \/ Begin
    \/ Split
    \/ \E s \in Stages : BeginStage(s)
    \/ \E failing \in SUBSET Blocks : PlanStage(failing)
    \/ StartMaterial
    \/ WriteMaterial
    \/ CommitMaterial
    \/ Concatenate
    \/ Rename
    \/ \E raises \in BOOLEAN : Publish(raises)
    \/ FinishPart
    \/ Fail
    \/ Crash
    \/ Restart
    \/ \E b \in Blocks, s \in Files, how \in {"absent", "altered"} : OutsideChange(b, s, how)

Spec == Init /\ [][Next]_vars

-----------------------------------------------------------------------------
(* Properties *)

TypeOK ==
    /\ split \in BOOLEAN
    /\ pacing \in {"fixed", "adaptive"}
    /\ visual \in [Blocks -> {"drawn", "ai"}]
    /\ status \in [Blocks -> [Stages -> Status]]
    /\ content \in [Blocks -> [Stages -> Content]]
    /\ slides \in [Blocks -> {"none", "fresh", "untracked", "stale"}]
    /\ job \in [id : 0 .. MaxJobs, kind : Kinds, target : Blocks \union {None},
                status : {"none", "pending", "running", "completed", "failed"}]
    /\ run = NoRun \/ run \in
         [at : {"between", "plan", "image", "audio", "render", "candidate", "renamed", "raised"},
          todo : SUBSET DOMAIN Rank, work : [Blocks -> SUBSET Stages], left : SUBSET Blocks,
          block : {"idle", "writing", "written", "failed"},
          expected : SUBSET FileProducts, written : SUBSET FileProducts, genuine : BOOLEAN]
    /\ known \in [Layers -> SUBSET FileProducts]
    /\ changed \in [Layers -> SUBSET FileProducts]
    /\ directory \in [JobIds -> SUBSET {"candidate", "final"}]
    /\ artifact \in SUBSET JobIds
    /\ edits \in 0 .. MaxEdits /\ outside \in 0 .. MaxFaults /\ crashes \in 0 .. MaxFaults

Damaged == {"absent", "altered"}

\* A status counts as done as the planner reads it: a video is not done as long
\* as its image or its narration is not.
Done(b, s) ==
    /\ status[b][s] = "completed"
    /\ s = "render" => status[b]["image"] = "completed" /\ status[b]["audio"] = "completed"

\* What a product is worth that counts as done: every input of the narration resets its
\* status, of the others only some do.
Worth(s) == IF s = "audio" THEN {"fresh"} ELSE {"fresh", "untracked"}

\* Additional slides are of the picture, or they are left of drawn pictures where an AI
\* picture took their place, or drawn with the picture from an older narration text.
SlidesAreTheirs(b) ==
    \/ slides[b] \in {"none", "fresh"}
    \/ slides[b] = "untracked" /\ visual[b] = "ai"
    \/ slides[b] = "untracked" /\ content[b]["image"] \in {"untracked"} \union Damaged

\* A video has older material in it only where its picture or its slides are.
VideoIsExplained(b) ==
    content[b]["render"] = "untracked" =>
      slides[b] = "untracked" \/ content[b]["image"] \in {"untracked"} \union Damaged

\* What counts as done was never overtaken by an edit, a setting or a newer
\* input, and is no half-written file: not after any sequence of patches,
\* settings, partial jobs, failures and crashes.  Only a change behind the
\* program's back can make it untrue, and what no status follows: an older narration
\* text under a plan or a picture (never under a narration), and what a video has of it.
StatusesAreTruthful ==
    \A b \in Blocks :
      /\ \A s \in Stages : Done(b, s) => content[b][s] \in Worth(s) \union Damaged
      /\ Done(b, "image") => SlidesAreTheirs(b)
      /\ Done(b, "render") => VideoIsExplained(b)

GetsFinalName(j) == directory'[j] = {"final"} /\ directory[j] # {"final"}

\* A video gets its final name, under which it is published, only when every
\* block in it is up to date, back to the source text; and no file that was
\* genuine when the job began was exchanged under its hands.  Excepted is again what no
\* status follows: the narration text a plan or a picture was made from, and leftover slides.
UpToDate(b, excused) ==
    /\ \A s \in Stages : content[b][s] \in Worth(s) \union excused
    /\ SlidesAreTheirs(b) /\ VideoIsExplained(b)

FinalVideoIsCurrent ==
    [][\A j \in JobIds : GetsFinalName(j) =>
         \A b \in Blocks : UpToDate(b, IF run.genuine THEN {} ELSE {"altered"})]_vars

\* guard compares files with what the job itself recorded.  As long as nobody
\* else touches them it never stops a job: the job excuses exactly the files it
\* is about to rewrite and records them again afterwards.
GuardTrustsOwnWork == Running /\ outside = 0 /\ run.at # "raised" => Guard

\* Every row of the history has its video, and it is never the unfinished one:
\* no crash, failure or cleaning up takes a published video away.
PublishedVideoStays == \A j \in artifact : "final" \in directory[j]

\* What the rows say of the products is true: of those in work, and of those published.
RowsAreTruthful == TypeOK /\ StatusesAreTruthful /\ PublishedVideoStays
=============================================================================
