--------------------------- MODULE VisualPlanning ---------------------------
(***************************************************************************)
(* How the blocks of a project come to their pictures: the visual plans,   *)
(* asked of the model for all blocks at once (services/visual_planner.py,  *)
(* run_visual_plan_stage), what the server makes of the answers, and the   *)
(* images drawn of the plans, the listings of the script behind them       *)
(* (_render_block_image).                                                  *)
(*                                                                         *)
(* The source of a block is the sequence of its fences: "slide" is drawn   *)
(* by the author, "empty" a slide without a body, "endless" one that is    *)
(* longer than a plan may be, "list1" and "list2" are listings and "art"   *)
(* is drawn with characters.  The answers of a job's calls are kept by its *)
(* journal: a request that is made again is answered from there.           *)
(***************************************************************************)
EXTENDS Integers, SequencesExt

CONSTANTS Blocks,
          Scripts,     \* the sources the blocks may have
          Answers,     \* what the model may propose
          Caps,        \* values of max_slides_per_block
          Concurrency, \* visual_plan_concurrency
          MaxJobs      \* bound

VARIABLES source, cap,   \* of the project
          style,         \* global_visual_style: the job it was generated by, or 0
          styleOf,       \* the style each block was planned with
          expected,      \* the style in the inputs the job compares with
          plan, status,  \* visual_plan_json, status_visual_plan
          reason,        \* error_message: why a block has no plan
          pictures,      \* image.png, image_1.png, ... of each block
          drawn,         \* status_image is completed
          phase,         \* where the job is
          task,          \* plan_one of each block
          cancelled,
          journal,       \* answers of this job, by request
          heard,         \* how often the model itself has answered for a block
          jobs

rows == <<source, cap, style, styleOf, plan, status, reason, pictures, drawn>>
vars == <<rows, expected, phase, task, cancelled, journal, heard, jobs>>

Listings == {"list1", "list2"}
None == "none"

\* A plan as far as it matters here; "text" stands for titles and comparisons, "pointer" for
\* the environment diagram as well.
Plan(kind) == [kind |-> kind, body |-> None, code |-> None, spec |-> None]
NoPlan == Plan("text")

-----------------------------------------------------------------------------
(* What the source says.                                                   *)

\* extract_authored_slide: the first slide fence, if it has a body.
Authored(fences) ==
  LET slides == SelectSeq(fences, LAMBDA f : f \in {"slide", "endless", "empty"}) IN
  IF slides = <<>> \/ slides[1] = "empty" THEN None ELSE slides[1]

\* extract_code_block: the first fence that looks like code.
Listing(fences) ==
  LET listings == SelectSeq(fences, LAMBDA f : f \in Listings) IN
  IF listings = <<>> THEN None ELSE listings[1]

\* extract_all_fences: whatever has a body.
Fences(fences) == SelectSeq(fences, LAMBDA f : f # "empty")

-----------------------------------------------------------------------------
(* What the server makes of an answer.                                     *)

\* _normalize_plan_payload: a specification that stands in the Mermaid field, or beside the
\* plan, is moved to its field; anything else there does not pass the schema.
Normalized(answer) ==
  IF answer.body = "spec"
  THEN [answer EXCEPT !.body = None, !.spec = IF answer.kind = "pointer" THEN "full" ELSE @]
  ELSE answer

\* Mutation of Enforced: listings are shown only when the model says so.
EnforcedAsChosen(p, fences) == p

\* _enforce_visual_type: a listing is shown, code is no diagram, and what has nothing to show
\* is a text.
Enforced(p, fences) ==
  LET listed == IF Listing(fences) # None /\ p.kind \notin {"code", "formula"}
                THEN [p EXCEPT !.kind = "code", !.code = Listing(fences)] ELSE p
      coded == IF listed.kind = "diagram" /\ listed.body \in Listings
               THEN [listed EXCEPT !.kind = "code", !.body = None,
                                   !.code = IF @ = None THEN listed.body ELSE @]
               ELSE listed
  IN IF \/ coded.kind = "pointer" /\ coded.spec # "full"
        \/ coded.kind = "code" /\ coded.code = None
     THEN [coded EXCEPT !.kind = "text"] ELSE coded

\* authored_plan: drawn as it stands.
AuthoredPlan(slide) == [Plan("verbatim") EXCEPT !.body = slide]

\* build_slide_sequence: the plan, and behind it the fences it does not show.
Shown(p) == IF p.kind = "code" THEN p.code ELSE IF p.kind = "verbatim" THEN p.body ELSE p.kind
Sequence(p, fences) ==
  IF p.kind = "verbatim" THEN <<Shown(p)>>
  ELSE LET others == SelectSeq(Fences(fences), LAMBDA f : f # p.code)
           all == <<Shown(p)>> \o others
       IN SubSeq(all, 1, IF Len(all) < cap THEN Len(all) ELSE cap)

-----------------------------------------------------------------------------
(* run_visual_plan_stage.                                                  *)

Unplanned == [at |-> "waiting", attempt |-> 1, plan |-> NoPlan]
Todo == {b \in Blocks : status[b] # "completed"}
Busy == {b \in Blocks : task[b].at \in {"choosing", "designing"}}

Init ==
  /\ source \in [Blocks -> Scripts] /\ cap \in Caps
  /\ plan = [b \in Blocks |-> NoPlan] /\ status = [b \in Blocks |-> "pending"]
  /\ reason = [b \in Blocks |-> None]
  /\ pictures = [b \in Blocks |-> <<>>] /\ drawn = {}
  /\ style = 0 /\ expected = 0 /\ styleOf = [b \in Blocks |-> 0]
  /\ phase = "styling" /\ task = [b \in Blocks |-> Unplanned] /\ cancelled = FALSE
  /\ journal = <<>> /\ heard = [b \in Blocks |-> 0] /\ jobs = 1

\* generate_global_style: a description made for the project, or a failure that ends the stage.
GenerateStyle ==
  \/ style' = jobs /\ phase' = "styled"
  \/ phase' = "raised" /\ UNCHANGED style

\* ensure_global_style: all blocks are planned with one style.  A project without one has it
\* generated, once; any failure ends the stage.
EnsureStyle ==
  /\ phase = "styling"
  /\ \/ style # 0 /\ ~cancelled /\ phase' = "planning" /\ UNCHANGED style
     \/ style = 0 /\ ~cancelled /\ GenerateStyle
     \/ cancelled /\ phase' = "raised" /\ UNCHANGED style
  /\ UNCHANGED <<source, cap, styleOf, plan, status, reason, pictures, drawn, expected, task,
                 cancelled, journal, heard, jobs>>

\* Mutation of AcceptGeneratedInputs: the job goes on with the inputs it began with.
AcceptNothing == UNCHANGED expected

\* checkpoint: the style is an input of the job, which goes on with the new one.
AcceptGeneratedInputs == expected' = style

\* The job takes the style over, or ends between the two commits.
Accept ==
  /\ phase = "styled"
  /\ \/ AcceptGeneratedInputs /\ phase' = "planning"
     \/ phase' = "raised" /\ UNCHANGED expected
  /\ UNCHANGED <<rows, task, cancelled, journal, heard, jobs>>

\* _check_boundary.
Boundary == ~cancelled /\ expected = style

Set(b, at, attempt, p) == task' = [task EXCEPT ![b] = [at |-> at, attempt |-> attempt, plan |-> p]]

\* plan_one until its first call; an authored slide needs none, and one that is no valid plan
\* raises past the stage.
Begin(b) ==
  /\ phase = "planning" /\ b \in Todo /\ task[b].at = "waiting"
  /\ LET slide == Authored(source[b]) IN
     \/ /\ cancelled /\ Set(b, "skipped", 1, NoPlan) /\ UNCHANGED phase
     \/ /\ ~cancelled /\ slide = "endless" /\ phase' = "raised" /\ UNCHANGED task
     \/ /\ ~cancelled /\ slide = "slide" /\ Set(b, "planned", 1, AuthoredPlan(slide))
        /\ UNCHANGED phase
     \/ /\ ~cancelled /\ slide = None /\ Cardinality(Busy) < Concurrency
        /\ Set(b, "choosing", 1, NoPlan) /\ UNCHANGED phase
  /\ UNCHANGED <<rows, expected, cancelled, journal, heard, jobs>>

\* Mutation of AttemptRequest: the second request is the first one again.
AttemptRequestAgain(b, what, attempt) == <<b, what, 1>>

\* _attempt_request: a retry says what was wrong with the answer before.
AttemptRequest(b, what, attempt) == <<b, what, attempt>>

\* What may become of a call besides an answer of use: the provider fails, the answer is of no
\* use, or nobody knows whether it was carried out.
Failures == {Plan("error"), Plan("invalid"), Plan("unknown")}

\* A call is answered by the model, or from the journal where it was answered before.
Answered(b, what, possible, Then(_)) ==
  LET request == AttemptRequest(b, what, task[b].attempt) IN
  IF request \in DOMAIN journal
  THEN Then(journal[request]) /\ UNCHANGED <<journal, heard>>
  ELSE \E answer \in possible \cup Failures :
         /\ Then(answer)
         /\ IF answer.kind \in {"error", "unknown"} THEN UNCHANGED <<journal, heard>>
            ELSE /\ journal' = (request :> answer) @@ journal
                 /\ heard' = [heard EXCEPT ![b] = @ + 1]

\* generate_visual_plan: an answer that is no plan is asked for once more; a failure of the
\* provider ends it, and an unknown outcome the job.
Choose(b) ==
  /\ phase = "planning" /\ task[b].at = "choosing"
  /\ LET Then(answer) ==
           CASE answer.kind = "unknown" -> phase' = "raised" /\ UNCHANGED task
             [] answer.kind = "error" -> Set(b, "failed", 1, NoPlan) /\ UNCHANGED phase
             [] answer.kind = "invalid" /\ task[b].attempt = 1 ->
                  Set(b, "choosing", 2, NoPlan) /\ UNCHANGED phase
             [] answer.kind = "invalid" -> Set(b, "invalid", 2, NoPlan) /\ UNCHANGED phase
             [] OTHER -> \E p \in {Normalized(answer)} :
                  /\ IF p.kind = "pointer" THEN Set(b, "designing", 1, p)
                     ELSE Set(b, "planned", 1, Enforced(p, source[b]))
                  /\ UNCHANGED phase
     IN Answered(b, "plan", Answers, Then)
  /\ UNCHANGED <<rows, expected, cancelled, jobs>>

\* A diagram with something in it, and one without.
Diagrams == {[Plan("pointer") EXCEPT !.spec = s] : s \in {"full", "hollow"}}

\* _design_diagram: whatever goes wrong is tried once more, then there is no diagram.
Design(b) ==
  /\ phase = "planning" /\ task[b].at = "designing"
  /\ LET p == task[b].plan
         Then(answer) ==
           CASE answer.kind = "unknown" -> phase' = "raised" /\ UNCHANGED task
             [] answer.kind \in {"error", "invalid"} /\ task[b].attempt = 1 ->
                  Set(b, "designing", 2, p) /\ UNCHANGED phase
             [] OTHER ->
                  /\ Set(b, "planned", 1, Enforced([p EXCEPT !.spec = answer.spec], source[b]))
                  /\ UNCHANGED phase
     IN Answered(b, "design", Diagrams, Then)
  /\ UNCHANGED <<rows, expected, cancelled, jobs>>

Cancel ==
  /\ phase \notin {"raised", "incomplete"} /\ ~cancelled /\ cancelled' = TRUE
  /\ UNCHANGED <<rows, expected, phase, task, journal, heard, jobs>>

\* All blocks are through: the plans are written together, and a block without one keeps the
\* plan it had.  The job goes on only when all of them have one (run_generation_job).  (No
\* call follows, so what the tasks and the journal hold is of no further use.)
Collect ==
  /\ phase = "planning"
  /\ \A b \in Todo : task[b].at \in {"planned", "failed", "invalid", "skipped"}
  /\ LET new == {b \in Todo : task[b].at = "planned"} IN
     IF ~Boundary THEN phase' = "raised" /\ UNCHANGED rows
     ELSE /\ plan' = [b \in Blocks |-> IF b \in new THEN task[b].plan ELSE plan[b]]
          /\ status' = [b \in Blocks |-> IF b \in new THEN "completed"
                                         ELSE IF b \in Todo THEN "failed" ELSE status[b]]
          /\ styleOf' = [b \in Blocks |-> IF b \in new THEN style ELSE styleOf[b]]
          /\ reason' = [b \in Blocks |-> IF b \in new THEN None
                                         ELSE IF b \in Todo THEN task[b].at ELSE reason[b]]
          /\ drawn' = drawn \ new
          /\ phase' = IF new = Todo THEN "drawing" ELSE "incomplete"
          /\ UNCHANGED <<source, cap, style, pictures>>
  /\ task' = [b \in Blocks |-> Unplanned] /\ journal' = <<>>
  /\ UNCHANGED <<expected, cancelled, heard, jobs>>

-----------------------------------------------------------------------------
(* run_image_stage.                                                        *)

\* A picture is put where one was.
Over(new, old) == new \o SubSeq(old, Len(new) + 1, Len(old))

\* Mutation of Removed: nothing is removed.
RemovedNone(all, many) == all

\* Pictures of an earlier, longer sequence are removed.
Removed(all, many) == SubSeq(all, 1, many)

\* _render_block_image, of the first block that needs it: all pictures, or some of them.
Draw(b) ==
  /\ phase = "drawing" /\ b \notin drawn /\ \A c \in Blocks : c < b => c \in drawn
  /\ LET sequence == Sequence(plan[b], source[b]) IN
     \/ /\ pictures' = [pictures EXCEPT ![b] = Removed(Over(sequence, @), Len(sequence))]
        /\ IF ~Boundary THEN phase' = "raised" /\ UNCHANGED drawn
           ELSE drawn' = drawn \cup {b} /\ UNCHANGED phase
     \/ \E k \in 0..Len(sequence) :
          /\ pictures' = [pictures EXCEPT ![b] = Over(SubSeq(sequence, 1, k), @)]
          /\ phase' = "raised" /\ UNCHANGED drawn
  /\ UNCHANGED <<source, cap, style, styleOf, expected, plan, status, reason, task, cancelled,
                 journal, heard, jobs>>

\* The next job, with its own journal; the script and the setting may have changed.  A changed
\* source resets the block (run_split_stage), a changed setting its images.
Again ==
  /\ jobs < MaxJobs /\ jobs' = jobs + 1
  /\ phase \in {"raised", "incomplete"} \/ (phase = "drawing" /\ drawn = Blocks)
  /\ cap' \in Caps
  /\ \E b \in Blocks, fences \in Scripts : source' = [source EXCEPT ![b] = fences]
  /\ LET changed == {b \in Blocks : source'[b] # source[b]} IN
     /\ status' = [b \in Blocks |-> IF b \in changed THEN "pending" ELSE status[b]]
     /\ drawn' = IF cap' # cap THEN {} ELSE drawn \ changed
  /\ phase' = "styling" /\ expected' = style /\ task' = [b \in Blocks |-> Unplanned]
  /\ cancelled' = FALSE /\ journal' = <<>> /\ heard' = [b \in Blocks |-> 0]
  /\ UNCHANGED <<style, styleOf, plan, reason, pictures>>

Next ==
  \/ \E b \in Blocks : Begin(b) \/ Choose(b) \/ Design(b) \/ Draw(b)
  \/ EnsureStyle \/ Accept \/ Cancel \/ Collect \/ Again

Spec == Init /\ [][Next]_vars

-----------------------------------------------------------------------------
(* Properties.                                                             *)

\* "The renderer never receives an empty diagram": what a completed plan says is there, and
\* what it draws as a diagram is none of the listings.
Drawable ==
  \A b \in Blocks : status[b] = "completed" =>
    /\ plan[b].kind = "pointer" => plan[b].spec = "full"
    /\ plan[b].kind = "code" => plan[b].code # None
    /\ plan[b].kind = "diagram" => plan[b].body \notin Listings

\* "The author has already said exactly what the slide shows": it is shown, alone, and no
\* model was asked; no other slide claims to be the author's.
AuthorIsObeyed ==
  \A b \in Blocks : status[b] = "completed" =>
    /\ plan[b].kind = "verbatim" <=> Authored(source[b]) # None
    /\ plan[b].kind = "verbatim" =>
         /\ plan[b].body = Authored(source[b])
         /\ b \in drawn => pictures[b] = <<plan[b].body>>
         /\ heard[b] = 0

\* "A script that packs several listings does not lose all but the first": every fence of a
\* planned block is on screen, as far as the number of pictures goes (or taken for shown,
\* because the plan has it as its code), and nothing of an earlier source or a longer sequence.
FencesAreShown ==
  \A b \in Blocks : status[b] = "completed" /\ b \in drawn /\ plan[b].kind # "verbatim" =>
    /\ Len(pictures[b]) <= cap
    /\ Len(pictures[b]) < cap =>
         \A f \in ToSet(Fences(source[b])) : f \in ToSet(pictures[b]) \cup {plan[b].code}
    /\ ToSet(Tail(pictures[b])) \subseteq ToSet(source[b])
    /\ plan[b].kind \in {"pointer", "diagram"} => Listing(source[b]) = None

\* "A retry has to differ from the first attempt to reach the model again": a block is given
\* up for invalid answers, and the job with it, only when the model has given two.
GivenUpAfterTwo ==
  phase = "incomplete" =>
    \A b \in Blocks : status[b] = "failed" /\ reason[b] = "invalid" => heard[b] >= 2

\* Nothing is drawn as long as a block of the project has no plan of its present source: not
\* after a job that planned some of them, and not after edits between two jobs.
AllIsPlanned == phase = "drawing" => \A b \in Blocks : status[b] = "completed"

\* "One style description shared by project blocks", over all jobs; and the style a job writes
\* does not look to it as if somebody had changed its inputs.
OneStyle ==
  /\ \A b \in Blocks : status[b] = "completed" => styleOf[b] = style
  /\ phase \in {"planning", "drawing"} => expected = style

\* What the pictures of a project may be trusted for.
PicturesAreOfTheScript ==
  /\ Drawable /\ AuthorIsObeyed /\ FencesAreShown /\ GivenUpAfterTwo /\ AllIsPlanned
  /\ OneStyle
=============================================================================
