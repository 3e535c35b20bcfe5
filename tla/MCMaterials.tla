----------------------------- MODULE MCMaterials -----------------------------
(***************************************************************************)
(* The products of a generation job for TLC, and side by side with them    *)
(* what its stages compute: how the split stage makes blocks of a script   *)
(* (ScriptSplit), how the blocks come to their pictures (VisualPlanning),  *)
(* and when captions and pictures change in the video of a block           *)
(* (CaptionTiming).  They share no state here: "at" says in the first      *)
(* state which of them the behaviour is about, and the others stay in an   *)
(* initial state of theirs.                                                *)
(*                                                                         *)
(* Blocks are numbers, because the stages take them in the order of their  *)
(* index; there is no symmetry.                                            *)
(***************************************************************************)
EXTENDS Materials, Sequences

VARIABLE at
VARIABLES s_script, s_segments, s_phase, s_blocks, s_repairs
VARIABLES c_text, c_audio, c_video
s_vars == <<s_script, s_segments, s_phase, s_blocks, s_repairs>>
VARIABLES v_source, v_cap, v_plan, v_status, v_reason, v_pictures, v_drawn, v_phase, v_task,
          v_cancelled, v_journal, v_heard, v_jobs, v_style, v_styleOf, v_expected
c_vars == <<c_text, c_audio, c_video>>
v_vars == <<v_source, v_cap, v_plan, v_status, v_reason, v_pictures, v_drawn, v_phase, v_task,
            v_cancelled, v_journal, v_heard, v_jobs, v_style, v_styleOf, v_expected>>

\* Scripts of one to three segments: two listings that end up in two blocks, a sentence so
\* long that it is cut through a token, and one that fits in one request.
Scripts == {<<"x", "x", ".", "A", "n", "x", "x", ".", "B">>,
            <<"x", "x", "x", "x", "A", "x", "x">>,
            <<"x", "A", " ", " ", "x", ".", "B">>}

S == INSTANCE ScriptSplit WITH SegmentChars <- 6, MinChars <- 2, TargetChars <- 4,
    MaxChars <- 5, MaxAttempts <- 2, Concurrency <- 1, MaxCuts <- 1, Growth <- 3,
    RepairChars <- {0, 2, 4, 5, 7},
    script <- s_script, segments <- s_segments, phase <- s_phase, blocks <- s_blocks,
    repairs <- s_repairs

\* A short sentence, one that needs several lines, and an identifier with its mark.
Short == <<"x", "h", ".">>
Long == <<"x", "x", "h", ",", "x", "x", "x", "h", "x", "x", "x", "x", "h", ".">>
Identifier == <<"i", "i", "!", "h", "x", ".">>

C == INSTANCE CaptionTiming WITH
    Texts <- {Short \o Long, Long \o Short \o <<" ">>, Identifier \o Short,
              <<" ">> \o Short \o <<" ">> \o Long, Short \o Short \o Short, <<" ">>},
    SpeechMs <- {0, 900, 3000}, Pauses <- {600}, Drifts <- {0 - 7},
    Layouts <- {[band |-> b, font |-> 30, chars |-> 8] : b \in {70, 107}},
    Images <- {1, 3}, Focuses <- {<<1, 2, 1>>, <<0, 1, 2>>, <<1, 0, 1>>},
    MaxEvents <- 2, MaxVariants <- 1,
    text <- c_text, audio <- c_audio, video <- c_video

\* Every kind of answer for a block that is alone, and few for two blocks.
Proposal(kind, body, code) == [kind |-> kind, body |-> body, code |-> code, spec |-> "none"]
FewAnswers == {Proposal("diagram", "list1", "none"), Proposal("pointer", "none", "none")}
AllAnswers == FewAnswers \cup
  {Proposal("text", "none", "none"), Proposal("formula", "none", "list1"),
   Proposal("code", "none", "own"), Proposal("code", "none", "none"),
   Proposal("diagram", "graph", "none"), Proposal("diagram", "spec", "none"),
   Proposal("pointer", "spec", "none")}
FewSources == {<<"slide", "list1">>, <<"art", "list1", "list2">>}
AllSources == FewSources \cup {<<>>, <<"empty", "slide">>, <<"endless">>}

Alone == INSTANCE VisualPlanning WITH Blocks <- {1}, Scripts <- AllSources,
    Answers <- AllAnswers, Caps <- {1, 3}, Concurrency <- 1, MaxJobs <- 2,
    source <- v_source, cap <- v_cap, plan <- v_plan, status <- v_status, reason <- v_reason,
    pictures <- v_pictures, drawn <- v_drawn, phase <- v_phase, task <- v_task,
    cancelled <- v_cancelled, journal <- v_journal, heard <- v_heard, jobs <- v_jobs,
    style <- v_style, styleOf <- v_styleOf, expected <- v_expected

Both == INSTANCE VisualPlanning WITH Blocks <- {1, 2}, Scripts <- FewSources,
    Answers <- FewAnswers, Caps <- {2}, Concurrency <- 2, MaxJobs <- 2,
    source <- v_source, cap <- v_cap, plan <- v_plan, status <- v_status, reason <- v_reason,
    pictures <- v_pictures, drawn <- v_drawn, phase <- v_phase, task <- v_task,
    cancelled <- v_cancelled, journal <- v_journal, heard <- v_heard, jobs <- v_jobs,
    style <- v_style, styleOf <- v_styleOf, expected <- v_expected

AllInit ==
  /\ at \in {"materials", "split", "captions", "picture", "pictures"}
  /\ IF at = "materials" THEN Init ELSE Init /\ pacing = "fixed"
  /\ IF at = "split" THEN S!Init ELSE S!Init /\ s_script = CHOOSE s \in Scripts : TRUE
  /\ IF at = "captions" THEN C!Init ELSE C!Init /\ c_text = <<" ">>
  /\ CASE at = "picture" -> Alone!Init
       [] at = "pictures" -> Both!Init
       [] OTHER -> Alone!Init /\ v_source[1] = <<>> /\ v_cap = 1

\* Bound: a job for one block is asked for block 1, the one with every kind of picture.
Targets == {None, 1}

MaterialsNext ==
  at = "materials" /\ Next /\ job'.target \in Targets /\ UNCHANGED <<at, s_vars, c_vars, v_vars>>
SplitNext == at = "split" /\ S!Next /\ UNCHANGED <<at, vars, c_vars, v_vars>>
CaptionsNext == at = "captions" /\ C!Next /\ UNCHANGED <<at, vars, s_vars, v_vars>>
PictureNext == at = "picture" /\ Alone!Next /\ UNCHANGED <<at, vars, s_vars, c_vars>>
PicturesNext == at = "pictures" /\ Both!Next /\ UNCHANGED <<at, vars, s_vars, c_vars>>

AllNext == MaterialsNext \/ SplitNext \/ CaptionsNext \/ PictureNext \/ PicturesNext

AllSpec == AllInit /\ [][AllNext]_<<at, vars, s_vars, c_vars, v_vars>>

-----------------------------------------------------------------------------
(* Properties.                                                             *)

\* What the split stage makes of a script, whatever the model answers (ScriptSplit).
ScriptIsKept == at = "split" => S!ScriptIsKept

\* What the pictures of a project may be trusted for (VisualPlanning).
PicturesAreOfTheScript ==
  /\ at = "pictures" => Both!PicturesAreOfTheScript
  /\ at = "picture" => Alone!PicturesAreOfTheScript

\* The captions and pictures of a block follow its voice (CaptionTiming).
CaptionsFollowTheVoice == at = "captions" => C!CaptionsFollowTheVoice /\ C!PicturesFillTheBlock
=============================================================================
