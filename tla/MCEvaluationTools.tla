------------------------- MODULE MCEvaluationTools -------------------------
(***************************************************************************)
(* EvaluationTools for TLC, one tool at a time: "at" says in the first     *)
(* state which of them the behaviour is about, and the others stay in an   *)
(* initial state of theirs.  The evaluator has two slices, two evaluators  *)
(* with fewer mishaps and one with all; and so has the release, fewer      *)
(* mishaps with reviews that may be missing and all with both.             *)
(***************************************************************************)
EXTENDS EvaluationTools, TLC

CONSTANTS c1, c2, f1, f2, First,
          FewMishaps   \* bound: the mishaps of two evaluators, and where reviews may be missing

VARIABLE at

\* Two cases, of which both reviews approve both or the first.
MCApproved == (0 :> <<c1, c2>>) @@ (1 :> <<c1>>)

\* Results that meet every gate of every mode but the quality of one of them; all reviews,
\* or one of them only.
Gates == {"completion", "quality", "safety"}
MCResults ==
  {[m \in {"all_tools", "stateful"} |-> IF m = lacks THEN Gates \ {"quality"} ELSE Gates] :
     lacks \in {"all_tools", "stateful"}}
MCReviews == {{"human_operation", "independent_review"}, {"human_operation"}}

SliceInit ==
  /\ at \in {"trial", "evaluators", "evaluator", "runtime", "release", "reviews"}
  /\ ToolsInit
  /\ at # "trial" => t_case = CHOOSE c \in T!Cases : TRUE

\* The bounds of the slices.
FewerMishaps == e_mishaps' \in FewMishaps
FirstOnly == \A v \in Evaluators \ {First} : e_run'[v] = e_run[v]
AllReviewed == \A w \in R!Workers : r_work'[w].decision.reviews \in {{}, R!Kinds}

SliceNext ==
  /\ UNCHANGED at
  /\ \/ at = "trial" /\ TrialNext
     \/ at = "evaluators" /\ EvaluationNext /\ FewerMishaps
     \/ at = "evaluator" /\ EvaluationNext /\ FirstOnly
     \/ at = "runtime" /\ RuntimeNext
     \/ at = "release" /\ ReleaseNext /\ AllReviewed
     \/ at = "reviews" /\ ReleaseNext /\ r_mishaps' \in FewMishaps

Slices == SliceInit /\ [][SliceNext]_<<at, tools>>
=============================================================================
