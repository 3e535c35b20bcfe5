-------------------------- MODULE EvaluationTools --------------------------
(***************************************************************************)
(* The tools of the evaluation, from the trial of one case to the decision *)
(* on a release: the trial host and its scorer (TrialScoring, T), the      *)
(* blinded evaluator (EvaluationRun, E), the runtime of a verification     *)
(* (CandidateRuntime, C) and the evidence of a release (ReleaseEvidence,   *)
(* R).  They are programs of their own that meet in files only; here each  *)
(* has files of its own, and what it makes of any it may find is checked.  *)
(***************************************************************************)
EXTENDS Naturals, Sequences

CONSTANTS Works, MaxDeviations,           \* as in TrialScoring
          Evaluators, HeldOut, Approved,  \* as in EvaluationRun
          Files, Verifiers, Cleaners,     \* as in CandidateRuntime
          Freezers, Importers, Deciders,  \* as in ReleaseEvidence
          Paths, Results, Reviews,
          MaxMishaps                      \* bound: the mishaps of each of the last three

VARIABLES t_case, t_phase, t_store, t_before, t_submitted, t_confirmed, t_answer,
    t_replay, t_confirmation, t_effects, t_candidate, t_snapshot, t_ran, t_deviations
VARIABLES e_world, e_protocol, e_group, e_input, e_opened, e_record, e_partial, e_bundle,
    e_run, e_orphans, e_edited, e_overlap, e_mishaps
VARIABLES c_candidate, c_tool, c_runtime, c_marker, c_record, c_receipt, c_lock, c_maker,
    c_user, c_mishaps
VARIABLES r_checkout, r_tool, r_frozen, r_bundle, r_accepted, r_verification, r_json,
    r_md, r_work, r_marks, r_mishaps

t_vars == <<t_case, t_phase, t_store, t_before, t_submitted, t_confirmed, t_answer,
    t_replay, t_confirmation, t_effects, t_candidate, t_snapshot, t_ran, t_deviations>>
e_vars == <<e_world, e_protocol, e_group, e_input, e_opened, e_record, e_partial, e_bundle,
    e_run, e_orphans, e_edited, e_overlap, e_mishaps>>
c_vars == <<c_candidate, c_tool, c_runtime, c_marker, c_record, c_receipt, c_lock,
    c_maker, c_user, c_mishaps>>
r_vars == <<r_checkout, r_tool, r_frozen, r_bundle, r_accepted, r_verification, r_json,
    r_md, r_work, r_marks, r_mishaps>>
tools == <<t_vars, e_vars, c_vars, r_vars>>

T == INSTANCE TrialScoring WITH case <- t_case, phase <- t_phase, store <- t_store, before
    <- t_before, submitted <- t_submitted, confirmed <- t_confirmed, answer <- t_answer,
    replay <- t_replay, confirmation <- t_confirmation, effects <- t_effects, candidate <-
    t_candidate, snapshot <- t_snapshot, ran <- t_ran, deviations <- t_deviations
E == INSTANCE EvaluationRun WITH world <- e_world, protocol <- e_protocol, group <-
    e_group, input <- e_input, opened <- e_opened, record <- e_record, partial <-
    e_partial, bundle <- e_bundle, run <- e_run, orphans <- e_orphans, edited <- e_edited, overlap <-
    e_overlap, mishaps <- e_mishaps
C == INSTANCE CandidateRuntime WITH candidate <- c_candidate, tool <- c_tool, runtime <-
    c_runtime, marker <- c_marker, record <- c_record, receipt <- c_receipt, lock <-
    c_lock, maker <- c_maker, user <- c_user, mishaps <- c_mishaps
R == INSTANCE ReleaseEvidence WITH checkout <- r_checkout, tool <- r_tool, frozen <-
    r_frozen, bundle <- r_bundle, accepted <- r_accepted, verification <- r_verification,
    json <- r_json, md <- r_md, work <- r_work, marks <- r_marks, mishaps <-
    r_mishaps

\* Results meet gates of every mode, and reviews are of the kinds that are asked for.
ASSUME EvidenceAssumption ==
  /\ Results \subseteq [R!Modes -> SUBSET R!ModeGates] /\ Reviews \subseteq SUBSET R!Kinds
  /\ MaxMishaps \in Nat

\* The approved cases are held-out cases, in an order, in both versions of the inputs.
ASSUME EvaluationAssumption == Approved \in [0..1 -> Seq(HeldOut)]

\* Nobody that uses a runtime is called as its maker, or is nobody.
ASSUME UsersAssumption == C!None \notin C!Users /\ "maker" \notin C!Users

ToolsInit == T!Init /\ E!Init /\ C!Init /\ R!Init

TrialNext == T!Next /\ UNCHANGED <<e_vars, c_vars, r_vars>>
EvaluationNext == E!Next /\ UNCHANGED <<t_vars, c_vars, r_vars>>
RuntimeNext == C!Next /\ UNCHANGED <<t_vars, e_vars, r_vars>>
ReleaseNext == R!Next /\ UNCHANGED <<t_vars, e_vars, c_vars>>

ToolsNext == TrialNext \/ EvaluationNext \/ RuntimeNext \/ ReleaseNext

ToolsSpec == ToolsInit /\ [][ToolsNext]_tools

-----------------------------------------------------------------------------
(* Properties.                                                             *)

\* The verdict on a trial: the types, and the named parts of TrialScoring.
VerdictIsJust ==
  /\ T!TypeOK /\ T!CompleteMeansCorrect /\ T!CorrectIsComplete
  /\ T!ReplayVerdictIsJust /\ T!IdleIsNotAccused /\ T!OneCandidate

\* What the evaluator publishes: the types, and the named parts of EvaluationRun.
ResultsAreTheTrials ==
  /\ E!TypeOK /\ E!BundleIsTheRecords /\ E!PartialNeverOverstates
  /\ E!SealedEvidenceHolds /\ E!RefusedForCause

\* The runtime of a verification, and a verification that passed ran the frozen bytes:
\* the types, and the named parts of CandidateRuntime.
RuntimeIsAccountedFor == C!TypeOK /\ C!CleanedMeansGone /\ C!RestIsCleanable /\ C!PassedIsFrozen

\* A favourable decision rests on one candidate from end to end, and so does the evidence
\* below it: the types, and the named parts of ReleaseEvidence.
DecisionIsEarned ==
  /\ R!TypeOK /\ R!FrozenIsTheCommit /\ R!AcceptedIsValidated
  /\ R!PairIsOne /\ R!NoneIsLeftAlone /\ R!ReadyIsEarned

\* Records, the protocol and the bundle of the evaluator are published once, and so are the
\* publications of a release but for a decision.json that a process with this very decision
\* takes back; a maker removes nothing but its own (EvaluationRun, ReleaseEvidence,
\* CandidateRuntime).
NothingIsReplaced == R!NothingIsReplaced /\ E!PublishedOnce /\ C!OnlyOwnIsRemoved
=============================================================================
