--------------------------- MODULE ReleaseEvidence ---------------------------
(***************************************************************************)
(* The evidence a release is decided on: a candidate is frozen             *)
(* (release_candidate/freeze.py), the result of its evaluation is imported *)
(* (result_import.py), and with its verification, two reviews and the      *)
(* accepted limitations a decision is computed and published               *)
(* (release_decision.py).  Each stage runs on its own, reads what the      *)
(* earlier ones published, and publishes whole directories by a rename     *)
(* that replaces nothing; only the decision is two files, one after the    *)
(* other.                                                                  *)
(*                                                                         *)
(* The evaluation (EvaluationRun) and the verification (CandidateRuntime)  *)
(* are here what they promise: a bundle and a manifest about one frozen    *)
(* candidate.  A digest is the value it is the digest of.                  *)
(***************************************************************************)
EXTENDS Integers, FiniteSets

CONSTANTS Freezers, Importers, Deciders, \* the processes that run each of the tools
          Paths,     \* the files a freeze fingerprints
          Results,   \* results of an evaluation: the gates each mode meets
          Reviews,   \* the sets of completed reviews a decision may be given
          MaxMishaps \* bound: edits, replaced inputs and stages, kills and failed writes

Workers == Freezers \cup Importers \cup Deciders

VARIABLES
  checkout,     \* the candidate's working tree: the version of every file, its snapshot
  tool,         \* the version of the tooling repository
  frozen,       \* the freeze publications
  bundle,       \* result-bundle.json of the evaluation
  accepted,     \* the imported triplet: accepted-result.json, and what validation.json says
  verification, \* verification-manifest.json
  json, md,     \* decision.json and decision.md
  work,         \* the processes
  marks,        \* not in the code: what became of decisions between their two files
  mishaps

published == <<frozen, accepted, json, md>>
inputs == <<checkout, tool, bundle, verification>>
vars == <<published, inputs, work, marks, mishaps>>

-----------------------------------------------------------------------------
(* The evidence.                                                           *)

\* CandidateControl names one commit: version 0 of every file.
Committed == [p \in Paths |-> 0]
Clean == checkout.file = Committed

\* The gates of a mode.
Modes == {"all_tools", "stateful"}
ModeGates == {"completion", "quality", "safety"}

NoPublication == [file |-> [p \in Paths |-> 2], tool |-> 0, whole |-> TRUE]
NoBundle == [of |-> NoPublication, result |-> [m \in Modes |-> {}]]
NoTriplet == [bundle |-> NoBundle, digest |-> NoBundle, of |-> NoPublication, tool |-> 0]
NoVerification == [of |-> NoPublication, tool |-> 0, passed |-> FALSE]
NoDecision == [of |-> NoPublication, outcome |-> "none", triplet |-> NoTriplet,
               verification |-> NoVerification, reviews |-> {}, tool |-> 0]

\* The reviews of this candidate that must be completed.
Kinds == {"human_operation", "independent_review"}

Idle == [pc |-> "idle", file |-> NoPublication.file, snapshot |-> 0, tool |-> 0, whole |-> TRUE,
         publication |-> NoPublication, bundle |-> NoBundle, decision |-> NoDecision]

Init ==
  /\ checkout = [file |-> Committed, snapshot |-> 0] /\ tool = 0
  /\ frozen = {} /\ bundle = NoBundle /\ accepted = NoTriplet
  /\ verification = NoVerification
  /\ json = NoDecision /\ md = NoDecision
  /\ work = [w \in Workers |-> Idle]
  /\ marks = {} /\ mishaps = 0

Stop(w) == work' = [work EXCEPT ![w] = Idle]
Goto(w, pc) == work' = [work EXCEPT ![w].pc = pc]

-----------------------------------------------------------------------------
(* freeze_candidate.                                                       *)

FreezeBegins(w) ==
  /\ w \in Freezers /\ work[w].pc = "idle" /\ Clean
  /\ work' = [work EXCEPT ![w] = [Idle EXCEPT !.pc = "print", !.snapshot = checkout.snapshot]]
  /\ UNCHANGED <<published, inputs, marks, mishaps>>

\* fingerprint_files: the files are read one after the other.
Fingerprint(w, p) ==
  /\ work[w].pc = "print" /\ work[w].file[p] = 2
  /\ work' = [work EXCEPT ![w].file[p] = checkout.file[p]]
  /\ UNCHANGED <<published, inputs, marks, mishaps>>

\* Mutation of Unchanged: the checkout is clean again, so it did not change.
UnchangedIfClean(w) == Clean

\* The identity and the snapshot (times and inodes of every file) are those of the start.
Unchanged(w) == Clean /\ checkout.snapshot = work[w].snapshot

FreezeRechecks(w) ==
  /\ work[w].pc = "print" /\ \A p \in Paths : work[w].file[p] # 2
  /\ \/ Unchanged(w) /\ work' = [work EXCEPT ![w].pc = "claim", ![w].tool = tool]
     \/ ~Unchanged(w) /\ Stop(w)
  /\ UNCHANGED <<published, inputs, marks, mishaps>>

\* _create_staging_claim: a directory of a random name, its files held open.
FreezeClaims(w) ==
  /\ work[w].pc = "claim" /\ Goto(w, "stage")
  /\ UNCHANGED <<published, inputs, marks, mishaps>>

\* Mutation of ClaimHolds: it is not looked at.
ClaimHoldsUnread(w) == TRUE

\* _assert_claim_owned, before and after every write: the directory, its entries and its
\* files are those that were created, and hold what was written.
ClaimHolds(w) == work[w].whole

FreezeWrites(w) ==
  /\ work[w].pc = "stage" /\ ClaimHolds(w) /\ Goto(w, "staged")
  /\ UNCHANGED <<published, inputs, marks, mishaps>>

\* The staged directory is renamed to the candidate's identifier, which its content decides;
\* what has this name already stays.
FreezePublishes(w) ==
  /\ work[w].pc = "staged" /\ ClaimHolds(w)
  /\ \/ /\ \A f \in frozen : f.file # work[w].file
        /\ frozen' = frozen \cup {[file |-> work[w].file, tool |-> work[w].tool,
                                   whole |-> work[w].whole]}
     \/ /\ \E f \in frozen : f.file = work[w].file
        /\ UNCHANGED frozen
  /\ Stop(w)
  /\ UNCHANGED <<accepted, json, md, inputs, marks, mishaps>>

ClaimIsLost(w) ==
  /\ work[w].pc \in {"stage", "staged", "triplet"} /\ ~ClaimHolds(w) /\ Stop(w)
  /\ UNCHANGED <<published, inputs, marks, mishaps>>

\* read_frozen_candidate: the marker binds the files that are there.
Readable(f) == f.whole

-----------------------------------------------------------------------------
(* import_evaluation_result.                                               *)

\* The bundle names this publication: its candidate, its manifest, its tool.
Binds(b, f) == b.of = f

ImportReads(w, f) ==
  /\ w \in Importers /\ work[w].pc = "idle" /\ bundle # NoBundle /\ accepted = NoTriplet
  /\ Binds(bundle, f) /\ Readable(f)
  /\ work' = [work EXCEPT ![w] = [Idle EXCEPT !.pc = "reread", !.bundle = bundle,
                                              !.publication = f, !.tool = tool]]
  /\ UNCHANGED <<published, inputs, marks, mishaps>>

\* Everything is read again before anything is published.
ImportRereads(w) ==
  /\ work[w].pc = "reread"
  /\ \/ bundle = work[w].bundle /\ tool = work[w].tool /\ Goto(w, "triplet")
     \/ (bundle # work[w].bundle \/ tool # work[w].tool) /\ Stop(w)
  /\ UNCHANGED <<published, inputs, marks, mishaps>>

\* Mutation of AcceptedBytes: the bundle is copied from where it is.
AcceptedBytesCopied(w) == bundle

\* publish_accepted_triplet: the bytes that were validated.
AcceptedBytes(w) == work[w].bundle

ImportPublishes(w) ==
  /\ work[w].pc = "triplet" /\ ClaimHolds(w)
  /\ accepted' = IF accepted # NoTriplet THEN accepted
                 ELSE [bundle |-> AcceptedBytes(w), digest |-> work[w].bundle,
                       of |-> work[w].publication, tool |-> work[w].tool]
  /\ Stop(w)
  /\ UNCHANGED <<frozen, json, md, inputs, marks, mishaps>>

-----------------------------------------------------------------------------
(* The decision.                                                           *)

\* _shared_sources_current: evidence made by an older version of the shared tools.
Current(t) == t = tool

\* Mutation of Upstream: the verification may be one of an older tool.
UpstreamOfImport(f) ==
  /\ accepted # NoTriplet /\ accepted.of = f /\ accepted.bundle.of = f
  /\ verification # NoVerification /\ verification.of = f
  /\ Current(accepted.tool)

\* The gates of the inputs: both are there, bind the frozen candidate, and are current.
Upstream(f) ==
  /\ accepted # NoTriplet /\ accepted.of = f /\ accepted.bundle.of = f
  /\ verification # NoVerification /\ verification.of = f
  /\ Current(accepted.tool) /\ Current(verification.tool)

\* _mode_gates: the quality of the reference mode is reported and blocks nothing.
Required(m) == IF m = "stateful" THEN ModeGates ELSE ModeGates \ {"quality"}

\* decide_readiness: the names of the gates that failed.
Blockers(f, reviews) ==
  (IF Upstream(f) THEN {} ELSE {"upstream"})
  \cup (IF verification.passed THEN {} ELSE {"d39_integrity"})
  \cup (UNION {Required(m) \ accepted.bundle.result[m] : m \in Modes})
  \cup (Kinds \ reviews)

Outcome(f, reviews, limited) ==
  IF Blockers(f, reviews) # {} THEN "Not ready"
  ELSE IF limited THEN "Conditionally ready" ELSE "Ready"

\* publish_decision: the output directory is new or empty.  The reviews and the accepted
\* limitations are files given to the decision.
DecideReads(w, f) ==
  /\ w \in Deciders /\ work[w].pc = "idle" /\ Readable(f)
  /\ json = NoDecision /\ md = NoDecision
  /\ \E reviews \in Reviews, limited \in BOOLEAN :
       work' = [work EXCEPT ![w] = [Idle EXCEPT !.pc = "json",
         !.decision = [of |-> f, outcome |-> Outcome(f, reviews, limited), triplet |-> accepted,
                       verification |-> verification, reviews |-> reviews, tool |-> tool]]]
  /\ UNCHANGED <<published, inputs, marks, mishaps>>

\* publish_immutable: the file is linked into place, or is there with these bytes.
DecisionPublishes(w) ==
  /\ work[w].pc = "json"
  /\ \/ json \in {NoDecision, work[w].decision} /\ json' = work[w].decision /\ Goto(w, "md")
     \/ json \notin {NoDecision, work[w].decision} /\ UNCHANGED json /\ Stop(w)
  /\ UNCHANGED <<frozen, accepted, md, inputs, marks, mishaps>>

SummaryPublishes(w) ==
  /\ work[w].pc = "md" /\ md \in {NoDecision, work[w].decision}
  /\ md' = work[w].decision
  /\ Stop(w)
  /\ UNCHANGED <<frozen, accepted, json, inputs, marks, mishaps>>

\* Mutation of OwnJson: what is there is removed.
OwnJsonAlways(w) == TRUE

OwnJson(w) == json = work[w].decision

\* Another process has published, or is about to publish, the summary of the same decision.
Shared(w) ==
  \/ md = work[w].decision
  \/ \E v \in Workers \ {w} : work[v].pc = "md" /\ work[v].decision = work[w].decision

\* The summary cannot be published (its place is taken, or the write fails): decision.json is
\* removed again if its bytes are those of this decision, whoever linked it.
Withdraw(w) ==
  /\ json' = IF OwnJson(w) THEN NoDecision ELSE json
  /\ marks' = IF OwnJson(w) /\ Shared(w) THEN marks \cup {"shared"} ELSE marks
  /\ Stop(w)
  /\ UNCHANGED <<frozen, accepted, md, inputs>>

SummaryTaken(w) ==
  /\ work[w].pc = "md" /\ md \notin {NoDecision, work[w].decision}
  /\ Withdraw(w) /\ UNCHANGED mishaps

-----------------------------------------------------------------------------
(* The other stages, and what goes wrong.                                  *)

\* run_blinded_evaluation and verify_release_candidate.
Evaluate(f, r) ==
  /\ bundle = NoBundle /\ bundle' = [of |-> f, result |-> r]
  /\ UNCHANGED <<published, checkout, tool, verification, work, marks, mishaps>>

Verify(f) ==
  /\ verification = NoVerification
  /\ \E passed \in BOOLEAN : verification' = [of |-> f, tool |-> tool, passed |-> passed]
  /\ UNCHANGED <<published, checkout, tool, bundle, work, marks, mishaps>>

Mishap == mishaps < MaxMishaps /\ mishaps' = mishaps + 1

Edit(p) ==
  /\ Mishap
  /\ checkout' = [file |-> [checkout.file EXCEPT ![p] = 1 - @], snapshot |-> checkout.snapshot + 1]
  /\ UNCHANGED <<published, tool, bundle, verification, work, marks>>

UpdateTool ==
  /\ Mishap /\ tool = 0 /\ tool' = 1
  /\ UNCHANGED <<published, checkout, bundle, verification, work, marks>>

\* Somebody puts another result, or none, in the evaluator's place.
ReplaceBundle ==
  /\ Mishap /\ bundle # NoBundle
  /\ \E b \in {NoBundle} \cup {[bundle EXCEPT !.result = r] : r \in Results} : b # bundle /\ bundle' = b
  /\ UNCHANGED <<published, checkout, tool, verification, work, marks>>

ReplaceVerification ==
  /\ Mishap /\ verification # NoVerification /\ verification' = NoVerification
  /\ UNCHANGED <<published, checkout, tool, bundle, work, marks>>

\* Somebody changes or replaces the directory a process stages its files in.
Intrude(w) ==
  /\ work[w].pc \in {"stage", "staged", "triplet"} /\ work[w].whole /\ Mishap
  /\ work' = [work EXCEPT ![w].whole = FALSE]
  /\ UNCHANGED <<published, inputs, marks>>

\* A process dies, or can neither publish its summary nor remove its decision.json again; a
\* staged directory may be left beside the output, or decision.json in it.
Kill(w) ==
  /\ work[w].pc # "idle" /\ Mishap /\ Stop(w)
  /\ marks' = IF work[w].pc = "md" THEN marks \cup {"left"} ELSE marks
  /\ UNCHANGED <<published, inputs>>

SummaryFails(w) ==
  /\ work[w].pc = "md" /\ Mishap /\ Withdraw(w)

Step(w) ==
  \/ FreezeBegins(w) \/ FreezeRechecks(w) \/ FreezeClaims(w) \/ FreezeWrites(w)
  \/ FreezePublishes(w) \/ ClaimIsLost(w) \/ \E p \in Paths : Fingerprint(w, p)
  \/ ImportRereads(w) \/ ImportPublishes(w) \/ \E f \in frozen : ImportReads(w, f) \/ DecideReads(w, f)
  \/ DecisionPublishes(w) \/ SummaryPublishes(w) \/ SummaryTaken(w)

Environment ==
  \/ \E f \in frozen : Verify(f) \/ \E r \in Results : Evaluate(f, r)
  \/ UpdateTool \/ ReplaceBundle \/ ReplaceVerification
  \/ \E p \in Paths : Edit(p)
  \/ \E w \in Workers : Kill(w) \/ Intrude(w) \/ SummaryFails(w)

Next == (\E w \in Workers : Step(w)) \/ Environment

Spec == Init /\ [][Next]_vars

-----------------------------------------------------------------------------
(* Properties.                                                             *)

\* The type of the state.
TypeOK ==
  /\ checkout.file \in [Paths -> 0..1] /\ checkout.snapshot \in 0..MaxMishaps /\ tool \in 0..1
  /\ frozen \subseteq [file : [Paths -> 0..1], tool : 0..1, whole : BOOLEAN]
  /\ bundle.of \in frozen \cup {NoPublication} /\ accepted.of \in frozen \cup {NoPublication}
  /\ verification.of \in frozen \cup {NoPublication}
  /\ \A d \in {json, md} : d.outcome \in {"none", "Ready", "Conditionally ready", "Not ready"}
  /\ marks \subseteq {"shared", "left"} /\ mishaps \in 0..MaxMishaps

\* What is frozen is the commit of the candidate control, every file of it, although the
\* files are read one by one and may be edited and put back meanwhile.
FrozenIsTheCommit == \A f \in frozen : f.file = Committed /\ f.whole

\* The accepted result is the one its validation is about, whatever was put in the
\* evaluator's place between the reading and the publication.
AcceptedIsValidated == accepted.bundle = accepted.digest /\ accepted.bundle.of = accepted.of

\* A decision that is not "Not ready" rests on one frozen candidate from end to end: the
\* committed files, an accepted result of them that meets every gate of the default mode and
\* completion and safety of the other, a verification of them that passed, the current tools
\* in all three, and both reviews.
ReadyIsEarned ==
  \A d \in {json, md} :
    d.outcome \in {"Ready", "Conditionally ready"} =>
      /\ d.of.file = Committed
      /\ d.triplet.bundle.of = d.of /\ d.verification.of = d.of
      /\ d.triplet.bundle = d.triplet.digest
      /\ d.triplet.bundle.result["stateful"] = ModeGates
      /\ {"completion", "safety"} \subseteq d.triplet.bundle.result["all_tools"]
      /\ d.verification.passed
      /\ d.triplet.tool = d.tool /\ d.verification.tool = d.tool
      /\ d.reviews = Kinds

\* decision.json and decision.md are of one decision, however many deciders there are and
\* whichever of their writes fail, unless one of two processes with the very same decision
\* took back what both had published.
PairIsOne == md # NoDecision /\ "shared" \notin marks => json = md

\* "A lone decision.json is never left behind": it stays alone only as long as a process is
\* about to publish its summary, unless one was killed between the two files.
NoneIsLeftAlone ==
  json # NoDecision /\ md = NoDecision /\ "left" \notin marks =>
    \E w \in Workers : work[w].pc = "md" /\ work[w].decision = json

\* Nothing that was published changes or goes, except a decision.json, which goes only by a
\* process that has made this very decision and could not publish its summary.  That is less
\* than "remove only the decision.json this call published" (release_decision.py:909): the
\* bytes may be those that another process linked, and it may have published its summary
\* too.  A decision that is complete is still not taken back because the place of the
\* summary is taken, but only when the write of the repeated decision fails.
NothingIsReplaced ==
  [][/\ frozen \subseteq frozen'
     /\ accepted # NoTriplet => accepted' = accepted
     /\ md # NoDecision => md' = md
     /\ json \notin {NoDecision, json'} =>
          \E w \in Workers :
            /\ work[w].pc = "md" /\ work[w].decision = json /\ work'[w] = Idle
            /\ json' = NoDecision /\ (md = json => mishaps' = mishaps + 1)]_vars
=============================================================================
