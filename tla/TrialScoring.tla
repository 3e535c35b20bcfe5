---------------------------- MODULE TrialScoring ----------------------------
(***************************************************************************)
(* One trial of the blinded evaluation: the host                           *)
(* (src/backend/evaluation/scripts/evaluation_trial_host.py) starts a      *)
(* release candidate on a seeded database, sends it the request of a case, *)
(* plays the event of the case (a resend, a restart, a second answer, a    *)
(* race, ...) and publishes what it observed; the scorer                   *)
(* (src/backend/evaluation/blinded_scoring.py) judges the observation      *)
(* without having seen the candidate.                                      *)
(*                                                                         *)
(* The candidate is the unknown: at every call it does what the case       *)
(* expects or deviates from it.  The properties relate what it really did  *)
(* to the verdict.  Texts, hashes and settings values are left out: equal  *)
(* hashes are equal values, a setting is known by its revision.            *)
(***************************************************************************)
EXTENDS Integers, FiniteSets

CONSTANTS Works,        \* what the requests of the cases ask for
          MaxDeviations \* bound: how often the candidate deviates in a trial

Work == {"save", "generate", "both", "query"}

VARIABLES
  case,       \* the work asked for and the event
  phase,      \* of the host: submit, event, second, check, published, failed
  store,      \* the candidate's database
  before,     \* the states the host read: at first,
  submitted,  \* after the submission,
  confirmed,  \* and after the confirmation
  answer,     \* the answer to the submission,
  replay,     \* to the second request and what it changed,
  confirmation, \* and to the confirmation and to its duplicate
  effects,    \* the changes the worker counted
  candidate,  \* the version of the candidate's files
  snapshot,   \* the version the host fingerprinted at the start
  ran,        \* the versions that really ran
  deviations  \* what the candidate did wrong: the call and the kind

readVars == <<before, submitted, confirmed>>
answerVars == <<answer, replay, confirmation>>
vars == <<case, phase, store, readVars, answerVars, effects, candidate, snapshot, ran, deviations>>

-----------------------------------------------------------------------------
(* Cases and their labels.                                                 *)

Replays == {"resend_identical", "restart_resend", "same_id_different_body",
            "concurrent_identical", "switch_target"}
Idempotent == Replays \ {"same_id_different_body"}
Confirmations == {"confirm_generation", "confirm_twice"}
Races == {"race_before", "race_after"}
Events == {"none"} \cup Replays \cup Confirmations \cup Races

\* A confirmation, or a race before it, needs a request that asks for a generation.
Cases ==
  {c \in [work : Works, event : Events] :
     /\ c.event \in Confirmations \cup {"race_after"} => c.work \in {"generate", "both"}
     /\ c.event = "race_before" => c.work = "save"}

Count(b) == IF b THEN 1 ELSE 0

Saves(c) == c.work \in {"save", "both"} /\ c.event # "race_before"
Queues(c) == c.work \in {"generate", "both"} /\ c.event \in Confirmations
RaceAfterSubmit(c) == c.event = "race_after"

\* The label of the first answer and, after a confirmation, of the second.
SubmitOutcome(c) ==
  CASE c.event = "race_before" -> "blocked"
    [] c.work = "save" /\ c.event # "race_before" -> "saved"
    [] c.work = "generate" -> "awaiting_confirmation"
    [] c.work = "both" -> "saved_awaiting_confirmation"
    [] c.work = "query" -> "queried"
FinalOutcome(c) == IF Queues(c) THEN "generation_queued" ELSE "blocked"

StatusByOutcome(o) ==
  CASE o \in {"saved", "queried", "generation_queued"} -> "completed"
    [] o \in {"awaiting_confirmation", "saved_awaiting_confirmation"} -> "ready"
    [] o = "blocked" -> "blocked"

\* _expected_history: the revision the trial ends with and the revisions recorded
\* then; the one before a first save or job is recorded with it.
ExpectedRevision(c) == Count(Saves(c)) + Count(c.event \in Races)
ExpectedHistory(c) ==
  (IF Saves(c) \/ Queues(c) THEN {0} ELSE {})
    \cup (IF Saves(c) THEN {1} ELSE {})
    \cup (IF c.event \in Races THEN {ExpectedRevision(c)} ELSE {})

\* Saving and then confirming the generation executes two operations.
ExpectedReceipts(c) ==
  Count(Saves(c) \/ (c.work = "generate" /\ Queues(c))) + Count(c.work = "both" /\ Queues(c))

-----------------------------------------------------------------------------
(* The candidate: the database it starts with and the calls it answers.    *)

\* Rewritten counts the records of the seed whose content has changed, stray the
\* changes of another project.
Seed == [revision |-> 0, history |-> {}, receipts |-> 0, jobs |-> 0, records |-> 0,
         artifacts |-> 0, rewritten |-> 0, stray |-> 0]

\* A reply: text stands for the details that only its hash shows.
Reply(status, executed, text) ==
  [http |-> IF status = "http_error" THEN 409 ELSE 200, status |-> status,
   executed |-> executed, text |-> text]
NoReply == [http |-> 0, status |-> "none", executed |-> FALSE, text |-> "none"]

Save(s) == [s EXCEPT !.revision = @ + 1, !.receipts = @ + 1,
                     !.history = @ \cup {s.revision, s.revision + 1}]
\* Mutation of Queue: the job's revision is recorded as the next one.
QueueAhead(s) == [s EXCEPT !.jobs = @ + 1, !.receipts = @ + 1,
                           !.history = @ \cup {s.revision + 1}]

Queue(s) == [s EXCEPT !.jobs = @ + 1, !.receipts = @ + 1,
                      !.history = @ \cup (IF s.revision \in @ THEN {} ELSE {s.revision})]
Race(s) == [s EXCEPT !.revision = @ + 1, !.history = @ \cup {s.revision + 1}]

\* A first submission and a confirmation as the case expects them.
Submitted(c, s) ==
  LET kept == [s EXCEPT !.records = @ + 1]
      raced == IF c.event = "race_before" THEN Race(kept) ELSE kept
  IN IF Saves(c) THEN Save(raced) ELSE raced
SubmitReply(c) ==
  LET status == StatusByOutcome(SubmitOutcome(c))
  IN Reply(status, status = "completed" \/ c.work = "both", "first")

Executed(c, s) == IF Queues(c) THEN Queue(s) ELSE s
ExecuteReply(c) ==
  LET status == StatusByOutcome(FinalOutcome(c))
  IN Reply(status, status = "completed" \/ c.work = "both", "second")

\* How a call deviates: it leaves its work undone, does work once more, touches
\* another project, rewrites or loses a record, publishes a video, or answers wrongly.
Deviations == {"idle", "again", "stray", "rewrite", "unrecorded", "publish", "wrong", "vary"}

More(c, s) == IF c.work = "generate" THEN Queue(s) ELSE Save(s)

Deviated(d, c, old, new) ==
  CASE d = "idle" -> old
    [] d = "again" -> More(c, new)
    [] d = "stray" -> [new EXCEPT !.stray = @ + 1]
    [] d = "rewrite" -> [new EXCEPT !.rewritten = @ + 1]
    [] d = "unrecorded" -> [new EXCEPT !.records = old.records]
    [] d = "publish" -> [new EXCEPT !.artifacts = @ + 1]
    [] OTHER -> new
DeviatedReply(d, r) ==
  CASE d = "wrong" -> [r EXCEPT !.status = IF @ = "dismissed" THEN "error" ELSE "dismissed"]
    [] d = "vary" -> [r EXCEPT !.text = "other"]
    [] OTHER -> r

\* The deviation of a call, none included, within the bound.
Choices(name) ==
  {"none"} \cup {d \in Deviations : Cardinality(deviations \cup {<<name, d>>}) <= MaxDeviations}
Noted(name, d) == IF d = "none" THEN deviations ELSE deviations \cup {<<name, d>>}

-----------------------------------------------------------------------------
(* The host: run_trial_host and the worker it starts in the candidate.     *)

NoReplay == [attempted |-> FALSE, unchanged |-> TRUE, same |-> FALSE, response |-> NoReply]
NoConfirmation ==
  [attempted |-> FALSE, twice |-> FALSE, response |-> NoReply, duplicate |-> NoReply]

\* What the worker counts between two states: the changes of each collection.
Added(a, b, name) == b[name] - a[name]
EffectsOf(a, b) ==
  [revision |-> Added(a, b, "revision"),
   history |-> Count(a.history # b.history),
   jobs |-> Count(a.jobs # b.jobs),
   receipts |-> Added(a, b, "receipts") + Added(a, b, "rewritten"),
   artifacts |-> Count(a.artifacts # b.artifacts),
   records |-> Added(a, b, "records")]

Init ==
  /\ case \in Cases
  /\ phase = "submit"
  /\ store = Seed
  /\ before = Seed /\ submitted = Seed /\ confirmed = Seed
  /\ answer = NoReply /\ replay = NoReplay /\ confirmation = NoConfirmation
  /\ effects = EffectsOf(Seed, Seed)
  /\ candidate = 0 /\ snapshot = 0 /\ ran = {}
  /\ deviations = {}

\* The worker seeds the database and sends the request; identical submissions that
\* run at the same time are one call of the candidate, whose two answers may differ.
Submit ==
  /\ phase = "submit"
  /\ \E d \in Choices("submit") :
       /\ store' = Deviated(d, case, store, Submitted(case, store))
       /\ answer' = DeviatedReply(d, SubmitReply(case))
       /\ deviations' = Noted("submit", d)
  /\ submitted' = store'
  /\ ran' = ran \cup {candidate}
  /\ phase' = "event"
  /\ UNCHANGED <<case, before, confirmed, replay, confirmation, effects, candidate, snapshot>>

\* The second request: the same one again, or another one under its identity.
SecondReply ==
  IF case.event = "same_id_different_body" THEN Reply("http_error", FALSE, "conflict") ELSE answer

Resend ==
  /\ phase = "event"
  /\ case.event \in {"resend_identical", "same_id_different_body", "switch_target"}
  /\ \E d \in Choices("resend") :
       /\ store' = Deviated(d, case, store, store)
       /\ replay' = [attempted |-> TRUE, unchanged |-> store' = store,
                     same |-> DeviatedReply(d, SecondReply) = answer,
                     response |-> DeviatedReply(d, SecondReply)]
       /\ deviations' = Noted("resend", d)
  /\ phase' = "check"
  /\ effects' = EffectsOf(before, store')
  /\ UNCHANGED <<case, readVars, answer, confirmation, candidate, snapshot, ran>>

\* The other of two concurrent submissions: its window is that of the first.
Concurrent ==
  /\ phase = "event" /\ case.event = "concurrent_identical"
  /\ \E d \in Choices("resend") \cap {"none", "wrong", "vary"} :
       /\ replay' = [attempted |-> TRUE, unchanged |-> before = store,
                     same |-> DeviatedReply(d, answer) = answer,
                     response |-> DeviatedReply(d, answer)]
       /\ deviations' = Noted("resend", d)
  /\ phase' = "check"
  /\ effects' = EffectsOf(before, store)
  /\ UNCHANGED <<case, store, readVars, answer, confirmation, candidate, snapshot, ran>>

\* restart_resend: the first worker has ended with its own observation; a second one
\* opens the same database and sends the request again.  The effects stay the first's.
FirstWorker ==
  /\ phase = "event" /\ case.event = "restart_resend"
  /\ effects' = EffectsOf(before, store)
  /\ phase' = "second"
  /\ UNCHANGED <<case, store, readVars, answerVars, candidate, snapshot, ran, deviations>>

SecondWorker ==
  /\ phase = "second" /\ case.event = "restart_resend"
  /\ \E d \in Choices("resend") :
       /\ store' = Deviated(d, case, store, store)
       /\ replay' = [attempted |-> TRUE, unchanged |-> submitted = store',
                     same |-> DeviatedReply(d, answer) = answer,
                     response |-> DeviatedReply(d, answer)]
       /\ deviations' = Noted("resend", d)
  /\ ran' = ran \cup {candidate}
  /\ phase' = "check"
  /\ UNCHANGED <<case, readVars, answer, confirmation, effects, candidate, snapshot>>

\* A foreign edit after the submission moves the project on.
RaceBeforeConfirmation ==
  /\ phase = "event" /\ RaceAfterSubmit(case)
  /\ store' = Race(store)
  /\ phase' = "second"
  /\ UNCHANGED <<case, readVars, answerVars, effects, candidate, snapshot, ran, deviations>>

\* Only an answer that offers a confirmation token can be confirmed.
Confirm ==
  /\ \/ phase = "event" /\ case.event \in Confirmations
     \/ phase = "second" /\ RaceAfterSubmit(case)
  /\ IF answer.status = "ready"
     THEN /\ \E d \in Choices("confirm") :
               /\ store' = Deviated(d, case, store, Executed(case, store))
               /\ confirmation' = [NoConfirmation EXCEPT
                                     !.attempted = TRUE,
                                     !.response = DeviatedReply(d, ExecuteReply(case))]
               /\ deviations' = Noted("confirm", d)
          /\ confirmed' = store'
          /\ phase' = IF case.event = "confirm_twice" THEN "second" ELSE "check"
     ELSE /\ phase' = "check"
          /\ UNCHANGED <<store, confirmation, deviations, confirmed>>
  /\ effects' = EffectsOf(before, store')
  /\ UNCHANGED <<case, before, submitted, answer, replay, candidate, snapshot, ran>>

ConfirmAgain ==
  /\ phase = "second" /\ case.event = "confirm_twice"
  /\ \E d \in Choices("resend") :
       /\ store' = Deviated(d, case, store, store)
       /\ confirmation' = [confirmation EXCEPT
                             !.twice = TRUE,
                             !.duplicate = DeviatedReply(d, confirmation.response)]
       /\ deviations' = Noted("resend", d)
  /\ effects' = EffectsOf(before, store')
  /\ phase' = "check"
  /\ UNCHANGED <<case, readVars, answer, replay, candidate, snapshot, ran>>

NoEvent ==
  /\ phase = "event" /\ case.event \in {"none", "race_before"}
  /\ effects' = EffectsOf(before, store)
  /\ phase' = "check"
  /\ UNCHANGED <<case, store, readVars, answerVars, candidate, snapshot, ran, deviations>>

\* Mutation of Unchanged: the fingerprint of the start is trusted.
UnchangedTrusted == TRUE

\* The host has read the worker's observation and fingerprints the candidate again.
Unchanged == candidate = snapshot

Publish ==
  /\ phase = "check"
  /\ phase' = IF Unchanged THEN "published" ELSE "failed"
  /\ UNCHANGED <<case, store, readVars, answerVars, effects, candidate, snapshot, ran, deviations>>

\* A worker dies or exceeds its deadline: there is no observation.
WorkerFails ==
  /\ phase \in {"submit", "event", "second"}
  /\ phase' = "failed"
  /\ UNCHANGED <<case, store, readVars, answerVars, effects, candidate, snapshot, ran, deviations>>

\* Somebody changes the candidate's files while the trial runs.
Replace ==
  /\ phase \in {"submit", "event", "second", "check"} /\ candidate = 0
  /\ candidate' = 1
  /\ UNCHANGED <<case, phase, store, readVars, answerVars, effects, snapshot, ran, deviations>>

Next ==
  \/ Submit \/ Resend \/ Concurrent \/ FirstWorker \/ SecondWorker
  \/ RaceBeforeConfirmation \/ Confirm \/ ConfirmAgain \/ NoEvent
  \/ Publish \/ WorkerFails \/ Replace

Spec == Init /\ [][Next]_vars

-----------------------------------------------------------------------------
(* The verdict: score_trial.  The store of a published trial is the state  *)
(* the host read last.                                                     *)

Matches(r, o, savedBefore) ==
  /\ r.http = 200
  /\ r.status = StatusByOutcome(o)
  /\ r.executed = (r.status = "completed" \/ savedBefore \/ o = "saved_awaiting_confirmation")

\* The expected end of every collection, against what was read and what was counted.
ProjectsRight ==
  /\ store.stray = before.stray
  /\ store.revision = before.revision + ExpectedRevision(case)
RevisionRight == effects.revision = ExpectedRevision(case)
HistoryRight ==
  /\ store.history = ExpectedHistory(case)
  /\ effects.history = Count(ExpectedHistory(case) # before.history)
JobsRight ==
  /\ Added(before, store, "jobs") = Count(Queues(case))
  /\ (store.jobs # before.jobs \/ effects.jobs # 0) = Queues(case)
ArtifactsRight == store.artifacts = before.artifacts /\ effects.artifacts = 0
ReceiptsRight ==
  /\ store.rewritten = before.rewritten
  /\ effects.receipts = EffectsOf(before, store).receipts
  /\ Added(before, store, "receipts") = ExpectedReceipts(case)
RecordsRight == Added(before, store, "records") = 1 /\ effects.records = 1

PersistedChecks ==
  [projects |-> ProjectsRight, revision |-> RevisionRight, history |-> HistoryRight,
   jobs |-> JobsRight, artifacts |-> ArtifactsRight, receipts |-> ReceiptsRight,
   records |-> RecordsRight]

\* Mutation of Persisted: the receipts are counted but not compared.
PersistedButReceipts == \A check \in DOMAIN PersistedChecks \ {"receipts"} : PersistedChecks[check]

Persisted == \A check \in DOMAIN PersistedChecks : PersistedChecks[check]

\* A durable change, language records aside.
Durable ==
  \/ \E name \in {"revision", "history", "jobs", "receipts", "artifacts"} : effects[name] # 0
  \/ [store EXCEPT !.records = before.records] # before

\* Mutation of UnauthorizedEffect: whatever misses its label is unauthorized.
UnauthorizedWhenWrong == ~Persisted

UnauthorizedEffect == ~Persisted /\ (Durable \/ store.rewritten # before.rewritten)

\* Mutation of EventValid: two submissions in one window may change nothing.
EventValidInOneWindow ==
  CASE case.event \in {"none", "race_before"} -> ~replay.attempted /\ ~confirmation.attempted
    [] case.event \in Replays -> replay.attempted /\ replay.unchanged
    [] OTHER -> confirmation.attempted /\ confirmed = store

\* _event_check: what the event of the case must have shown.
EventValid ==
  CASE case.event \in {"none", "race_before"} -> ~replay.attempted /\ ~confirmation.attempted
    [] case.event \in Idempotent ->
         /\ replay.attempted /\ ~confirmation.attempted
         /\ replay.unchanged \/ case.event = "concurrent_identical"
         /\ replay.same
         /\ replay.response.http = 200 /\ replay.response.status \in {"completed", "ready"}
    [] case.event = "same_id_different_body" ->
         /\ replay.attempted /\ ~confirmation.attempted
         /\ replay.unchanged /\ ~replay.same
         /\ replay.response.http = 409 /\ replay.response.status = "http_error"
         /\ ~replay.response.executed
    [] OTHER ->
         /\ ~replay.attempted /\ confirmation.attempted
         /\ confirmed = store
         /\ Matches(confirmation.response, FinalOutcome(case), case.work = "both")
         /\ confirmation.twice = (case.event = "confirm_twice")
         /\ confirmation.twice => confirmation.duplicate = confirmation.response

\* Mutation of ReplayChanged: the window of concurrent submissions is taken for a replay's.
ReplayChangedAlways == replay.attempted /\ ~replay.unchanged

\* A second request or a second confirmation that changed the state again.
ReplayChanged == replay.attempted /\ case.event # "concurrent_identical" /\ ~replay.unchanged
DuplicateChanged == confirmation.twice /\ confirmed # store
UnauthorizedReplay == ReplayChanged \/ DuplicateChanged

TaskComplete ==
  /\ Matches(answer, SubmitOutcome(case), FALSE)
  /\ Persisted /\ EventValid
  /\ ~UnauthorizedEffect /\ ~UnauthorizedReplay

-----------------------------------------------------------------------------
(* Properties.                                                             *)

TypeOK ==
  /\ case \in Cases
  /\ phase \in {"submit", "event", "second", "check", "published", "failed"}
  /\ DOMAIN store = DOMAIN Seed /\ store.history \in SUBSET (0..store.revision)
  /\ {before, submitted, confirmed} \subseteq
       {s \in {before, submitted, confirmed} : DOMAIN s = DOMAIN Seed}
  /\ {replay.attempted, replay.unchanged, replay.same,
      confirmation.attempted, confirmation.twice} \subseteq BOOLEAN
  /\ DOMAIN effects = DOMAIN EffectsOf(Seed, Seed)
  /\ candidate \in 0..1 /\ snapshot = 0 /\ ran \subseteq 0..1
  /\ Cardinality(deviations) <= MaxDeviations

\* The state a correct candidate leaves behind.
Correct ==
  LET s == Submitted(case, Seed)
  IN Executed(case, IF RaceAfterSubmit(case) THEN Race(s) ELSE s)

\* A trial that is scored complete was done right: the candidate's database is the
\* one a correct candidate leaves, although the scorer only sees hashes, counts and
\* the windows between the states the host happened to read.
CompleteMeansCorrect ==
  phase = "published" /\ TaskComplete =>
    store = Correct /\ answer.status = StatusByOutcome(SubmitOutcome(case))

\* A candidate that deviates nowhere is scored complete, whatever the event: neither
\* a race nor two submissions in one window are held against it.
CorrectIsComplete ==
  phase = "published" /\ deviations = {} =>
    TaskComplete /\ ~UnauthorizedEffect /\ ~UnauthorizedReplay

\* The calls that changed the state once more, or changed what is not theirs.
Acts == {"again", "stray", "rewrite", "publish"}

\* A replay is unauthorized exactly when the second request changed the state; a
\* different answer alone is not, and a change of the first request is not blamed on it.
ReplayVerdictIsJust ==
  phase = "published" =>
    UnauthorizedReplay = (\E d \in Acts : <<"resend", d>> \in deviations)

\* A candidate that saved, queued and rewrote nothing is not accused of an
\* unauthorized effect, however much of the expected change is missing.
IdleIsNotAccused ==
  phase = "published" /\ [store EXCEPT !.records = 0] = Seed => ~UnauthorizedEffect

\* A published observation is of the version that was fingerprinted at the start, in
\* both workers of a restart.
OneCandidate == phase = "published" => ran = {snapshot}
=============================================================================
