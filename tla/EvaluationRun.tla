--------------------------- MODULE EvaluationRun ---------------------------
(***************************************************************************)
(* The blinded evaluation run (src/backend/evaluation/blinded_runner.py):  *)
(* it pins its protocol, runs the approved cases of the corpus in both     *)
(* modes as trials of one frozen candidate, records each trial once,       *)
(* and publishes a result bundle with a seal over the detailed evidence.   *)
(* All its state is in the files of the output directory, so a run that    *)
(* was interrupted anywhere is resumed by starting it again; nothing but   *)
(* the files keeps two evaluators apart.                                   *)
(*                                                                         *)
(* Files are published whole (blinded_io.py) except the trial's input,     *)
(* which is created first and written then; the directories of a trial are *)
(* made one by one before.  Of those, groups/NNNNNN and the `cases` below it *)
(* are what a later run misses; every case has a group of its own here.  The *)
(* score of a completed trial is part of its outcome.                      *)
(***************************************************************************)
EXTENDS Integers, Sequences, FiniteSets, SequencesExt

CONSTANTS Evaluators,  \* the processes that may run on one output directory
          HeldOut,     \* the held-out cases
          Approved,    \* those both reviews approve, in the order they are run, by
                       \* version of the inputs
          MaxMishaps   \* bound: changes of the candidate, the inputs or the index,
                       \* evaluators killed, and runs begun beside another one


VARIABLES
  world,    \* the candidate's version (0 is the frozen one), the corpus and reviews, the index
  protocol, \* protocol.json: the inputs and the index it is bound to
  group,    \* the directory of every case's group: none, without its `cases`, or whole
  input,    \* input.json of every trial: none, torn or whole
  opened,   \* the attempts whose logs were created: trial, number and whether it goes on
  record,   \* trial-result.json of every trial
  partial,  \* partial-result.json
  bundle,   \* result-bundle.json
  run,      \* the evaluators
  orphans,  \* attempts whose evaluator died before its host
  edited,   \* whether somebody changed a part of the world,
  overlap,  \* whether two evaluators ever worked in the directory at once
  mishaps   \* how many of them there were

worldVars == <<world, edited>>
fileVars == <<protocol, group, input, opened, record, partial, bundle>>
vars == <<worldVars, fileVars, run, orphans, overlap, mishaps>>

-----------------------------------------------------------------------------
(* Trials and what is on disk.                                             *)

Modes == <<"all_tools", "stateful">>
Trials == HeldOut \X ToSet(Modes)
Included(v) == ToSet(Approved[v])
Expected(v) == Included(v) \X ToSet(Modes)

\* The order of the trials: every second case runs its modes in the other order.
ModesOf(i) == IF i % 2 = 1 THEN Modes ELSE Reverse(Modes)
Order(v) ==
  [k \in 1 .. 2 * Len(Approved[v]) |->
     LET i == (k + 1) \div 2 IN <<Approved[v][i], ModesOf(i)[k - 2 * (i - 1)]>>]

\* A record: the trial was completed, and scored, on a snapshot of the candidate, or it
\* failed (transport_failure, deadline_failure).
None == [outcome |-> "none", snapshot |-> 0]
Records == {[outcome |-> "completed", snapshot |-> n] : n \in 0..1} \cup {[None EXCEPT !.outcome = "failed"]}

NoProtocol == [inputs |-> 0 - 1, index |-> 0 - 1]
NoBundle == [protocol |-> NoProtocol, results |-> <<>>, seal |-> <<>>]
NoPartial == [started |-> {}, completed |-> {}, failed |-> {}, remaining |-> {}]

Recorded(r) == {t \in Trials : r[t] # None}

\* Mutation of Finished: one mode is enough.
FinishedInOneMode(v, r) == {c \in Included(v) : \E m \in ToSet(Modes) : r[<<c, m>>] # None}

\* _partial_payload: a case is finished when both of its modes are recorded.
Finished(v, r) == {c \in Included(v) : \A m \in ToSet(Modes) : r[<<c, m>>] # None}

PartialPayload(v, r, active) ==
  LET done == Finished(v, r)
      completed == {c \in done : \A m \in ToSet(Modes) : r[<<c, m>>].outcome = "completed"}
      started == ({c \in Included(v) : \E m \in ToSet(Modes) : r[<<c, m>>] # None} \cup active) \ done
  IN [started |-> started, completed |-> completed, failed |-> done \ completed,
      remaining |-> Included(v) \ (done \cup started)]

\* seal_evidence: everything below groups/, finished or not.
Evidence == [input |-> input, opened |-> opened, record |-> record]

\* Mutation of SealOf: the attempts that never ended are left out of the seal.
SealOfEnded(evidence) == [evidence EXCEPT !.opened = {a \in @ : ~a.on}]

SealOf(evidence) == evidence

\* publish_immutable: the file is linked into place, or is there with these bytes.
Published(file, absent, value) == file \in {absent, value}

-----------------------------------------------------------------------------
(* The evaluators.                                                         *)

Idle == [pc |-> "idle", view |-> NoProtocol, todo |-> <<>>, records |-> [t \in Trials |-> None],
         attempt |-> 0, snapshot |-> 0 - 1, result |-> None, seal |-> <<>>]
Active == {"protocol", "bundle", "load", "trial", "group", "cases", "exists", "write", "scan",
           "launch", "host", "validate", "record", "next", "publish", "check"}

Init ==
  /\ world = [candidate |-> 0, inputs |-> 0, index |-> 0]
  /\ protocol = NoProtocol /\ bundle = NoBundle /\ partial = NoPartial
  /\ group = [c \in HeldOut |-> "none"]
  /\ input = [t \in Trials |-> "none"] /\ opened = {}
  /\ record = [t \in Trials |-> None]
  /\ run = [e \in Evaluators |-> Idle]
  /\ orphans = {}
  /\ edited = FALSE /\ overlap = FALSE /\ mishaps = 0

Goto(e, pc) == run' = [run EXCEPT ![e].pc = pc]
End(e, pc) == run' = [run EXCEPT ![e] = [Idle EXCEPT !.pc = pc]]
Trial(e) == Head(run[e].todo)

\* _validate_run_context: the candidate is the one of the freeze manifest; with it the
\* index is compared with its fingerprint of the start.
ContextHolds == world.candidate = 0
IndexHolds(e) == world.index = run[e].view.index

\* A run that raises inside a trial writes the partial result once more.
Raise(e) ==
  /\ End(e, "failed")
  /\ partial' = PartialPayload(run[e].view.inputs, run[e].records, {Trial(e)[1]})

Mishap == mishaps < MaxMishaps /\ mishaps' = mishaps + 1

\* run_blinded_evaluation: the context, the corpus, the reviews and the index are read.
Begin(e) ==
  /\ run[e].pc \in {"idle", "done", "failed"}
  /\ ContextHolds
  /\ run' = [run EXCEPT ![e] = [Idle EXCEPT !.pc = "protocol",
                                  !.view = [inputs |-> world.inputs, index |-> world.index]]]
  /\ IF orphans # {} \/ \E f \in Evaluators \ {e} : run[f].pc \in Active
     THEN Mishap /\ overlap' = TRUE
     ELSE UNCHANGED <<mishaps, overlap>>
  /\ UNCHANGED <<worldVars, fileVars, orphans>>

PublishProtocol(e) ==
  /\ run[e].pc = "protocol"
  /\ IF Published(protocol, NoProtocol, run[e].view)
     THEN protocol' = run[e].view /\ Goto(e, "bundle")
     ELSE UNCHANGED protocol /\ End(e, "failed")
  /\ UNCHANGED <<worldVars, group, input, opened, record, partial, bundle, orphans, overlap, mishaps>>

\* An existing bundle is returned when it is of this run and its evidence is as sealed.
ExistingBundle(e) ==
  /\ run[e].pc = "bundle"
  /\ IF bundle = NoBundle THEN Goto(e, "load")
     ELSE End(e, IF bundle.protocol = run[e].view /\ bundle.seal = Evidence /\ ContextHolds
                 THEN "done" ELSE "failed")
  /\ UNCHANGED <<worldVars, fileVars, orphans, overlap, mishaps>>

\* _load_records descends into the `cases` of every group there is.
GroupsReadable == \A c \in HeldOut : group[c] # "bare"

LoadRecords(e) ==
  /\ run[e].pc = "load"
  /\ LET v == run[e].view.inputs IN
       IF Approved[v] # <<>> /\ GroupsReadable /\ Recorded(record) \subseteq Expected(v)
       THEN /\ run' = [run EXCEPT ![e].pc = "trial", ![e].todo = Order(v), ![e].records = record]
            /\ partial' = PartialPayload(v, record, {})
       ELSE End(e, "failed") /\ UNCHANGED partial
  /\ UNCHANGED <<worldVars, protocol, group, input, opened, record, bundle, orphans, overlap, mishaps>>

StartTrial(e) ==
  /\ run[e].pc = "trial" /\ run[e].todo # <<>>
  /\ partial' = PartialPayload(run[e].view.inputs, run[e].records, {Trial(e)[1]})
  /\ Goto(e, "group")
  /\ UNCHANGED <<worldVars, protocol, group, input, opened, record, bundle, orphans, overlap, mishaps>>

\* The directories of the trial: that of its group, and what is below it.
MakeGroup(e) ==
  /\ run[e].pc = "group"
  /\ LET c == Trial(e)[1] IN
       IF group[c] = "whole" THEN UNCHANGED group /\ Goto(e, "exists")
       ELSE group' = [group EXCEPT ![c] = "bare"] /\ Goto(e, "cases")
  /\ UNCHANGED <<worldVars, protocol, input, opened, record, partial, bundle, orphans, overlap, mishaps>>

MakeCases(e) ==
  /\ run[e].pc = "cases"
  /\ group' = [group EXCEPT ![Trial(e)[1]] = "whole"]
  /\ Goto(e, "exists")
  /\ UNCHANGED <<worldVars, protocol, input, opened, record, partial, bundle, orphans, overlap, mishaps>>

\* A recorded trial is not run again.
TakeRecord(e) ==
  /\ run[e].pc = "exists" /\ record[Trial(e)] # None
  /\ run' = [run EXCEPT ![e].pc = "next", ![e].result = record[Trial(e)]]
  /\ UNCHANGED <<worldVars, fileVars, orphans, overlap, mishaps>>

\* The input is created exclusively and then written; one that exists must be equal.
OpenInput(e) ==
  /\ run[e].pc = "exists" /\ record[Trial(e)] = None
  /\ CASE input[Trial(e)] = "none" ->
            input' = [input EXCEPT ![Trial(e)] = "torn"] /\ Goto(e, "write") /\ UNCHANGED partial
       [] input[Trial(e)] = "torn" -> UNCHANGED input /\ Raise(e)
       [] input[Trial(e)] = "whole" -> UNCHANGED <<input, partial>> /\ Goto(e, "scan")
  /\ UNCHANGED <<worldVars, protocol, group, opened, record, bundle, orphans, overlap, mishaps>>

WriteInput(e) ==
  /\ run[e].pc = "write"
  /\ input' = [input EXCEPT ![Trial(e)] = "whole"]
  /\ Goto(e, "scan")
  /\ UNCHANGED <<worldVars, protocol, group, opened, record, partial, bundle, orphans, overlap, mishaps>>

Numbers(t) == {a.number : a \in {b \in opened : b.trial = t}}

\* Mutations of NextAttempt: the first attempt is opened again, attempts count from zero.
NextAttemptFirst(t) == 1
NextAttemptFromZero(t) == Cardinality(Numbers(t))

NextAttempt(t) == Cardinality(Numbers(t)) + 1

ScanAttempts(e) ==
  /\ run[e].pc = "scan"
  /\ run' = [run EXCEPT ![e].pc = "launch", ![e].attempt = NextAttempt(Trial(e))]
  /\ UNCHANGED <<worldVars, fileVars, orphans, overlap, mishaps>>

Attempt(e, on) == [trial |-> Trial(e), number |-> run[e].attempt, on |-> on]

\* The logs of the attempt are created exclusively and the host is started.
Launch(e) ==
  /\ run[e].pc = "launch"
  /\ IF ContextHolds /\ IndexHolds(e) /\ run[e].attempt \notin Numbers(Trial(e))
     THEN /\ opened' = opened \cup {Attempt(e, TRUE)}
          /\ Goto(e, "host")
          /\ UNCHANGED partial
     ELSE Raise(e) /\ UNCHANGED opened
  /\ UNCHANGED <<worldVars, protocol, group, input, record, bundle, orphans, overlap, mishaps>>

\* The host fingerprints the candidate before and after its workers.
HostSnapshot(e) ==
  /\ run[e].pc = "host" /\ run[e].snapshot = 0 - 1
  /\ run' = [run EXCEPT ![e].snapshot = world.candidate]
  /\ UNCHANGED <<worldVars, fileVars, orphans, overlap, mishaps>>

Closed(attempt) == (opened \ {attempt}) \cup {[attempt EXCEPT !.on = FALSE]}

HostEnds(e) ==
  /\ run[e].pc = "host"
  /\ \E r \in Records :
       /\ r.outcome = "completed" => r.snapshot = run[e].snapshot /\ r.snapshot = world.candidate
       /\ run' = [run EXCEPT ![e].pc = "validate", ![e].result = r, ![e].attempt = 0,
                                ![e].snapshot = 0 - 1]
  /\ opened' = Closed(Attempt(e, TRUE))
  /\ UNCHANGED <<worldVars, protocol, group, input, record, partial, bundle, orphans, overlap, mishaps>>

Validate(e) ==
  /\ run[e].pc = "validate"
  /\ IF ContextHolds /\ IndexHolds(e) THEN Goto(e, "record") /\ UNCHANGED partial ELSE Raise(e)
  /\ UNCHANGED <<worldVars, protocol, group, input, opened, record, bundle, orphans, overlap, mishaps>>

\* Mutation of MayRecord: the record is replaced, not linked into place.
MayRecordAlways(e) == TRUE

MayRecord(e) == Published(record[Trial(e)], None, run[e].result)

RecordTrial(e) ==
  /\ run[e].pc = "record"
  /\ IF MayRecord(e)
     THEN record' = [record EXCEPT ![Trial(e)] = run[e].result] /\ Goto(e, "next") /\ UNCHANGED partial
     ELSE Raise(e) /\ UNCHANGED record
  /\ UNCHANGED <<worldVars, protocol, group, input, opened, bundle, orphans, overlap, mishaps>>

Advance(e) ==
  /\ run[e].pc = "next"
  /\ LET kept == [run[e].records EXCEPT ![Trial(e)] = run[e].result] IN
       /\ run' = [run EXCEPT ![e].pc = "trial", ![e].todo = Tail(@), ![e].records = kept, ![e].result = None]
       /\ partial' = PartialPayload(run[e].view.inputs, kept, {})
  /\ UNCHANGED <<worldVars, protocol, group, input, opened, record, bundle, orphans, overlap, mishaps>>

\* Mutation of OneSnapshot: the snapshots of the trials are not compared.
OneSnapshotTrusted(r) == TRUE

OneSnapshot(r) ==
  Cardinality({r[t].snapshot : t \in {u \in Trials : r[u].outcome = "completed"}}) <= 1

Seal(e) ==
  /\ run[e].pc = "trial" /\ run[e].todo = <<>>
  /\ IF /\ Recorded(run[e].records) = Expected(run[e].view.inputs)
        /\ OneSnapshot(run[e].records) /\ ContextHolds
     THEN run' = [run EXCEPT ![e].pc = "publish", ![e].seal = SealOf(Evidence)]
     ELSE End(e, "failed")
  /\ UNCHANGED <<worldVars, fileVars, orphans, overlap, mishaps>>

NewBundle(e) ==
  [protocol |-> run[e].view, results |-> [t \in Expected(run[e].view.inputs) |-> run[e].records[t]],
   seal |-> run[e].seal]

\* Two bundles of the same content differ in their time of execution as well.
PublishBundle(e) ==
  /\ run[e].pc = "publish"
  /\ \/ bundle = NoBundle /\ bundle' = NewBundle(e) /\ Goto(e, "check")
     \/ bundle = NewBundle(e) /\ UNCHANGED bundle /\ Goto(e, "check")
     \/ bundle # NoBundle /\ UNCHANGED bundle /\ End(e, "failed")
  /\ UNCHANGED <<worldVars, protocol, group, input, opened, record, partial, orphans, overlap, mishaps>>

LastCheck(e) ==
  /\ run[e].pc = "check"
  /\ End(e, IF ContextHolds THEN "done" ELSE "failed")
  /\ UNCHANGED <<worldVars, fileVars, orphans, overlap, mishaps>>

-----------------------------------------------------------------------------
(* What happens around them.                                               *)

\* An evaluator is killed.  Its host dies with it (the Windows job) or goes on in its
\* own session.
Crash(e) ==
  /\ run[e].pc \in Active
  /\ Mishap
  /\ run' = [run EXCEPT ![e] = Idle]
  /\ orphans' \in IF run[e].pc = "host" THEN {orphans, orphans \cup {Attempt(e, TRUE)}} ELSE {orphans}
  /\ UNCHANGED <<worldVars, fileVars, overlap>>

OrphanEnds ==
  \E attempt \in orphans :
    /\ orphans' = orphans \ {attempt}
    /\ opened' = Closed(attempt)
    /\ UNCHANGED <<worldVars, protocol, group, input, record, partial, bundle, run, overlap, mishaps>>

\* Somebody changes the candidate, the corpus and its reviews or the index, or puts it back.
Edit ==
  /\ Mishap
  /\ edited' = TRUE
  /\ \E part \in DOMAIN world : world' = [world EXCEPT ![part] = 1 - @]
  /\ UNCHANGED <<fileVars, run, orphans, overlap>>

Step(e) ==
  \/ PublishProtocol(e) \/ ExistingBundle(e) \/ LoadRecords(e) \/ StartTrial(e)
  \/ MakeGroup(e) \/ MakeCases(e) \/ TakeRecord(e) \/ OpenInput(e) \/ WriteInput(e)
  \/ ScanAttempts(e) \/ Launch(e)
  \/ HostSnapshot(e) \/ HostEnds(e) \/ Validate(e) \/ RecordTrial(e) \/ Advance(e)
  \/ Seal(e) \/ PublishBundle(e) \/ LastCheck(e)

Next ==
  \/ \E e \in Evaluators : Begin(e) \/ Step(e) \/ Crash(e)
  \/ OrphanEnds \/ Edit

Spec == Init /\ [][Next]_vars

-----------------------------------------------------------------------------
(* Properties.                                                             *)

TypeOK ==
  /\ world \in [candidate : 0..1, inputs : 0..1, index : 0..1]
  /\ protocol = NoProtocol \/ protocol \in [inputs : 0..1, index : 0..1]
  /\ group \in [HeldOut -> {"none", "bare", "whole"}]
  /\ input \in [Trials -> {"none", "torn", "whole"}]
  /\ \A a \in opened : a.trial \in Trials /\ a.number \in Nat \ {0} /\ a.on \in BOOLEAN
  /\ record \in [Trials -> Records \cup {None}]
  /\ orphans \subseteq opened
  /\ \A e \in Evaluators :
       /\ run[e].pc \in Active \cup {"idle", "done", "failed"}
       /\ Range(run[e].todo) \subseteq Trials

\* A published bundle is of the protocol beside it, counts every approved trial once
\* as it is recorded on disk, and all its completed trials ran on one candidate.
BundleIsTheRecords ==
  bundle # NoBundle =>
    /\ bundle.protocol = protocol
    /\ DOMAIN bundle.results = Expected(protocol.inputs)
    /\ \A t \in Expected(protocol.inputs) : bundle.results[t] = record[t] /\ record[t] # None
    /\ \A t, u \in Expected(protocol.inputs) :
         {record[t].outcome, record[u].outcome} = {"completed"} => record[t].snapshot = record[u].snapshot

\* The partial result divides the approved cases, and never calls a case finished
\* that is not, however old the view of the evaluator that wrote it last.
PartialNeverOverstates ==
  partial # NoPartial =>
    LET parts == {partial.started, partial.completed, partial.failed, partial.remaining} IN
      /\ UNION parts = Included(protocol.inputs)
      /\ Cardinality(partial.started) + Cardinality(partial.completed) + Cardinality(partial.failed)
           + Cardinality(partial.remaining) = Cardinality(Included(protocol.inputs))
      /\ \A c \in partial.completed \cup partial.failed, m \in ToSet(Modes) : record[<<c, m>>] # None
      /\ \A c \in partial.completed, m \in ToSet(Modes) : record[<<c, m>>].outcome = "completed"

\* Unless two evaluators, or an evaluator and the host another one left behind, worked
\* in the directory at once, the evidence stays as it was sealed.
SealedEvidenceHolds == bundle # NoBundle /\ ~overlap => bundle.seal = Evidence

\* A run of unchanged inputs, which approve a case, that has the directory to itself is
\* refused only because an earlier one was killed in one of two places: while it wrote the
\* input of a trial, or between the directory of a group and the `cases` in it.  Nothing
\* repairs either, so no later run gets past it.
RefusedForCause ==
  \A e \in Evaluators :
    run[e].pc = "failed" /\ ~edited /\ ~overlap /\ Approved[0] # <<>> =>
      (\E t \in Trials : input[t] = "torn") \/ ~GroupsReadable

\* What was published is never replaced: the protocol, a trial's record, the bundle.
PublishedOnce ==
  [][/\ protocol # NoProtocol => protocol' = protocol
     /\ \A t \in Trials : record[t] # None => record'[t] = record[t]
     /\ bundle # NoBundle => bundle' = bundle]_vars
=============================================================================
