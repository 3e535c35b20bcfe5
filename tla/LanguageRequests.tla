-------------------------- MODULE LanguageRequests --------------------------
(***************************************************************************)
(* Requests in natural language: language_operations/repository.py,        *)
(* dialogue.py and service.py behind api/routes_language.py.               *)
(*                                                                         *)
(* A request is claimed by one handler, which asks the model under a lease *)
(* and stores a proposal; the user confirms it, answers, corrects or       *)
(* dismisses it; steps run through the operation core, whose receipts are  *)
(* the only truth about what was done.  Handlers run side by side, the     *)
(* process may stop between any two transactions, and every call may be    *)
(* repeated.  What a model makes of a text is an arbitrary outcome.        *)
(*                                                                         *)
(* One project: its revision and whether a generation job is active.       *)
(***************************************************************************)
EXTENDS Naturals, Sequences

CONSTANTS
    Requests,     \* request identifiers chosen by clients
    NoRequest,    \* not one of them
    Unattended,   \* the requests sent in YOLO mode
    ReviewAll,    \* language_review_all: nothing runs without a confirmation
    Handlers,     \* HTTP handlers that run at the same time
    Offered,      \* the kinds of proposals the model may come to
    MaxRevision   \* bound on the revision of the project

ASSUME RequestsAssumption == NoRequest \notin Requests /\ Unattended \subseteq Requests
ASSUME RevisionAssumption == MaxRevision \in Nat \ {0} /\ ReviewAll \in BOOLEAN

VARIABLES
    record,    \* language_requests and language_turns, by request
    lapsed,    \* requests whose lease_until has passed
    receipt,   \* operation receipts of a request's steps: the revisions they left
    revision,  \* projects.revision
    active,    \* is a generation job active?
    handler,   \* the handlers and the response each holds
    agreed     \* history: tokens accepted with the flag for generation

projectVars == <<revision, active>>
vars == <<record, lapsed, receipt, revision, active, handler, agreed>>

Relations == {"answer", "correction", "dismiss"}

\* What a proposal does, step by step.  "follow" saves settings and offers a
\* generation afterwards; "plan" is confirmed as a whole, and
\* so are "film" and what is left of a film without its generation.
StepsOf == [none |-> <<>>, settings |-> <<"save">>, generate |-> <<"generate">>,
            follow |-> <<"save", "generate">>, plan |-> <<"save", "save">>,
            film |-> <<"save", "generate">>, rest |-> <<"save">>]
Kinds == DOMAIN StepsOf
Plans == {"plan", "film", "rest"}

ASSUME OfferedAssumption == Offered \subseteq Kinds \ {"none"}

\* Tokens bind a confirmation to the proposal, or to the generation that follows.
Tokens == {"proposal", "generation"}

\* Answers without a proposal; "closed" stands for dismissed, unsupported, error.
Settled == {"needs_input", "closed"}
Status == Settled \union {"none", "interpreting", "ready", "blocked", "completed"}

NoRecord == [status |-> "none", kind |-> "none", base |-> 0, review |-> FALSE, negated |-> FALSE,
             turn |-> FALSE, relation |-> "none", successor |-> NoRequest]
IdleHandler == [at |-> "idle"]

Init ==
    /\ record = [r \in Requests |-> NoRecord]
    /\ lapsed = {}
    /\ receipt = [r \in Requests |-> <<>>]
    /\ revision = 1
    /\ active = FALSE
    /\ handler = [h \in Handlers |-> IdleHandler]
    /\ agreed = {}

-----------------------------------------------------------------------------
(* repository.py: what a record says, given the receipts *)

Steps(r) == StepsOf[record[r].kind]
Done(r) == Len(receipt[r]) = Len(Steps(r)) /\ Steps(r) # <<>>
Superseded(r) == record[r].successor # NoRequest

\* Mutation of Shown: the response of the last handler is believed.
ShownAsStored(r, stored) == stored

\* response_for with the stored status: receipts win.  After the save of a
\* "follow" the generation is offered, unless that is blocked or overtaken.
Shown(r, stored) ==
    IF Done(r) THEN "completed"
    ELSE IF record[r].kind = "follow" /\ Len(receipt[r]) = 1
    THEN IF stored = "blocked" \/ Superseded(r) THEN "blocked" ELSE "ready"
    ELSE stored

Token(r) == IF record[r].kind = "follow" /\ Len(receipt[r]) > 0 THEN "generation" ELSE "proposal"

\* _expire, within every transaction that reads the record.
Current(r) == IF record[r].status = "interpreting" /\ r \in lapsed THEN "closed" ELSE record[r].status
View(r) == Shown(r, Current(r))
Expire(r) == record' = [record EXCEPT ![r].status = Current(r)]

Lapse(r) ==
    /\ record[r].status = "interpreting" /\ r \notin lapsed
    /\ lapsed' = lapsed \union {r}
    /\ UNCHANGED <<record, receipt, projectVars, handler, agreed>>

\* GET /language/requests/{id}
Lookup(r) ==
    /\ record[r].status # "none"
    /\ Expire(r)
    /\ UNCHANGED <<lapsed, receipt, projectVars, handler, agreed>>

-----------------------------------------------------------------------------
(* Claim: repository.claim and dialogue.attach *)

Allowed == [answer |-> {"needs_input"}, correction |-> {"needs_input", "ready", "completed"},
            dismiss |-> {"needs_input", "ready"}]

\* The revision a reply presupposes: that of the result, or of the question.
\* The results of a plan do not count as its result.
Expected(p) ==
    IF record[p].kind \notin Plans /\ receipt[p] # <<>> THEN receipt[p][1] ELSE record[p].base

Attachable(p, relation) ==
    /\ record[p].turn /\ ~Superseded(p)
    /\ View(p) \in Allowed[relation]
    /\ relation # "dismiss" /\ Expected(p) # 0 => revision = Expected(p)

\* A new request: it takes its parent over before the model is asked.  Without
\* a target it becomes a question; a stale, unknown or contradictory target, or a
\* parent that cannot be answered, blocks it.
Claim(h, r, parent, relation, targeted) ==
    /\ handler[h] = IdleHandler
    /\ record[r].status = "none"
    /\ parent # r /\ (parent = NoRequest <=> relation = "none")
    /\ parent # NoRequest => record[parent].status # "none"
    /\ \E accepted \in {b \in BOOLEAN : b => targeted /\ (parent # NoRequest => Attachable(parent, relation))} :
         LET new == [NoRecord EXCEPT
                 !.status = IF accepted THEN "interpreting"
                            ELSE IF ~targeted /\ (parent = NoRequest \/ ~Superseded(parent))
                            THEN "needs_input" ELSE "blocked",
                 !.base = IF accepted THEN revision ELSE 0,
                 !.turn = accepted \/ (~targeted /\ parent = NoRequest),
                 !.relation = IF accepted THEN relation ELSE "none"]
         IN /\ record' = [q \in Requests |->
                  CASE q = r -> new
                    [] q = parent /\ accepted -> [record[q] EXCEPT !.successor = r]
                    [] OTHER -> record[q]]
            /\ handler' = [handler EXCEPT ![h] =
                  IF accepted THEN [at |-> "thinking", req |-> r] ELSE IdleHandler]
    /\ UNCHANGED <<lapsed, receipt, projectVars, agreed>>

-----------------------------------------------------------------------------
(* Interpretation: LanguageOperationService.prepare *)

\* What the model proposes for r and what the text says besides: whether a guard
\* asks about a missing or vague value, whether the proposal contradicts a value
\* in the text, and whether the text wants no video.
Readings == [kind : Offered, vague : BOOLEAN, contradicted : BOOLEAN, negated : BOOLEAN]

Asks(reading, yolo) == reading.contradicted \/ (reading.vague /\ ~yolo)

\* Mutation of Guarded: a plan is not searched for what the text negates.
GuardedPlansUnread(reading, yolo) ==
    CASE Asks(reading, yolo) -> <<"needs_input", "none">>
      [] ~Asks(reading, yolo) /\ reading.negated /\ reading.kind = "generate" -> <<"closed", "none">>
      [] ~Asks(reading, yolo) /\ reading.negated /\ reading.kind = "follow" -> <<"ready", "settings">>
      [] OTHER -> <<"ready", reading.kind>>

\* The guards of prepare().  A vague value is guessed in YOLO mode, a contradicted
\* one never is; a negated generation is left out of what follows a save, and
\* of a plan in YOLO mode, and otherwise closes the request.
Guarded(reading, yolo) ==
    CASE Asks(reading, yolo) -> <<"needs_input", "none">>
      [] ~Asks(reading, yolo) /\ reading.negated /\ reading.kind = "generate" -> <<"closed", "none">>
      [] ~Asks(reading, yolo) /\ reading.negated /\ reading.kind = "follow" -> <<"ready", "settings">>
      [] ~Asks(reading, yolo) /\ reading.negated /\ reading.kind = "film" ->
           IF yolo THEN <<"ready", "rest">> ELSE <<"closed", "none">>
      [] OTHER -> <<"ready", reading.kind>>

\* The core's readiness for the first step.
Ready(base) == ~active /\ base = revision

\* requires_confirmation: by the policy of the operation, and of every plan; the
\* request itself may ask for it too, the server for all requests.
NeedsReview(r, kind) ==
    ReviewAll \/ (r \notin Unattended /\ kind \in {"generate"} \union Plans)

\* The model's answer after the guards, and the last look at the project.
Interpret(h) ==
    /\ handler[h].at = "thinking"
    /\ LET r == handler[h].req IN
       \E reading \in Readings, review \in BOOLEAN :
         LET outcome == Guarded(reading, r \in Unattended) IN
         /\ record[r].relation # "dismiss"
         /\ outcome[1] # "ready" => ~review
         /\ outcome[1] = "ready" /\ NeedsReview(r, outcome[2]) => review
         /\ r \in Unattended => review = (ReviewAll /\ outcome[1] = "ready")
         /\ handler' = [handler EXCEPT ![h] =
              [at |-> "answering", req |-> r, kind |-> outcome[2], review |-> review,
               negated |-> reading.negated /\ outcome[1] = "ready",
               status |-> IF outcome[1] = "ready" /\ ~Ready(record[r].base) THEN "blocked"
                          ELSE outcome[1]]]
    /\ UNCHANGED <<record, lapsed, receipt, projectVars, agreed>>

\* No proposal: a reply that withdraws its parent needs none; the model asks back
\* or finds nothing it could do; it is not configured, fails, or the handler is
\* cancelled.
NoProposal(h) ==
    /\ handler[h].at = "thinking"
    /\ LET r == handler[h].req IN
       \E status \in (IF record[r].relation = "dismiss" THEN {"closed"} ELSE Settled) :
         handler' = [handler EXCEPT ![h] = [at |-> "answering", req |-> r, kind |-> "none",
                        review |-> FALSE, negated |-> FALSE, status |-> status]]
    /\ UNCHANGED <<record, lapsed, receipt, projectVars, agreed>>

\* The part of a response that execute() works with: the next step, the base
\* revision it is bound to, the last step of this call.
Snapshot(r, submitted) ==
    LET n == Len(receipt[r]) IN
    [at |-> "executing", req |-> r, step |-> n + 1, submitted |-> submitted,
     until |-> IF record[r].kind \in Plans THEN Len(Steps(r)) ELSE n + 1,
     base |-> IF n = 0 THEN record[r].base ELSE receipt[r][n]]

\* Mutation of Keeps: the late answer of an expired interpretation is stored.
KeepsLate(r) == record[r].status = "interpreting"

\* finish_interpretation stores an answer only while the request waits for it.
Keeps(r) == Current(r) = "interpreting"

\* The answer is stored, or given up.  The client may have asked for a preview
\* only, or gone; a submitted proposal that needs no confirmation runs at once.
Finish(h, submitted) ==
    /\ handler[h].at = "answering"
    /\ LET r == handler[h].req
           a == handler[h]
       IN IF Keeps(r)
          THEN /\ record' = [record EXCEPT ![r].status = a.status, ![r].kind = a.kind,
                                           ![r].review = a.review, ![r].negated = a.negated]
               /\ handler' = [handler EXCEPT ![h] =
                    IF submitted /\ a.status = "ready" /\ ~a.review
                    THEN [at |-> "submitted", req |-> r] ELSE IdleHandler]
          ELSE Expire(r) /\ handler' = [handler EXCEPT ![h] = IdleHandler]
    /\ UNCHANGED <<lapsed, receipt, projectVars, agreed>>

\* The same request again: the stored response, which a submission acts upon.
Resubmit(h, r) ==
    /\ handler[h] = IdleHandler
    /\ record[r].status # "none"
    /\ Expire(r)
    /\ handler' = [handler EXCEPT ![h] =
         IF View(r) = "ready" /\ ~record[r].review /\ Token(r) = "proposal"
         THEN [at |-> "submitted", req |-> r] ELSE IdleHandler]
    /\ UNCHANGED <<lapsed, receipt, projectVars, agreed>>

-----------------------------------------------------------------------------
(* Execution: execute, _execute_plan and the operation core *)

\* Mutation of Accepts: any confirmation will do for what is offered by now.
AcceptsAnyToken(r, token, flag) ==
    /\ View(r) = "ready" /\ record[r].kind # "none"
    /\ "generate" \in {Steps(r)[i] : i \in (IF record[r].kind \in Plans THEN 1 .. Len(Steps(r))
                                            ELSE {Len(receipt[r]) + 1})} => flag

\* The checks on the looked-up response: its state, the token of what is
\* offered now, and an explicit flag where a generation is among the steps.
Accepts(r, token, flag) ==
    /\ View(r) = "ready" /\ record[r].kind # "none"
    /\ token = Token(r)
    /\ "generate" \in {Steps(r)[i] : i \in (IF record[r].kind \in Plans THEN 1 .. Len(Steps(r))
                                            ELSE {Len(receipt[r]) + 1})} => flag

\* What a YOLO submission does with a response that execute() only returned:
\* the steps are done, or the confirmation of the save is a repetition.
Returned(r, token) ==
    IF token = "proposal" /\ Token(r) = "generation" /\ View(r) = "ready"
    THEN [at |-> "following", req |-> r]
    ELSE IF Done(r) \/ (token = "proposal" /\ Token(r) = "generation")
    THEN [at |-> "reporting", req |-> r, status |-> View(r)] ELSE IdleHandler

Execute(h, r, token, flag, submitted) ==
    /\ Expire(r)
    /\ agreed' = IF flag /\ Accepts(r, token, flag) THEN agreed \union {<<r, token>>} ELSE agreed
    /\ handler' = [handler EXCEPT ![h] =
         IF Accepts(r, token, flag) THEN Snapshot(r, submitted)
         ELSE IF submitted /\ r \in Unattended THEN Returned(r, token) ELSE IdleHandler]
    /\ UNCHANGED <<lapsed, receipt, projectVars>>

\* POST .../execute with a token the client was shown.
Confirm(h, r, token, flag) ==
    /\ handler[h] = IdleHandler
    /\ record[r].kind # "none"
    /\ token = "generation" => Token(r) = "generation"
    /\ Execute(h, r, token, flag, FALSE)

\* submit() confirms on behalf of the user, with the flag in YOLO mode only.
Submit(h) ==
    /\ handler[h].at = "submitted"
    /\ LET r == handler[h].req IN Execute(h, r, "proposal", r \in Unattended, TRUE)

\* Mutation of Withdrawn: the dialogue was looked at before the core was asked.
WithdrawnBefore(r) == FALSE

\* dialogue.require_current, under the core's writer lock.
Withdrawn(r) == Superseded(r)

Acknowledging(h, status) ==
    handler' = [handler EXCEPT ![h] = [at |-> "acknowledging", req |-> @.req, status |-> status,
                                       submitted |-> @.submitted]]

\* Mutation of NextBase: a plan is carried on whatever happened in between.
NextBaseCurrent(h, result) == revision'

\* The next step of a plan is bound to the revision this one left.
NextBase(h, result) == result

Advance(h, result) ==
    IF handler[h].step < handler[h].until
    THEN handler' = [handler EXCEPT ![h].step = @ + 1, ![h].base = NextBase(h, result)]
    ELSE Acknowledging(h, "completed")

\* Mutation of Replayed: the ledger of receipts is not asked.
ReplayedNever(r, i) == FALSE

\* find_replay: this step has its receipt.
Replayed(r, i) == i <= Len(receipt[r])

\* OperationService.execute on the next step: a committed step is answered from
\* its receipt; otherwise it must be current, ready and based on this revision.
CoreExecutes(h) ==
    /\ handler[h].at = "executing"
    /\ UNCHANGED <<record, lapsed, agreed>>
    /\ LET r == handler[h].req
           i == handler[h].step
       IN IF Replayed(r, i)
          THEN UNCHANGED <<receipt, projectVars>> /\ Advance(h, receipt[r][i])
          ELSE IF Withdrawn(r) \/ ~Ready(handler[h].base)
          THEN UNCHANGED <<receipt, projectVars>> /\ Acknowledging(h, "blocked")
          ELSE /\ Steps(r)[i] = "save" => revision < MaxRevision
               /\ revision' = IF Steps(r)[i] = "save" THEN revision + 1 ELSE revision
               /\ active' = (Steps(r)[i] = "generate")
               /\ receipt' = [receipt EXCEPT ![r] = Append(@, revision')]
               /\ Advance(h, revision')

\* The writer lock was not to be had, or the handler refused.
CoreRefuses(h) ==
    /\ handler[h].at = "executing"
    /\ Acknowledging(h, "blocked")
    /\ UNCHANGED <<record, lapsed, receipt, projectVars, agreed>>

\* acknowledge: the response is stored, and what the receipts make of it.  A
\* YOLO submission goes on to the generation it is offered, and reports.
Acknowledge(h) ==
    /\ handler[h].at \in {"acknowledging", "reporting"}
    /\ LET r == handler[h].req
           status == Shown(r, handler[h].status)
           goesOn == handler[h].at = "acknowledging" /\ handler[h].submitted /\ r \in Unattended
       IN /\ record' = [record EXCEPT ![r].status = status]
          /\ handler' = [handler EXCEPT ![h] =
               IF ~goesOn THEN IdleHandler
               ELSE IF status = "ready" /\ Token(r) = "generation"
               THEN [at |-> "following", req |-> r]
               ELSE [at |-> "reporting", req |-> r, status |-> status]]
    /\ UNCHANGED <<lapsed, receipt, projectVars, agreed>>

\* The second half of a YOLO submission.
Follow(h) ==
    /\ handler[h].at = "following"
    /\ Execute(h, handler[h].req, "generation", TRUE, TRUE)

-----------------------------------------------------------------------------
(* The rest of the program *)

\* Settings saved by another route, and a job that ends.
OtherEdit ==
    /\ ~active /\ revision < MaxRevision
    /\ revision' = revision + 1
    /\ UNCHANGED <<record, lapsed, receipt, active, handler, agreed>>

JobEnds ==
    /\ active
    /\ active' = FALSE
    /\ UNCHANGED <<record, lapsed, receipt, revision, handler, agreed>>

\* The process stops.
Stop ==
    /\ \E h \in Handlers : handler[h] # IdleHandler
    /\ handler' = [h \in Handlers |-> IdleHandler]
    /\ UNCHANGED <<record, lapsed, receipt, projectVars, agreed>>

Next ==
    \/ \E r \in Requests : Lapse(r) \/ Lookup(r)
    \/ \E h \in Handlers, r \in Requests :
         \/ \E targeted \in BOOLEAN, parent \in Requests \union {NoRequest},
               relation \in Relations \union {"none"} : Claim(h, r, parent, relation, targeted)
         \/ Resubmit(h, r)
         \/ \E token \in Tokens, flag \in BOOLEAN : Confirm(h, r, token, flag)
    \/ \E h \in Handlers :
         \/ Interpret(h) \/ NoProposal(h)
         \/ \E submitted \in BOOLEAN : Finish(h, submitted)
         \/ Submit(h) \/ CoreExecutes(h) \/ CoreRefuses(h) \/ Acknowledge(h) \/ Follow(h)
    \/ OtherEdit \/ JobEnds \/ Stop

Spec == Init /\ [][Next]_vars

-----------------------------------------------------------------------------
(* Properties *)

TypeOK ==
    /\ record \in [Requests -> [status : Status, kind : Kinds, base : 0 .. MaxRevision,
          review : BOOLEAN, negated : BOOLEAN, turn : BOOLEAN,
          relation : Relations \union {"none"}, successor : Requests \union {NoRequest}]]
    /\ lapsed \in SUBSET Requests
    /\ receipt \in [Requests -> Seq(1 .. MaxRevision)]
    /\ \A r \in Requests : Len(receipt[r]) <= Len(Steps(r))
    /\ revision \in 1 .. MaxRevision
    /\ active \in BOOLEAN
    /\ agreed \in SUBSET (Requests \X Tokens)
    /\ \A h \in Handlers : handler[h].at # "idle" => handler[h].req \in Requests

\* A request that was answered with a question, a refusal or an error keeps that
\* answer and never changes anything: the late answer of a model whose lease ran
\* out, a repeated submission or confirmation do not revive it.
AnswersAreKept ==
    [][\A r \in Requests : View(r) \in Settled => View(r)' = View(r) /\ receipt'[r] = receipt[r]]_vars

\* Once a reply has taken a request over, no step of it is executed any more,
\* not even by a confirmation that was accepted before the reply came.
WithdrawnNeverRuns ==
    [][\A r \in Requests : Superseded(r) => receipt'[r] = receipt[r]]_vars

\* The steps of a request apply to what its user saw and follow each other
\* without a change by anybody else, also when a plan is resumed after a stop.
StepsAreContiguous ==
    \A r \in Requests : \A i \in 1 .. Len(receipt[r]) :
        receipt[r][i] = (IF i = 1 THEN record[r].base ELSE receipt[r][i - 1])
                        + (IF Steps(r)[i] = "save" THEN 1 ELSE 0)

\* A generation was confirmed as such: with its own token after a save, with the
\* flag, or by a request that runs unattended.  Repeating the confirmation of a
\* save never starts it; and no mode generates what the text declines.
GenerationsAreWanted ==
    \A r \in Requests : \A i \in 1 .. Len(receipt[r]) :
        Steps(r)[i] = "generate" =>
            /\ <<r, IF record[r].kind = "follow" THEN "generation" ELSE "proposal">> \in agreed
            /\ ~record[r].negated

\* "completed" is said of exactly the requests all of whose steps were
\* committed, whichever handler came last and wherever the process stopped.
CompletedMeansDone == \A r \in Requests : View(r) = "completed" <=> Done(r)

\* What a request was answered with is final, and so is that a reply took it over.
AnswersAreFinal == AnswersAreKept /\ WithdrawnNeverRuns

\* A plan is carried out step by step on what its user saw, and said to be so.
PlansAreCarriedOut == TypeOK /\ StepsAreContiguous /\ CompletedMeansDone
=============================================================================
