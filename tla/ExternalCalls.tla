---------------------------- MODULE ExternalCalls ----------------------------
(***************************************************************************)
(* The journal of one job's provider calls (services/external_calls.py):   *)
(* every POST is claimed in a committed row before it is sent and finished *)
(* in a second transaction, so that work that may have been billed is      *)
(* never sent twice - across the siblings of asyncio.gather, lost answers, *)
(* failing transactions, a crash and the resumption of the job.            *)
(***************************************************************************)
EXTENDS Naturals

CONSTANTS
    Calls,     \* fingerprints: provider, url, payload and params
    Remote,    \* the calls with remote_side_effect; the others are VOICEVOX's
    Workers,   \* coroutines of the job that may call at the same time
    MaxStops   \* bound: the process dies this often

ASSUME RemoteAssumption == Remote \subseteq Calls
ASSUME StopsAssumption == MaxStops \in Nat

VARIABLES
    row,       \* external_calls rows of the job, by fingerprint
    phase,     \* where a worker stands in journaled_post
    target,    \* the call it makes there
    sent,      \* how often a call left for the provider (2 stands for more)
    raised,    \* the failure that left siblings of a gather behind, if any
    job,       \* the job's row: running, or ended as "unknown" or otherwise
    alive,     \* the process runs
    stops      \* how often it died

vars == <<row, phase, target, sent, raised, job, alive, stops>>

\* body: the reply is cached.  unsent: error_code says that nothing was sent.
Row(status, body, unsent) == [status |-> status, body |-> body, unsent |-> unsent]
NoRow == Row("none", FALSE, FALSE)
RowStatus == {"none", "in_flight", "succeeded", "failed", "unknown"}

\* Waiting for the lock of the fingerprint, posting, or the request has left.
Phases == {"idle", "waiting", "posting", "sent"}

\* A VOICEVOX failure inside a gather is swallowed (plan_narration), so the job
\* goes on; ExternalOutcomeUnknown reaches the runner.
Failures == {"none", "local", "unknown"}

Init ==
    /\ row = [c \in Calls |-> NoRow]
    /\ phase = [w \in Workers |-> "idle"]
    /\ target \in [Workers -> Calls]
    /\ sent = [c \in Calls |-> 0]
    /\ raised = "none"
    /\ job = "running"
    /\ alive = TRUE
    /\ stops = 0

\* unresolved_remote_side_effect_predicate
Unresolved(c) == c \in Remote /\ row[c].status \in {"in_flight", "unknown"}

\* Mutation of HasUnresolvedCalls: only calls already classified as unknown.
HasUnknownCalls == \E c \in Remote : row[c].status = "unknown"

HasUnresolvedCalls == \E c \in Calls : Unresolved(c)

\* What worker w's exception does to its job (a remote failure short of
\* ExternalOutcomeUnknown is caught per block and leaves no sibling behind).
Raise(w) ==
    IF target[w] \in Remote \/ raised = "unknown" THEN "unknown" ELSE "local"
RaiseIfLocal(w) == IF target[w] \in Remote THEN raised ELSE Raise(w)

-----------------------------------------------------------------------------
(* journaled_post: the lock and _claim *)

\* A running job asks; so do siblings that gather left behind when another of
\* them raised.
Ask(w, c) ==
    /\ alive
    /\ phase[w] = "idle"
    /\ \/ job = "running"
       \/ raised = "unknown"
       \/ raised = "local" /\ c \notin Remote
    /\ phase' = [phase EXCEPT ![w] = "waiting"]
    /\ target' = [target EXCEPT ![w] = c]
    /\ UNCHANGED <<row, sent, raised, job, alive, stops>>

\* The asyncio.Lock of (job, fingerprint) is held from _claim to _finish.
Posts(w, c) == phase[w] \in {"posting", "sent"} /\ target[w] = c

\* Mutation of Enters: no lock per fingerprint.
EntersUnlocked(w) == alive /\ phase[w] = "waiting"

\* Mutation of Enters: waiters count as users of the lock.
EntersAsOnlyUser(w) ==
    /\ alive
    /\ phase[w] = "waiting"
    /\ \A v \in Workers \ {w} : phase[v] = "idle"

Enters(w) ==
    /\ alive
    /\ phase[w] = "waiting"
    /\ \A v \in Workers : ~Posts(v, target[w])

\* A reply is on record: a success, or the rejection of a remote call.
Answered(c) ==
    \/ row[c].status = "succeeded"
    \/ row[c].status = "failed" /\ row[c].body /\ c \in Remote

\* Mutation of Resendable: a call found in flight is sent again.
ResendableInFlight(c) ==
    /\ row[c].status \in {"in_flight", "failed"}
    /\ c \in Remote /\ row[c].status = "failed" => row[c].unsent
    /\ ~Answered(c)

\* Mutation of Resendable: an unknown call is given another try.
ResendableUnknown(c) ==
    /\ row[c].status \in {"in_flight", "failed", "unknown"}
    /\ c \in Remote => row[c].status = "unknown" \/ row[c].unsent
    /\ ~Answered(c)

\* A call may be sent again when it was never sent, or is local computation.
Resendable(c) ==
    /\ row[c].status \in {"in_flight", "failed"}
    /\ c \in Remote => row[c].status = "failed" /\ row[c].unsent
    /\ ~Answered(c)

\* A new call may be sent while no other remote call of the job is unknown.
Sendable(c) ==
    /\ row[c] = NoRow
    /\ c \in Remote => \A d \in Remote : row[d].status # "unknown"

\* Mutation of Claim: the row is written by _finish only.
ClaimUncommitted(w) ==
    /\ Enters(w)
    /\ Sendable(target[w]) \/ Resendable(target[w])
    /\ phase' = [phase EXCEPT ![w] = "posting"]
    /\ UNCHANGED <<row, target, sent, raised, job, alive, stops>>

\* _claim inserts or rewrites the row as in flight, and the POST begins.
Claim(w) ==
    /\ Enters(w)
    /\ Sendable(target[w]) \/ Resendable(target[w])
    /\ row' = [row EXCEPT ![target[w]] = Row("in_flight", FALSE, FALSE)]
    /\ phase' = [phase EXCEPT ![w] = "posting"]
    /\ UNCHANGED <<target, sent, raised, job, alive, stops>>

\* _claim returns the cached reply.
ServeCached(w) ==
    /\ Enters(w)
    /\ Answered(target[w]) /\ row[target[w]].body
    /\ phase' = [phase EXCEPT ![w] = "idle"]
    /\ UNCHANGED <<row, target, sent, raised, job, alive, stops>>

\* _claim raises ExternalOutcomeUnknown; a reply that is gone marks the row.
Refuse(w) ==
    LET c == target[w] IN
    /\ Enters(w)
    /\ ~Sendable(c) /\ ~Resendable(c) /\ ~(Answered(c) /\ row[c].body)
    /\ row' = IF Answered(c) THEN [row EXCEPT ![c].status = "unknown"] ELSE row
    /\ raised' = Raise(w)
    /\ phase' = [phase EXCEPT ![w] = "idle"]
    /\ UNCHANGED <<target, sent, job, alive, stops>>

\* The transaction of _claim fails (database busy or full): nothing was sent.
ClaimFails(w) ==
    /\ Enters(w)
    /\ phase' = [phase EXCEPT ![w] = "idle"]
    /\ raised' = RaiseIfLocal(w)
    /\ UNCHANGED <<row, target, sent, job, alive, stops>>

-----------------------------------------------------------------------------
(* The POST and _finish *)

\* The request leaves the process: the provider may execute it, now or later,
\* whatever becomes of the connection.
Send(w) ==
    /\ alive
    /\ phase[w] = "posting"
    /\ phase' = [phase EXCEPT ![w] = "sent"]
    /\ sent' = [sent EXCEPT ![target[w]] = IF @ < 2 THEN @ + 1 ELSE @]
    /\ UNCHANGED <<row, target, raised, job, alive, stops>>

\* _finish rewrites the row and the worker leaves the lock.
Finish(w, outcome) ==
    /\ row' = [row EXCEPT ![target[w]] = outcome]
    /\ phase' = [phase EXCEPT ![w] = "idle"]
    /\ UNCHANGED <<target, sent, job, alive, stops>>

\* The connection failed before a byte was sent (_NOT_SENT_ERRORS).
NotSent(w) ==
    /\ alive
    /\ phase[w] = "posting"
    /\ Finish(w, Row("failed", FALSE, TRUE))
    /\ raised' = RaiseIfLocal(w)

\* Mutation of Answer: the reply is not cached.
AnswerUncached(w) ==
    /\ alive
    /\ phase[w] = "sent"
    /\ Finish(w, Row("succeeded", FALSE, FALSE))
    /\ UNCHANGED raised

\* A reply: success, or a rejection (for local calls any status >= 400).
Answer(w) ==
    /\ alive
    /\ phase[w] = "sent"
    /\ \/ Finish(w, Row("succeeded", TRUE, FALSE)) /\ UNCHANGED raised
       \/ Finish(w, Row("failed", TRUE, FALSE)) /\ raised' = RaiseIfLocal(w)

\* A transport error, a cancellation, 408 or 5xx, before or after execution.
Lose(w) ==
    /\ alive
    /\ phase[w] \in {"posting", "sent"}
    /\ Finish(w, Row(IF target[w] \in Remote THEN "unknown" ELSE "failed", FALSE, FALSE))
    /\ raised' = Raise(w)

\* The transaction of _finish fails: the row stays in flight.  Most paths raise
\* ExternalOutcomeUnknown for a remote call, a 5xx raises the failure itself.
Unrecorded(w) ==
    /\ alive
    /\ phase[w] \in {"posting", "sent"}
    /\ phase' = [phase EXCEPT ![w] = "idle"]
    /\ raised' \in {RaiseIfLocal(w), Raise(w)}
    /\ UNCHANGED <<row, target, sent, job, alive, stops>>

-----------------------------------------------------------------------------
(* The job around the calls *)

\* The runner's closing transaction, once the coroutine of the job is through:
\* every call returned, or only strays of a failed gather are left;
\* clear_call_bodies for all but an unknown job.
Settle ==
    /\ alive
    /\ job = "running"
    /\ \/ raised = "unknown"
       \/ \A w \in Workers : phase[w] = "idle" \/ (raised = "local" /\ target[w] \notin Remote)
    /\ job' \in IF HasUnresolvedCalls THEN {"unknown"}
                ELSE IF raised = "unknown" THEN {"unknown", "ended"} ELSE {"ended"}
    /\ row' = IF job' = "ended" THEN [c \in Calls |-> [row[c] EXCEPT !.body = FALSE]] ELSE row
    /\ UNCHANGED <<phase, target, sent, raised, alive, stops>>

Crash ==
    /\ alive
    /\ stops < MaxStops
    /\ alive' = FALSE
    /\ stops' = stops + 1
    /\ phase' = [w \in Workers |-> "idle"]
    /\ raised' = "none"
    /\ UNCHANGED <<row, target, sent, job>>

\* Mutation of Interrupted: the error code lands in the status column.
InterruptedVerbatim(c) ==
    IF row[c].status = "in_flight" THEN Row("process_interrupted", FALSE, FALSE) ELSE row[c]

\* mark_interrupted_calls for one row.
Interrupted(c) ==
    IF row[c].status # "in_flight" THEN row[c]
    ELSE [row[c] EXCEPT !.status = IF c \in Remote THEN "unknown" ELSE "failed"]

\* Startup: the calls, then the job - unknown, resumed, or ended because it was
\* cancelled or its inputs do not match.
Restart ==
    /\ ~alive
    /\ alive' = TRUE
    /\ row' = [c \in Calls |-> Interrupted(c)]
    /\ job' \in IF job # "running" THEN {job}
                ELSE IF HasUnresolvedCalls THEN {"unknown"} ELSE {"running", "ended"}
    /\ UNCHANGED <<phase, target, sent, raised, stops>>

-----------------------------------------------------------------------------

Return(w) == ServeCached(w) \/ Refuse(w) \/ Claim(w)
End(w) == Send(w) \/ NotSent(w) \/ Answer(w) \/ Lose(w) \/ Unrecorded(w)

Next ==
    \/ \E w \in Workers : Return(w) \/ ClaimFails(w) \/ End(w) \/ \E c \in Calls : Ask(w, c)
    \/ Settle \/ Crash \/ Restart

Spec == Init /\ [][Next]_vars

\* asyncio.Lock wakes its waiters in order, so a waiting worker is not passed
\* over forever; every POST ends, because httpx clients carry timeouts.
Fairness == \A w \in Workers : SF_vars(Return(w)) /\ WF_vars(End(w))

FairSpec == Spec /\ Fairness

-----------------------------------------------------------------------------
(* Correctness *)

\* Rows, phases and counters have their types.
TypeOK ==
    /\ row \in [Calls -> [status : RowStatus, body : BOOLEAN, unsent : BOOLEAN]]
    /\ phase \in [Workers -> Phases]
    /\ target \in [Workers -> Calls]
    /\ sent \in [Calls -> 0 .. 2]
    /\ raised \in Failures
    /\ job \in {"running", "unknown", "ended"}
    /\ alive \in BOOLEAN
    /\ stops \in 0 .. MaxStops

\* A remote call of a job leaves for its provider at most once, whatever is lost, retried,
\* repeated by a sibling or resumed after a crash (journaled_post: "POST once").
AtMostOnce == \A c \in Remote : sent[c] <= 1

\* A remote request that left the process has left a row that forbids sending it
\* again: there is no unrecorded spending (_claim commits before the POST).
SentIsRecorded ==
    \A c \in Remote : sent[c] > 0 => row[c].status # "none" /\ ~row[c].unsent

\* A worker is refused, and the job given up, only when the outcome of a remote
\* call really is open - a sibling that is still posting the same call is
\* waited for, never taken for a lost one (_locks).
RefusedOnlyWhenLost ==
    raised = "unknown" => \E c \in Remote :
        \/ row[c].status = "unknown"
        \/ row[c].status = "in_flight" /\ \A w \in Workers : ~Posts(w, c)

\* A job that ended otherwise than unknown leaves no remote call open, not even
\* one that a sibling of its coroutine began or finishes later.
EndedLeavesNothingOpen == job = "ended" => ~HasUnresolvedCalls

\* While the job can still be resumed every reply it was given is on record, so
\* resumption serves it and never ends on "cached_response_missing".
RepliesAreKept ==
    job = "running" => \A c \in Calls :
        /\ row[c].status = "succeeded" => row[c].body
        /\ c \in Remote /\ row[c].status = "failed" => row[c].body \/ row[c].unsent

\* The journal tells the truth about what left, what is open and what was answered.
JournalIsTrue == TypeOK /\ SentIsRecorded /\ RefusedOnlyWhenLost /\ RepliesAreKept

\* An unknown outcome is never replaced by another one: nothing in the program
\* reconciles it (mark_interrupted_calls, _claim, _finish).
UnknownStays ==
    [][\A c \in Remote : row[c].status = "unknown" => row'[c].status = "unknown"]_vars

\* No call is in flight when the job ends (the splitter awaits all segments so
\* that "no sibling call is left in flight when the job ends").
NoCallInFlightAtEnd ==
    job # "running" => \A w \in Workers : phase[w] \notin {"posting", "sent"}

\* Every call a worker makes returns to it, or the process dies.
EveryCallReturns == \A w \in Workers : phase[w] # "idle" ~> phase[w] = "idle"
=============================================================================
