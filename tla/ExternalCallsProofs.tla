------------------------- MODULE ExternalCallsProofs -------------------------
(***************************************************************************)
(* Proofs about ExternalCalls, for every set of calls, any number of       *)
(* siblings and any number of crashes.                                     *)
(*                                                                         *)
(* AtMostOnce and SentIsRecorded are not inductive: a step of _claim must  *)
(* know that a call it is about to send has not been sent, which rests on  *)
(* what the row says (Recorded), on the lock (OneHolder, HeldInFlight) and *)
(* on the window between the committed row and the request (NotYetSent).   *)
(***************************************************************************)
EXTENDS ExternalCalls, TLAPS

InPost == {"posting", "sent"}

\* The lock of a fingerprint has one holder.
OneHolder ==
    \A v, w \in Workers :
        phase[v] \in InPost /\ phase[w] \in InPost /\ target[v] = target[w] => v = w

\* Between _claim and _finish the row is in flight.
HeldInFlight == \A w \in Workers : phase[w] \in InPost => row[target[w]].status = "in_flight"

\* A remote call that was claimed and not yet sent was never sent before.
NotYetSent ==
    \A w \in Workers : phase[w] = "posting" /\ target[w] \in Remote => sent[target[w]] = 0

\* Only a failure without a reply is marked as not sent.
UnsentRows == \A c \in Calls : row[c].unsent => row[c].status = "failed" /\ ~row[c].body

\* No coroutine outlives its process.
DeadIsIdle == ~alive => \A w \in Workers : phase[w] = "idle"

CallInv ==
    /\ TypeOK
    /\ DeadIsIdle
    /\ UnsentRows
    /\ OneHolder
    /\ HeldInFlight
    /\ NotYetSent
    /\ SentIsRecorded
    /\ AtMostOnce

-----------------------------------------------------------------------------

\* The journal starts empty, and nothing was sent.
LEMMA CallInit == Init => CallInv
BY RemoteAssumption, StopsAssumption
DEF Init, CallInv, TypeOK, DeadIsIdle, UnsentRows, OneHolder, HeldInFlight, NotYetSent, SentIsRecorded, AtMostOnce,
    InPost, Row, NoRow, RowStatus, Phases, Failures

\* A claim, by one of the siblings, of a call that may be sent.
LEMMA ClaimStep ==
    ASSUME CallInv, NEW w \in Workers, Claim(w) PROVE CallInv'
<1>0. TypeOK /\ DeadIsIdle /\ UnsentRows /\ OneHolder /\ HeldInFlight /\ NotYetSent /\ SentIsRecorded /\ AtMostOnce
  BY DEF CallInv
<1> DEFINE c == target[w]
<1>1. /\ c \in Calls
      /\ phase[w] = "waiting"
      /\ \A v \in Workers : ~(phase[v] \in InPost /\ target[v] = c)
      /\ row' = [row EXCEPT ![c] = Row("in_flight", FALSE, FALSE)]
      /\ phase' = [phase EXCEPT ![w] = "posting"]
      /\ target' = target /\ sent' = sent /\ raised' = raised /\ job' = job
      /\ alive' = alive /\ stops' = stops
  BY <1>0 DEF Claim, Enters, Posts, InPost, TypeOK
<1>2. c \in Remote => sent[c] = 0
  <2>1. c \in Remote => row[c].status = "none" \/ row[c].unsent
    BY <1>0 DEF Claim, Sendable, Resendable, NoRow, Row
  <2>2. sent[c] \in Nat
    BY <1>0, <1>1 DEF TypeOK
  <2> QED BY <1>0, <2>1, <2>2 DEF SentIsRecorded
<1>3. TypeOK'
  BY <1>0, <1>1 DEF TypeOK, Row, RowStatus, Phases
<1>9. UnsentRows' /\ DeadIsIdle'
  BY <1>0, <1>1 DEF UnsentRows, DeadIsIdle, TypeOK, Row
<1>4. OneHolder'
  BY <1>0, <1>1 DEF OneHolder, TypeOK
<1>5. HeldInFlight'
  BY <1>0, <1>1 DEF HeldInFlight, TypeOK, Row
<1>6. NotYetSent'
  BY <1>0, <1>1, <1>2 DEF NotYetSent, TypeOK
<1>7. SentIsRecorded'
  BY <1>0, <1>1, RemoteAssumption DEF SentIsRecorded, TypeOK, Row
<1>8. AtMostOnce'
  BY <1>0, <1>1 DEF AtMostOnce
<1> QED BY <1>3, <1>4, <1>5, <1>6, <1>7, <1>8, <1>9 DEF CallInv

\* A worker that leaves journaled_post, whether or not the row of its call is
\* rewritten, as long as a sent call keeps a row that records it.
LEMMA LeaveStep ==
    ASSUME CallInv, NEW w \in Workers, NEW outcome \in [status : RowStatus, body : BOOLEAN, unsent : BOOLEAN],
           phase' = [phase EXCEPT ![w] = "idle"],
           \/ row' = row
           \/ /\ row' = [row EXCEPT ![target[w]] = outcome]
              /\ \A v \in Workers \ {w} : ~(phase[v] \in InPost /\ target[v] = target[w])
              /\ outcome.status # "none"
              /\ outcome.unsent => outcome.status = "failed" /\ ~outcome.body
              /\ target[w] \in Remote /\ sent[target[w]] > 0 => ~outcome.unsent,
           raised' \in Failures,
           UNCHANGED <<target, sent, job, alive, stops>>
    PROVE  CallInv'
<1>0. TypeOK /\ DeadIsIdle /\ UnsentRows /\ OneHolder /\ HeldInFlight /\ NotYetSent /\ SentIsRecorded /\ AtMostOnce
  BY DEF CallInv
<1>1. target[w] \in Calls
  BY <1>0 DEF TypeOK
<1>2. \A v \in Workers : phase'[v] # "idle" => v # w /\ phase'[v] = phase[v]
  BY <1>0 DEF TypeOK
<1>3. TypeOK'
  BY <1>0, <1>1 DEF TypeOK, Phases
<1>9. UnsentRows' /\ DeadIsIdle'
  BY <1>0, <1>1, <1>2 DEF UnsentRows, DeadIsIdle, TypeOK
<1>4. OneHolder'
  BY <1>0, <1>2 DEF OneHolder, InPost
<1>5. HeldInFlight'
  BY <1>0, <1>1, <1>2 DEF HeldInFlight, InPost, TypeOK
<1>6. NotYetSent'
  BY <1>0, <1>2 DEF NotYetSent
<1>7. SentIsRecorded'
  BY <1>0, <1>1, RemoteAssumption DEF SentIsRecorded, TypeOK
<1>8. AtMostOnce'
  BY <1>0 DEF AtMostOnce
<1> QED BY <1>3, <1>4, <1>5, <1>6, <1>7, <1>8, <1>9 DEF CallInv

\* A worker that holds the lock is the only one, so _finish may rewrite the row.
LEMMA FinishStep ==
    ASSUME CallInv, NEW w \in Workers, phase[w] \in InPost,
           NEW outcome \in [status : RowStatus, body : BOOLEAN, unsent : BOOLEAN],
           Finish(w, outcome), outcome.status # "none", raised' \in Failures,
           outcome.unsent => phase[w] = "posting" /\ outcome.status = "failed" /\ ~outcome.body
    PROVE  CallInv'
<1>1. \A v \in Workers \ {w} : ~(phase[v] \in InPost /\ target[v] = target[w])
  BY DEF CallInv, OneHolder
<1>2. target[w] \in Remote /\ sent[target[w]] > 0 => ~outcome.unsent
  BY DEF CallInv, NotYetSent
<1> QED BY <1>1, <1>2, LeaveStep DEF Finish

\* The request leaves: the only step that sends.
LEMMA SendStep ==
    ASSUME CallInv, NEW w \in Workers, Send(w) PROVE CallInv'
<1>0. TypeOK /\ DeadIsIdle /\ UnsentRows /\ OneHolder /\ HeldInFlight /\ NotYetSent /\ SentIsRecorded /\ AtMostOnce
  BY DEF CallInv
<1> DEFINE c == target[w]
<1>1. /\ c \in Calls /\ phase[w] = "posting"
      /\ phase' = [phase EXCEPT ![w] = "sent"]
      /\ sent' = [sent EXCEPT ![c] = IF @ < 2 THEN @ + 1 ELSE @]
      /\ target' = target /\ row' = row /\ raised' = raised /\ job' = job
      /\ alive' = alive /\ stops' = stops
  BY <1>0 DEF Send, TypeOK
<1>2. sent[c] \in 0 .. 2 /\ (c \in Remote => sent[c] = 0)
  BY <1>0, <1>1 DEF TypeOK, NotYetSent
<1>3. TypeOK'
  BY <1>0, <1>1, <1>2 DEF TypeOK, Phases
<1>10. UnsentRows' /\ DeadIsIdle'
  BY <1>0, <1>1 DEF UnsentRows, DeadIsIdle
<1>4. OneHolder'
  BY <1>0, <1>1 DEF OneHolder, TypeOK, InPost
<1>5. HeldInFlight'
  BY <1>0, <1>1 DEF HeldInFlight, TypeOK, InPost
<1>6. NotYetSent'
  BY <1>0, <1>1 DEF NotYetSent, OneHolder, TypeOK, InPost
<1>7. row[c].status = "in_flight" /\ ~row[c].unsent
  BY <1>0, <1>1 DEF HeldInFlight, UnsentRows, InPost
<1>8. SentIsRecorded'
  BY <1>0, <1>1, <1>7, RemoteAssumption DEF SentIsRecorded, TypeOK
<1>9. AtMostOnce'
  BY <1>0, <1>1, <1>2, RemoteAssumption DEF AtMostOnce, TypeOK
<1> QED BY <1>3, <1>4, <1>5, <1>6, <1>8, <1>9, <1>10 DEF CallInv

-----------------------------------------------------------------------------

\* A step that rewrites every row by a rule that keeps what was sent on record,
\* while no worker is inside the lock or the statuses stay as they are.
LEMMA RewriteStep ==
    ASSUME CallInv, row' \in [Calls -> [status : RowStatus, body : BOOLEAN, unsent : BOOLEAN]],
           \A c \in Calls : row'[c].unsent = row[c].unsent,
           \A c \in Calls : row'[c].body => row[c].body,
           \A c \in Calls : row'[c].status # row[c].status =>
               row[c].status = "in_flight" /\ row'[c].status # "none",
           \/ phase' = phase /\ \A c \in Calls : row'[c].status = row[c].status
           \/ phase' \in [Workers -> {"idle"}],
           ~alive' => phase' \in [Workers -> {"idle"}],
           raised' \in Failures, job' \in {"running", "unknown", "ended"},
           alive' \in BOOLEAN, stops' \in 0 .. MaxStops,
           UNCHANGED <<target, sent>>
    PROVE  CallInv'
<1>0. TypeOK /\ DeadIsIdle /\ UnsentRows /\ OneHolder /\ HeldInFlight /\ NotYetSent /\ SentIsRecorded /\ AtMostOnce
  BY DEF CallInv
<1>1. TypeOK'
  BY <1>0 DEF TypeOK, Phases
<1>2. UnsentRows' /\ DeadIsIdle'
  BY <1>0 DEF UnsentRows, DeadIsIdle, TypeOK
<1>3. OneHolder'
  BY <1>0 DEF OneHolder, InPost
<1>4. HeldInFlight'
  BY <1>0 DEF HeldInFlight, InPost, TypeOK
<1>5. NotYetSent'
  BY <1>0 DEF NotYetSent
<1>6. SentIsRecorded'
  BY <1>0, RemoteAssumption DEF SentIsRecorded
<1>7. AtMostOnce'
  BY <1>0 DEF AtMostOnce
<1> QED BY <1>1, <1>2, <1>3, <1>4, <1>5, <1>6, <1>7 DEF CallInv

\* Every step keeps the invariant.
LEMMA CallStep == CallInv /\ [Next]_vars => CallInv'
<1> SUFFICES ASSUME CallInv, [Next]_vars PROVE CallInv'
  OBVIOUS
<1>0. TypeOK /\ DeadIsIdle /\ UnsentRows /\ OneHolder /\ HeldInFlight /\ NotYetSent /\ SentIsRecorded /\ AtMostOnce
  BY DEF CallInv
<1>1. CASE UNCHANGED vars
  BY <1>0, <1>1 DEF vars, CallInv, TypeOK, DeadIsIdle, UnsentRows, OneHolder, HeldInFlight, NotYetSent,
                    SentIsRecorded, AtMostOnce
<1>2. ASSUME NEW w \in Workers, NEW c \in Calls, Ask(w, c) PROVE CallInv'
  <2>1. \A v \in Workers : phase'[v] \in InPost => phase[v] = phase'[v] /\ target[v] = target'[v]
    BY <1>0, <1>2 DEF Ask, TypeOK, InPost
  <2>2. TypeOK'
    BY <1>0, <1>2 DEF Ask, TypeOK, Phases
  <2>3. OneHolder' /\ HeldInFlight'
    BY <1>0, <1>2, <2>1 DEF Ask, OneHolder, HeldInFlight
  <2>4. NotYetSent'
    BY <1>0, <1>2, <2>1 DEF Ask, NotYetSent, InPost
  <2>5. UnsentRows' /\ DeadIsIdle' /\ SentIsRecorded' /\ AtMostOnce'
    BY <1>0, <1>2 DEF Ask, UnsentRows, DeadIsIdle, SentIsRecorded, AtMostOnce
  <2> QED BY <2>2, <2>3, <2>4, <2>5 DEF CallInv
<1>3. ASSUME NEW w \in Workers, ServeCached(w) \/ Refuse(w) \/ ClaimFails(w) PROVE CallInv'
  <2> DEFINE outcome == [row[target[w]] EXCEPT !.status = "unknown"]
  <2>1. /\ outcome \in [status : RowStatus, body : BOOLEAN, unsent : BOOLEAN]
        /\ phase' = [phase EXCEPT ![w] = "idle"]
        /\ raised' \in Failures
        /\ UNCHANGED <<target, sent, job, alive, stops>>
        /\ \A v \in Workers : ~(phase[v] \in InPost /\ target[v] = target[w])
    BY <1>0, <1>3 DEF ServeCached, Refuse, ClaimFails, Enters, Posts, InPost, TypeOK, RowStatus,
                      Raise, RaiseIfLocal, Failures
  <2>2. Answered(target[w]) => ~row[target[w]].unsent
    BY <1>0 DEF Answered, UnsentRows, TypeOK
  <2>3. ~outcome.unsent \/ row' = row
    BY <1>0, <1>3, <2>2 DEF ServeCached, Refuse, ClaimFails, TypeOK
  <2>4. row' = row \/ row' = [row EXCEPT ![target[w]] = outcome]
    BY <1>3 DEF ServeCached, Refuse, ClaimFails
  <2>5. outcome.status # "none"
    BY <1>0 DEF TypeOK
  <2> HIDE DEF outcome
  <2> QED BY <2>1, <2>3, <2>4, <2>5, LeaveStep
<1>4. ASSUME NEW w \in Workers, Claim(w) PROVE CallInv'
  BY <1>4, ClaimStep
<1>5. ASSUME NEW w \in Workers, Send(w) PROVE CallInv'
  BY <1>5, SendStep
<1>6. ASSUME NEW w \in Workers, NotSent(w) \/ Answer(w) \/ Lose(w) PROVE CallInv'
  <2>1. phase[w] \in InPost /\ raised' \in Failures
    BY <1>0, <1>6 DEF NotSent, Answer, Lose, InPost, Raise, RaiseIfLocal, Failures, TypeOK
  <2>2. CASE NotSent(w)
    BY <2>1, <2>2, FinishStep DEF NotSent, Row, RowStatus
  <2>3. CASE Answer(w)
    BY <2>1, <2>3, FinishStep DEF Answer, Row, RowStatus
  <2>4. CASE Lose(w)
    BY <2>1, <2>4, FinishStep DEF Lose, Row, RowStatus
  <2> QED BY <1>6, <2>2, <2>3, <2>4
<1>7. ASSUME NEW w \in Workers, Unrecorded(w) PROVE CallInv'
  <2>1. /\ phase' = [phase EXCEPT ![w] = "idle"] /\ row' = row /\ raised' \in Failures
        /\ UNCHANGED <<target, sent, job, alive, stops>>
    BY <1>0, <1>7 DEF Unrecorded, Raise, RaiseIfLocal, Failures, TypeOK
  <2>2. NoRow \in [status : RowStatus, body : BOOLEAN, unsent : BOOLEAN]
    BY DEF NoRow, Row, RowStatus
  <2> QED BY <2>1, <2>2, LeaveStep
<1>8. CASE Settle
  <2>1. /\ phase' = phase /\ raised' \in Failures /\ alive' = TRUE /\ stops' \in 0 .. MaxStops
        /\ job' \in {"running", "unknown", "ended"}
        /\ UNCHANGED <<target, sent>>
    BY <1>0, <1>8 DEF Settle, TypeOK
  <2>2. \/ row' = [c \in Calls |-> [row[c] EXCEPT !.body = FALSE]]
        \/ row' = row
    BY <1>8 DEF Settle
  <2>3. /\ row' \in [Calls -> [status : RowStatus, body : BOOLEAN, unsent : BOOLEAN]]
        /\ \A c \in Calls : /\ row'[c].unsent = row[c].unsent
                            /\ row'[c].body => row[c].body
                            /\ row'[c].status = row[c].status
    BY ZenonT(60), <1>0, <2>2 DEF TypeOK
  <2> QED BY <2>1, <2>3, RewriteStep
<1>9. CASE Crash
  <2>1. /\ phase' = [w \in Workers |-> "idle"]
        /\ row' = row
        /\ raised' \in Failures /\ alive' \in BOOLEAN
        /\ job' \in {"running", "unknown", "ended"}
        /\ UNCHANGED <<target, sent>>
    BY <1>0, <1>9 DEF Crash, TypeOK, Failures
  <2>2. stops' \in 0 .. MaxStops
    BY <1>0, <1>9, StopsAssumption DEF Crash, TypeOK
  <2>3. row' \in [Calls -> [status : RowStatus, body : BOOLEAN, unsent : BOOLEAN]]
    BY <1>0, <2>1 DEF TypeOK
  <2> QED BY <2>1, <2>2, <2>3, RewriteStep
<1>10. CASE Restart
  <2>1. /\ row' = [c \in Calls |-> Interrupted(c)]
        /\ raised' \in Failures /\ alive' = TRUE /\ stops' \in 0 .. MaxStops
        /\ job' \in {"running", "unknown", "ended"}
        /\ UNCHANGED <<phase, target, sent>>
    BY <1>0, <1>10 DEF Restart, TypeOK
  <2>2. \A c \in Calls : /\ Interrupted(c) \in [status : RowStatus, body : BOOLEAN, unsent : BOOLEAN]
                         /\ Interrupted(c).unsent = row[c].unsent
                         /\ Interrupted(c).body = row[c].body
                         /\ Interrupted(c).status # row[c].status =>
                              row[c].status = "in_flight" /\ Interrupted(c).status # "none"
    BY <1>0 DEF TypeOK, Interrupted, RowStatus
  <2>3. /\ row' \in [Calls -> [status : RowStatus, body : BOOLEAN, unsent : BOOLEAN]]
        /\ \A c \in Calls : /\ row'[c].unsent = row[c].unsent
                            /\ row'[c].body => row[c].body
                            /\ row'[c].status # row[c].status =>
                                 row[c].status = "in_flight" /\ row'[c].status # "none"
    BY <2>1, <2>2
  <2>4. phase' \in [Workers -> {"idle"}]
    BY <1>0, <1>10, <2>1 DEF Restart, DeadIsIdle, TypeOK
  <2> QED BY <2>1, <2>3, <2>4, RewriteStep
<1> QED
  BY <1>1, <1>2, <1>3, <1>4, <1>5, <1>6, <1>7, <1>8, <1>9, <1>10 DEF Next, Return, End

\* The invariant holds in every reachable state.
THEOREM CallInvAlways == Spec => []CallInv
BY CallInit, CallStep, PTL DEF Spec

\* Type correctness of the journal.
THEOREM TypeCorrect == Spec => []TypeOK
BY CallInvAlways, PTL DEF CallInv

\* No remote call of a job leaves for its provider twice, whatever is lost,
\* repeated by a sibling or resumed after a crash (journaled_post).
THEOREM AtMostOnceAlways == Spec => []AtMostOnce
BY CallInvAlways, PTL DEF CallInv

\* Whatever was sent to a remote provider is on record, and not as unsent.
THEOREM SentIsRecordedAlways == Spec => []SentIsRecorded
BY CallInvAlways, PTL DEF CallInv

\* Nothing in the program replaces an unknown outcome by another one.
THEOREM UnknownStaysAlways == Spec => UnknownStays
<1> DEFINE Stays == \A c \in Remote : row[c].status = "unknown" => row'[c].status = "unknown"
<1>1. ASSUME CallInv, [Next]_vars, NEW c \in Remote, row[c].status = "unknown"
      PROVE  row'[c].status = "unknown"
  <2>0. c \in Calls /\ row \in [Calls -> [status : RowStatus, body : BOOLEAN, unsent : BOOLEAN]]
    BY <1>1, RemoteAssumption DEF CallInv, TypeOK
  <2>1. CASE row' = row
    BY <1>1, <2>1
  <2>2. ASSUME NEW w \in Workers, Refuse(w) PROVE row'[c].status = "unknown"
    BY <1>1, <2>0, <2>2 DEF Refuse
  <2>3. ASSUME NEW w \in Workers, Claim(w) PROVE row'[c].status = "unknown"
    <3>1. target[w] # c
      BY <1>1, <2>3 DEF Claim, Sendable, Resendable, NoRow, Row
    <3> QED BY <1>1, <2>0, <2>3, <3>1 DEF Claim
  <2>4. ASSUME NEW w \in Workers, NotSent(w) \/ Answer(w) \/ Lose(w)
        PROVE  row'[c].status = "unknown"
    <3>1. target[w] # c
      BY <1>1, <2>4 DEF NotSent, Answer, Lose, CallInv, HeldInFlight, InPost
    <3> QED BY <1>1, <2>0, <2>4, <3>1 DEF NotSent, Answer, Lose, Finish
  <2>5. CASE Settle
    BY <1>1, <2>0, <2>5 DEF Settle
  <2>6. CASE Restart
    BY <1>1, <2>0, <2>6 DEF Restart, Interrupted
  <2> QED
    BY <1>1, <2>1, <2>2, <2>3, <2>4, <2>5, <2>6
    DEF Next, vars, Return, End, Ask, ServeCached, ClaimFails, Send, Unrecorded, Crash
<1>2. CallInv /\ [Next]_vars => [Stays]_vars
  BY <1>1
<1> QED BY <1>2, CallInvAlways, PTL DEF Spec, UnknownStays

-----------------------------------------------------------------------------
(* When a worker is refused, and what an ended job leaves behind: two      *)
(* properties that need each other.  A job that ended has no remote worker *)
(* left, because a coroutine is left behind only by an exception, which    *)
(* shows that the outcome of a remote call is open, which keeps the job    *)
(* from ending; and a worker is refused without an open outcome only when  *)
(* the replies are gone, which is after the end.                           *)

\* Cached replies belong to calls with an outcome.
BodyRows == \A c \in Calls : row[c].body => row[c].status \in {"succeeded", "failed"}

\* Until the job has ended otherwise than unknown, its replies are on record.
KeptUntilEnd ==
    job # "ended" => \A c \in Calls :
        /\ row[c].status = "succeeded" => row[c].body
        /\ c \in Remote /\ row[c].status = "failed" => row[c].body \/ row[c].unsent

\* A job that ended has no coroutine left in a remote call.
QuietAfterEnd ==
    job = "ended" => \A w \in Workers : phase[w] # "idle" => target[w] \notin Remote

OpenInv ==
    /\ CallInv
    /\ BodyRows
    /\ KeptUntilEnd
    /\ QuietAfterEnd
    /\ ~alive => raised = "none"
    /\ RefusedOnlyWhenLost
    /\ EndedLeavesNothingOpen

\* The outcome of a remote call is open and nobody is about to settle it.
Lost(c) ==
    \/ row[c].status = "unknown"
    \/ row[c].status = "in_flight" /\ \A w \in Workers : ~Posts(w, c)

\* A lost call stays lost while the process lives.
LEMMA LostStays ==
    ASSUME CallInv, [Next]_vars, alive', NEW c \in Remote, Lost(c), alive
    PROVE  Lost(c)'
<1>0. c \in Calls /\ TypeOK
  BY RemoteAssumption DEF CallInv
<1>1. CASE UNCHANGED vars
  BY <1>1 DEF vars, Lost, Posts
<1>2. ASSUME NEW w \in Workers, Claim(w) PROVE Lost(c)'
  <2>1. target[w] # c
    BY <1>0, <1>2 DEF Claim, Sendable, Resendable, NoRow, Row, Lost
  <2> QED BY <1>0, <1>2, <2>1 DEF Claim, Lost, Posts, TypeOK
<1>3. ASSUME NEW w \in Workers, ServeCached(w) \/ ClaimFails(w) \/ Unrecorded(w) PROVE Lost(c)'
  BY <1>0, <1>3 DEF ServeCached, ClaimFails, Unrecorded, Lost, Posts, TypeOK
<1>4. ASSUME NEW w \in Workers, Refuse(w) PROVE Lost(c)'
  BY <1>0, <1>4 DEF Refuse, Lost, Posts, TypeOK
<1>5. ASSUME NEW w \in Workers, Send(w) PROVE Lost(c)'
  BY <1>0, <1>5 DEF Send, Lost, Posts, TypeOK
<1>6. ASSUME NEW w \in Workers, NotSent(w) \/ Answer(w) \/ Lose(w) PROVE Lost(c)'
  <2>1. target[w] # c
    BY <1>6 DEF NotSent, Answer, Lose, CallInv, HeldInFlight, InPost, Lost, Posts
  <2> QED BY <1>0, <1>6, <2>1 DEF NotSent, Answer, Lose, Finish, Lost, Posts, TypeOK
<1>7. ASSUME NEW w \in Workers, NEW d \in Calls, Ask(w, d) PROVE Lost(c)'
  BY <1>0, <1>7 DEF Ask, Lost, Posts, TypeOK
<1>8. CASE Settle
  BY <1>0, <1>8 DEF Settle, Lost, Posts, TypeOK
<1>9. ~Crash /\ ~Restart
  BY DEF Crash, Restart
<1> QED BY <1>1, <1>2, <1>3, <1>4, <1>5, <1>6, <1>7, <1>8, <1>9 DEF Next, Return, End

\* A worker raises ExternalOutcomeUnknown only over a lost call.
LEMMA RaisedStep ==
    ASSUME OpenInv, [Next]_vars, raised' = "unknown" PROVE \E c \in Remote : Lost(c)'
<1>0. CallInv /\ TypeOK
  BY DEF OpenInv, CallInv
<1>1. CASE raised = "unknown"
  <2>1. PICK c \in Remote : Lost(c)
    BY <1>1 DEF OpenInv, RefusedOnlyWhenLost, Lost
  <2>2. alive /\ alive'
    BY <1>1 DEF OpenInv, Next, Return, End, Ask, ServeCached, Refuse, Claim, ClaimFails, Send, NotSent,
                Answer, Lose, Finish, Unrecorded, Settle, Crash, Restart, vars
  <2> QED BY <1>0, <2>1, <2>2, LostStays
<1>2. CASE raised # "unknown"
  <2>1. PICK w \in Workers : Refuse(w) \/ Lose(w) \/ Unrecorded(w)
    BY <1>2 DEF Next, Return, End, Ask, ServeCached, Claim, ClaimFails, Send, NotSent,
                Answer, Settle, Crash, Restart, vars, RaiseIfLocal, Raise
  <2>2. target[w] \in Remote
    BY <1>2, <2>1 DEF Refuse, Lose, Unrecorded, Raise, RaiseIfLocal
  <2>3. CASE Lose(w)
    BY <1>0, <2>2, <2>3, RemoteAssumption DEF Lose, Finish, Row, Lost, TypeOK
  <2>4. CASE Unrecorded(w)
    BY <1>0, <2>2, <2>4, RemoteAssumption
    DEF Unrecorded, Lost, Posts, TypeOK, CallInv, HeldInFlight, OneHolder, InPost
  <2>5. CASE Refuse(w)
    <3> DEFINE c == target[w]
    <3>1. c \in Calls /\ row[c].status \in RowStatus
      BY <1>0, <2>2, RemoteAssumption DEF TypeOK
    <3>2. job # "ended"
      BY <2>2, <2>5 DEF OpenInv, QuietAfterEnd, Refuse, Enters
    <3>3. CASE row[c].status = "none"
      <4>1. row[c] = NoRow
        BY <1>0, <3>1, <3>3 DEF OpenInv, CallInv, UnsentRows, BodyRows, TypeOK, NoRow, Row
      <4>2. PICK d \in Remote : row[d].status = "unknown"
        BY <2>2, <2>5, <4>1 DEF Refuse, Sendable
      <4>3. row' = row
        BY <2>5, <3>3 DEF Refuse, Answered
      <4> QED BY <4>2, <4>3 DEF Lost
    <3>4. CASE row[c].status = "in_flight"
      <4>1. row' = row /\ \A v \in Workers : ~Posts(v, c)
        BY <2>5, <3>4 DEF Refuse, Answered, Enters
      <4>2. \A v \in Workers : ~Posts(v, c)'
        BY <1>0, <2>5, <4>1 DEF Refuse, Posts, TypeOK
      <4> QED BY <2>2, <3>4, <4>1, <4>2, <2>5 DEF Lost, Refuse
    <3>5. CASE row[c].status = "unknown"
      BY <2>2, <2>5, <3>5 DEF Refuse, Answered, Lost
    <3>6. CASE row[c].status = "succeeded"
      BY <1>0, <2>2, <2>5, <3>1, <3>6 DEF Refuse, Answered, Lost, TypeOK
    <3>7. row[c].status # "failed"
      BY <2>2, <2>5, <3>1, <3>2 DEF OpenInv, KeptUntilEnd, Refuse, Answered, Resendable
    <3> QED BY <3>1, <3>3, <3>4, <3>5, <3>6, <3>7 DEF RowStatus
  <2> QED BY <2>1, <2>3, <2>4, <2>5
<1> QED BY <1>1, <1>2

\* The journal starts empty and the job running.
LEMMA OpenInit == Init => OpenInv
BY CallInit
DEF Init, OpenInv, BodyRows, KeptUntilEnd, QuietAfterEnd, RefusedOnlyWhenLost,
    EndedLeavesNothingOpen, HasUnresolvedCalls, Unresolved, Row, NoRow

\* How a row changes: by a claim, an ending, a reply gone, the end of the job,
\* or a restart.
LEMMA RowStep ==
    ASSUME OpenInv, [Next]_vars, NEW c \in Calls
    PROVE  \/ row'[c] = row[c]
           \/ /\ \E w \in Workers : target[w] = c /\ phase[w] # "idle"
              /\ UNCHANGED job
              /\ \/ row'[c].status = "in_flight" /\ ~row'[c].body
                 \/ row'[c] = Row("failed", FALSE, TRUE)
                 \/ row'[c].status \in {"succeeded", "failed"} /\ row'[c].body
                 \/ row'[c].status = "unknown" /\ ~row'[c].body
                 \/ row'[c].status = "failed" /\ ~row'[c].body /\ c \notin Remote
           \/ Settle /\ job' = "ended" /\ row'[c] = [row[c] EXCEPT !.body = FALSE]
           \/ Restart /\ row'[c] = Interrupted(c)
<1>0. TypeOK /\ BodyRows /\ CallInv
  BY DEF OpenInv, CallInv
<1>1. CASE row' = row
  BY <1>1
<1>2. ASSUME NEW w \in Workers, Claim(w), target[w] = c, row'[c] # row[c]
      PROVE  /\ phase[w] # "idle" /\ UNCHANGED job
             /\ row'[c].status = "in_flight" /\ ~row'[c].body
  BY <1>0, <1>2 DEF Claim, Enters, Row, TypeOK
<1>3. ASSUME NEW w \in Workers, Refuse(w), target[w] = c, row'[c] # row[c]
      PROVE  /\ phase[w] # "idle" /\ UNCHANGED job
             /\ row'[c].status = "unknown" /\ ~row'[c].body
  BY <1>0, <1>3 DEF Refuse, Enters, TypeOK
<1>4. ASSUME NEW w \in Workers, NotSent(w), target[w] = c
      PROVE  phase[w] # "idle" /\ UNCHANGED job /\ row'[c] = Row("failed", FALSE, TRUE)
  BY <1>0, <1>4 DEF NotSent, Finish, TypeOK
<1>5. ASSUME NEW w \in Workers, Answer(w), target[w] = c
      PROVE  /\ phase[w] # "idle" /\ UNCHANGED job
             /\ row'[c].status \in {"succeeded", "failed"} /\ row'[c].body
  <2>1. \/ row' = [row EXCEPT ![c] = Row("succeeded", TRUE, FALSE)]
        \/ row' = [row EXCEPT ![c] = Row("failed", TRUE, FALSE)]
    BY <1>5 DEF Answer, Finish
  <2>2. row'[c] \in {Row("succeeded", TRUE, FALSE), Row("failed", TRUE, FALSE)}
    BY <1>0, <2>1 DEF TypeOK
  <2>3. phase[w] # "idle" /\ UNCHANGED job
    BY <1>5 DEF Answer, Finish
  <2> QED BY <2>2, <2>3 DEF Row
<1>6. ASSUME NEW w \in Workers, Lose(w), target[w] = c
      PROVE  /\ phase[w] # "idle" /\ UNCHANGED job
             /\ ~row'[c].body
             /\ row'[c].status = "unknown" \/ (row'[c].status = "failed" /\ c \notin Remote)
  BY <1>0, <1>6 DEF Lose, Finish, Row, TypeOK
<1>7. ASSUME NEW w \in Workers, target[w] # c,
             Claim(w) \/ Refuse(w) \/ NotSent(w) \/ Answer(w) \/ Lose(w)
      PROVE  row'[c] = row[c]
  BY <1>0, <1>7 DEF Claim, Refuse, NotSent, Answer, Lose, Finish, TypeOK
<1>8. CASE Settle
  BY <1>8 DEF Settle
<1>9. CASE Restart
  BY <1>9 DEF Restart
<1> QED
  BY <1>1, <1>2, <1>3, <1>4, <1>5, <1>6, <1>7, <1>8, <1>9
  DEF Next, vars, Return, End, Ask, ServeCached, ClaimFails, Send, Unrecorded, Crash

\* Every step keeps the invariant.
LEMMA OpenStep == OpenInv /\ [Next]_vars => OpenInv'
<1> SUFFICES ASSUME OpenInv, [Next]_vars PROVE OpenInv'
  OBVIOUS
<1>0. TypeOK /\ CallInv /\ BodyRows /\ KeptUntilEnd /\ QuietAfterEnd
  BY DEF OpenInv, CallInv
<1>1. CallInv'
  BY <1>0, CallStep
<1>2. BodyRows'
  <2> SUFFICES ASSUME NEW c \in Calls, row'[c].body PROVE row'[c].status \in {"succeeded", "failed"}
    BY DEF BodyRows
  <2>1. CASE row'[c] = row[c]
    BY <1>0, <2>1 DEF BodyRows
  <2>2. CASE Restart /\ row'[c] = Interrupted(c)
    BY <1>0, <2>2 DEF BodyRows, Interrupted, TypeOK
  <2>3. row'[c] # [row[c] EXCEPT !.body = FALSE]
    BY <1>0 DEF TypeOK
  <2> QED BY <2>1, <2>2, <2>3, RowStep DEF Row
<1>3. job' = "ended" \/ (job # "ended" /\ ~(Settle /\ job' = "ended"))
  BY DEF Next, vars, Return, End, Ask, ServeCached, Refuse, Claim, ClaimFails, Send, NotSent,
         Answer, Lose, Finish, Unrecorded, Settle, Crash, Restart
<1>4. KeptUntilEnd'
  <2> SUFFICES ASSUME job' # "ended", NEW c \in Calls
               PROVE  /\ row'[c].status = "succeeded" => row'[c].body
                      /\ c \in Remote /\ row'[c].status = "failed" => row'[c].body \/ row'[c].unsent
    BY DEF KeptUntilEnd
  <2>1. CASE row'[c] = row[c]
    BY <1>0, <1>3, <2>1 DEF KeptUntilEnd
  <2>2. CASE Restart /\ row'[c] = Interrupted(c)
    BY <1>0, <1>3, <2>2 DEF KeptUntilEnd, Interrupted, TypeOK
  <2>3. Row("failed", FALSE, TRUE).unsent /\ Row("failed", FALSE, TRUE).status = "failed"
    BY DEF Row
  <2> QED BY <2>1, <2>2, <2>3, RowStep
<1>5. RefusedOnlyWhenLost'
  BY RaisedStep DEF RefusedOnlyWhenLost, Lost
<1>6. ~alive' => raised' = "none"
  <2>1. CASE Crash
    BY <2>1 DEF Crash
  <2>2. CASE UNCHANGED vars
    BY <2>2 DEF vars, OpenInv
  <2>3. ASSUME NEW w \in Workers, Return(w) \/ ClaimFails(w) \/ End(w) PROVE alive'
    <3>1. alive /\ alive' = alive
      BY <2>3 DEF Return, End, ServeCached, Refuse, Claim, ClaimFails, Send, NotSent,
                  Answer, Lose, Finish, Unrecorded, Enters
    <3> QED BY <3>1
  <2>4. ASSUME NEW w \in Workers, NEW c \in Calls, Ask(w, c) PROVE alive'
    BY <2>4 DEF Ask
  <2>5. CASE Settle
    BY <2>5 DEF Settle
  <2>6. CASE Restart
    BY <2>6 DEF Restart
  <2> QED BY <2>1, <2>2, <2>3, <2>4, <2>5, <2>6 DEF Next
<1>7. raised = "unknown" => HasUnresolvedCalls
  BY RemoteAssumption DEF OpenInv, RefusedOnlyWhenLost, HasUnresolvedCalls, Unresolved
<1>8. /\ job # "ended" /\ job' = "ended" => ~HasUnresolvedCalls /\ (Settle \/ Restart)
      /\ job = "ended" => ~HasUnresolvedCalls
  BY DEF OpenInv, EndedLeavesNothingOpen, Next, vars, Return, End, Ask, ServeCached, Refuse, Claim,
         ClaimFails, Send, NotSent, Answer, Lose, Finish, Unrecorded, Settle, Crash, Restart
<1>9. ASSUME job' = "ended", NEW w \in Workers, phase'[w] # "idle" PROVE target'[w] \notin Remote
  <2>1. CASE Settle
    BY <1>7, <1>8, <1>9, <2>1 DEF Settle
  <2>2. CASE Restart
    BY <1>0, <1>9, <2>2 DEF Restart, CallInv, DeadIsIdle
  <2>3. CASE ~Settle /\ ~Restart
    <3>1. job = "ended"
      BY <1>8, <1>9, <2>3
    <3>2. ASSUME NEW v \in Workers, NEW c \in Calls, Ask(v, c) PROVE target'[w] \notin Remote
      <4>1. c \notin Remote
        BY <1>7, <1>8, <3>1, <3>2 DEF Ask
      <4> QED BY <1>0, <1>9, <3>1, <3>2, <4>1 DEF Ask, QuietAfterEnd, TypeOK
    <3>3. CASE phase'[w] = phase[w] /\ target' = target
      BY <1>0, <1>9, <3>1, <3>3 DEF QuietAfterEnd
    <3>4. ASSUME NEW v \in Workers, Claim(v) \/ Send(v) PROVE target'[w] \notin Remote
      BY <1>0, <1>9, <3>1, <3>4 DEF Claim, Send, Enters, QuietAfterEnd, TypeOK
    <3>5. ASSUME NEW v \in Workers, phase' = [phase EXCEPT ![v] = "idle"], target' = target
          PROVE  target'[w] \notin Remote
      BY <1>0, <1>9, <3>1, <3>5 DEF QuietAfterEnd, TypeOK
    <3>6. CASE Crash
      BY <1>9, <3>6 DEF Crash
    <3> QED
      BY <2>3, <3>2, <3>3, <3>4, <3>5, <3>6
      DEF Next, vars, Return, End, ServeCached, Refuse, ClaimFails, NotSent, Answer, Lose, Finish,
          Unrecorded
  <2> QED BY <2>1, <2>2, <2>3
<1>10. QuietAfterEnd'
  BY <1>9 DEF QuietAfterEnd
<1>11. EndedLeavesNothingOpen'
  <2> SUFFICES ASSUME job' = "ended", NEW c \in Remote
               PROVE  row'[c].status \notin {"in_flight", "unknown"}
    BY DEF EndedLeavesNothingOpen, HasUnresolvedCalls, Unresolved
  <2>1. c \in Calls /\ row[c].status \notin {"in_flight", "unknown"}
    BY <1>8, RemoteAssumption DEF HasUnresolvedCalls, Unresolved
  <2>2. CASE row'[c] = row[c]
    BY <2>1, <2>2
  <2>3. CASE row'[c] = [row[c] EXCEPT !.body = FALSE] \/ row'[c] = Interrupted(c)
    BY <1>0, <2>1, <2>3 DEF Interrupted, TypeOK
  <2>4. ASSUME NEW w \in Workers, target[w] = c, phase[w] # "idle", UNCHANGED job PROVE FALSE
    BY <1>0, <2>4 DEF QuietAfterEnd
  <2> QED BY <2>1, <2>2, <2>3, <2>4, RowStep
<1> QED BY <1>1, <1>2, <1>4, <1>5, <1>6, <1>10, <1>11 DEF OpenInv

\* A worker is refused, and its job given up, only when the outcome of a remote
\* call is open (_claim, _locks).
THEOREM RefusedOnlyWhenLostAlways == Spec => []RefusedOnlyWhenLost
<1>1. OpenInv => RefusedOnlyWhenLost
  BY DEF OpenInv
<1> QED BY <1>1, OpenInit, OpenStep, PTL DEF Spec

\* A job that ended otherwise than unknown has no remote call open, not even
\* one that a coroutine it left behind begins later (has_unresolved_calls).
THEOREM EndedLeavesNothingOpenAlways == Spec => []EndedLeavesNothingOpen
<1>1. OpenInv => EndedLeavesNothingOpen
  BY DEF OpenInv
<1> QED BY <1>1, OpenInit, OpenStep, PTL DEF Spec

\* As long as a job can be resumed, the replies it was given are on record.
THEOREM RepliesAreKeptAlways == Spec => []RepliesAreKept
<1>1. OpenInv => RepliesAreKept
  BY DEF OpenInv, KeptUntilEnd, RepliesAreKept
<1> QED BY <1>1, OpenInit, OpenStep, PTL DEF Spec

\* The journal tells the truth, for any number of siblings and crashes (_claim, _finish).
THEOREM JournalIsTrueAlways == Spec => []JournalIsTrue
BY TypeCorrect, SentIsRecordedAlways, RefusedOnlyWhenLostAlways, RepliesAreKeptAlways, PTL
   DEF JournalIsTrue
=============================================================================
