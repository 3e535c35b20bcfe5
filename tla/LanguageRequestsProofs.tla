--------------------- MODULE LanguageRequestsProofs ---------------------
(***************************************************************************)
(* Proofs about LanguageRequests, for any requests, handlers, proposals    *)
(* and modes: a plan is carried out step by step on what its user saw      *)
(* (PlansAreCarriedOut), a generation was asked for (GenerationsAreWanted) *)
(* and an answer is final (AnswersAreFinal).                               *)
(*                                                                         *)
(* The invariant adds what a handler may still believe of a request while  *)
(* others work on it: what it is about to store agrees with the receipts,  *)
(* what it is about to execute follows the receipts and was agreed to.     *)
(*                                                                         *)
(* The second half is about ProjectPage, the page such requests come from. *)
(***************************************************************************)
EXTENDS LanguagePage, TLAPS

\* What a handler holds, by where it is.
Thinking == [at : {"thinking"}, req : Requests]
Answering == [at : {"answering"}, req : Requests, kind : Kinds, review : BOOLEAN,
              negated : BOOLEAN, status : Settled \union {"ready", "blocked"}]
Submitting == [at : {"submitted", "following"}, req : Requests]
Executing == [at : {"executing"}, req : Requests, step : Nat, submitted : BOOLEAN, until : Nat,
              base : Nat]
Storing == [at : {"acknowledging"}, req : Requests, status : {"blocked", "completed"},
            submitted : BOOLEAN]
Reporting == [at : {"reporting"}, req : Requests, status : {"ready", "blocked", "completed"}]
HandlerState == {IdleHandler} \union Thinking \union Answering \union Submitting
                  \union Executing \union Storing \union Reporting

HandlersOK == handler \in [Handlers -> HandlerState]

\* A handler works on a request that was claimed.
HasClaim(h) == handler[h].at # "idle" => record[handler[h].req].status # "none"

\* Nothing that starts a generation.
Declined(kind) == \A i \in 1 .. Len(StepsOf[kind]) : StepsOf[kind][i] # "generate"

\* An answer that waits to be stored has a proposal if it is ready, none if it is
\* settled, and none of what the text declined.
AnswerFits(h) ==
  handler[h].at = "answering" =>
    /\ handler[h].status \in Settled => handler[h].kind = "none"
    /\ handler[h].status = "ready" => handler[h].kind # "none"
    /\ handler[h].negated => Declined(handler[h].kind)

\* The first of two steps that are offered one by one is done.
Halfway(r) == record[r].kind = "follow" /\ Len(receipt[r]) = 1

\* What a handler is about to store as completed is done, or it is the save of a
\* "follow", which is then shown for what it is.
StoresTruth(h) ==
  handler[h].at \in {"acknowledging", "reporting"} =>
    /\ record[handler[h].req].kind # "none"
    /\ handler[h].status = "completed" => Done(handler[h].req) \/ Halfway(handler[h].req)

\* The token that a generation of the request needs.
Needed(r) == <<r, IF record[r].kind = "follow" THEN "generation" ELSE "proposal">>

\* The revision that step i of the request is bound to.
Basis(r, i) == IF i = 1 THEN record[r].base ELSE receipt[r][i - 1]

\* A handler that executes is at a step the receipts have reached, bound to the
\* revision the step before left, and was allowed the generations on its way.
ExecutesNext(h) ==
  handler[h].at = "executing" =>
    LET r == handler[h].req
        i == handler[h].step
    IN /\ record[r].kind # "none"
       /\ i \in 1 .. handler[h].until
       /\ i <= Len(receipt[r]) + 1
       /\ handler[h].until = Len(Steps(r)) \/ (record[r].kind = "follow" /\ handler[h].until = 1)
       /\ handler[h].base = Basis(r, i)
       /\ \A j \in i .. handler[h].until : Steps(r)[j] = "generate" => Needed(r) \in agreed

HandlerFits(h) == HasClaim(h) /\ AnswerFits(h) /\ StoresTruth(h) /\ ExecutesNext(h)

\* A proposal is stored with a status of its own and with nothing the text declined;
\* what is stored as completed is done.
RecordFits(r) ==
  /\ record[r].status \in Settled \union {"none", "interpreting"} => record[r].kind = "none"
  /\ record[r].status \in {"ready", "completed"} => record[r].kind # "none"
  /\ record[r].negated => Declined(record[r].kind)
  /\ record[r].status = "completed" => Done(r)

Inv ==
  /\ TypeOK
  /\ HandlersOK
  /\ \A r \in Requests : RecordFits(r)
  /\ \A h \in Handlers : HandlerFits(h)
  /\ StepsAreContiguous
  /\ GenerationsAreWanted

\* A record as the tables hold it.
RecordType == [status : Status, kind : Kinds, base : 0 .. MaxRevision,
               review : BOOLEAN, negated : BOOLEAN, turn : BOOLEAN,
               relation : Relations \union {"none"}, successor : Requests \union {NoRequest}]

-----------------------------------------------------------------------------
(* The data: steps, handlers, records.                                     *)

\* What the proposals do, step by step.
LEMMA StepsOfKinds ==
  ASSUME NEW k \in Kinds
  PROVE  /\ Len(StepsOf[k]) \in 0 .. 2
         /\ (Len(StepsOf[k]) = 0) <=> (k = "none")
         /\ (StepsOf[k] = <<>>) <=> (k = "none")
         /\ k = "follow" => Len(StepsOf[k]) = 2 /\ StepsOf[k][1] = "save"
         /\ k \notin Plans \union {"none", "follow"} => Len(StepsOf[k]) = 1
<1>1. Kinds = {"none", "settings", "generate", "follow", "plan", "film", "rest"}
  BY DEF Kinds, StepsOf
<1>2. CASE k = "none"
  BY <1>2 DEF StepsOf, Plans
<1>3. CASE k \in {"settings", "generate", "rest"}
  BY <1>3 DEF StepsOf, Plans
<1>4. CASE k \in {"follow", "plan", "film"}
  BY <1>4 DEF StepsOf, Plans
<1> QED BY <1>1, <1>2, <1>3, <1>4

\* The guards give a ready answer a proposal and a settled one none, and they leave
\* out the generation that the text declined.
LEMMA GuardedFits ==
  ASSUME NEW reading \in Readings, NEW yolo \in BOOLEAN
  PROVE  LET outcome == Guarded(reading, yolo)
         IN /\ outcome[1] \in Settled \union {"ready"}
            /\ outcome[2] \in Kinds
            /\ outcome[1] = "ready" <=> outcome[2] # "none"
            /\ reading.negated => Declined(outcome[2])
<1>1. /\ reading.kind \in Kinds /\ reading.kind # "none"
      /\ "none" \in Kinds /\ "settings" \in Kinds /\ "rest" \in Kinds
  BY OfferedAssumption DEF Readings, Kinds, StepsOf
<1>2. Declined("none") /\ Declined("settings") /\ Declined("plan") /\ Declined("rest")
  BY DEF Declined, StepsOf
<1>3. reading.kind \in {"settings", "generate", "follow", "plan", "film", "rest"}
  BY <1>1 DEF Kinds, StepsOf
<1>4. reading.negated \in BOOLEAN
  BY DEF Readings
<1> QED BY <1>1, <1>2, <1>3, <1>4 DEF Guarded, Settled

\* What a handler holds where it is.
LEMMA HandlerFields ==
  ASSUME NEW s \in HandlerState
  PROVE  /\ s.at \in {"idle", "thinking", "answering", "submitted", "following",
                     "executing", "acknowledging", "reporting"}
         /\ s.at = "idle" => s = IdleHandler
         /\ s.at # "idle" => s.req \in Requests
         /\ s.at = "thinking" => s \in Thinking
         /\ s.at = "answering" => s \in Answering
         /\ s.at \in {"submitted", "following"} => s \in Submitting
         /\ s.at = "executing" => s \in Executing
         /\ s.at = "acknowledging" => s \in Storing
         /\ s.at = "reporting" => s \in Reporting
<1>1. CASE s = IdleHandler
  BY <1>1 DEF IdleHandler
<1>2. CASE s \in Thinking
  BY <1>2 DEF Thinking
<1>3. CASE s \in Answering
  BY <1>3 DEF Answering
<1>4. CASE s \in Submitting
  BY <1>4 DEF Submitting
<1>5. CASE s \in Executing
  BY <1>5 DEF Executing
<1>6. CASE s \in Storing
  BY <1>6 DEF Storing
<1>7. CASE s \in Reporting
  BY <1>7 DEF Reporting
<1> QED BY <1>1, <1>2, <1>3, <1>4, <1>5, <1>6, <1>7 DEF HandlerState

\* The fields of a record.
LEMMA RecordFields ==
  ASSUME TypeOK, NEW r \in Requests
  PROVE  /\ record[r] \in RecordType
         /\ record[r].status \in Status
         /\ record[r].kind \in Kinds
         /\ record[r].base \in 0 .. MaxRevision
         /\ record[r].negated \in BOOLEAN
         /\ receipt[r] \in Seq(1 .. MaxRevision)
         /\ Len(receipt[r]) \in 0 .. Len(Steps(r))
<1>1. record[r] \in RecordType
  BY DEF TypeOK, RecordType
<1>2. receipt[r] \in Seq(1 .. MaxRevision) /\ Len(receipt[r]) <= Len(Steps(r))
  BY DEF TypeOK
<1>3. Len(receipt[r]) \in Nat /\ Len(Steps(r)) \in Nat
  BY <1>1, <1>2, StepsOfKinds DEF Steps, RecordType
<1> QED BY <1>1, <1>2, <1>3 DEF RecordType

\* What a view is made of: receipts win over what is stored.
LEMMA ShownFits ==
  ASSUME TypeOK, NEW r \in Requests, NEW status \in Status
  PROVE  /\ Shown(r, status) \in Status
         /\ Done(r) => Shown(r, status) = "completed"
         /\ Done(r) => record[r].kind # "none" /\ ~Halfway(r)
         /\ ~Done(r) /\ Halfway(r) => Shown(r, status) \in {"ready", "blocked"}
         /\ ~Done(r) /\ ~Halfway(r) => Shown(r, status) = status
<1>1. record[r].kind \in Kinds
  BY RecordFields
<1> QED BY SMTT(30), <1>1, StepsOfKinds DEF Shown, Done, Halfway, Steps, Status, Settled

-----------------------------------------------------------------------------
(* What a step of one handler leaves to the others.                        *)

\* A claimed request stays claimed, and a stored proposal stays what it is.
Kept(r) ==
  /\ record[r].status # "none" => record'[r].status # "none"
  /\ record[r].kind # "none" => /\ record'[r].kind = record[r].kind
                                /\ record'[r].base = record[r].base
                                /\ record'[r].negated = record[r].negated

\* A request without a proposal has no receipts.
LEMMA NoProposalNoReceipt ==
  ASSUME TypeOK, NEW r \in Requests, record[r].kind = "none"
  PROVE  Len(receipt[r]) = 0 /\ ~Done(r)
<1>1. Len(receipt[r]) \in 0 .. Len(Steps(r)) /\ record[r].kind \in Kinds
  BY RecordFields
<1> QED BY <1>1, StepsOfKinds DEF Steps, Done

\* A handler that keeps its place still fits while the records are kept.
LEMMA HandlerKeepsFitting ==
  ASSUME Inv, UNCHANGED receipt, agreed \subseteq agreed', \A r \in Requests : Kept(r),
         NEW h \in Handlers, handler'[h] = handler[h]
  PROVE  HandlerFits(h)'
<1> DEFINE r == handler[h].req
<1>1. HandlerFits(h)
  BY DEF Inv
<1>2. handler[h].at # "idle" => r \in Requests
  BY HandlerFields DEF Inv, HandlersOK
<1>3. HasClaim(h)'
  BY <1>1, <1>2 DEF HandlerFits, HasClaim, Kept
<1>4. AnswerFits(h)'
  BY <1>1 DEF HandlerFits, AnswerFits, Declined
<1>5. handler[h].at \in {"acknowledging", "reporting", "executing"} =>
        /\ r \in Requests
        /\ record[r].kind # "none"
        /\ record'[r].kind = record[r].kind /\ record'[r].base = record[r].base
  BY <1>1, <1>2 DEF HandlerFits, StoresTruth, ExecutesNext, Kept
<1>6. StoresTruth(h)'
  BY <1>1, <1>5 DEF HandlerFits, StoresTruth, Done, Halfway, Steps
<1>7. ExecutesNext(h)'
  BY <1>1, <1>5 DEF HandlerFits, ExecutesNext, Basis, Needed, Steps
<1> QED BY <1>3, <1>4, <1>6, <1>7 DEF HandlerFits

\* A step that adds no receipt keeps the invariant when what it stores fits and what
\* the handler it moves holds fits.
LEMMA KeptKeeps ==
  ASSUME Inv, TypeOK', HandlersOK', UNCHANGED receipt, agreed \subseteq agreed',
         \A r \in Requests : Kept(r) /\ RecordFits(r)',
         \A h \in Handlers : handler'[h] = handler[h] \/ HandlerFits(h)'
  PROVE  Inv'
<1>1. \A h \in Handlers : HandlerFits(h)'
  BY HandlerKeepsFitting
<1>2. ASSUME NEW r \in Requests, NEW i \in 1 .. Len(receipt[r])
      PROVE  record'[r].kind = record[r].kind /\ record'[r].base = record[r].base
               /\ record'[r].negated = record[r].negated
  BY <1>2, NoProposalNoReceipt DEF Inv, Kept
<1>3. StepsAreContiguous'
  BY <1>2 DEF Inv, StepsAreContiguous, Steps
<1>4. GenerationsAreWanted'
  BY <1>2 DEF Inv, GenerationsAreWanted, Steps
<1> QED BY <1>1, <1>3, <1>4 DEF Inv

\* What a transaction does to the records when it only lets a lease expire.
LEMMA ExpireKeeps ==
  ASSUME Inv, NEW r \in Requests, Expire(r), UNCHANGED receipt
  PROVE  /\ record' \in [Requests -> RecordType]
         /\ \A q \in Requests : /\ Kept(q) /\ RecordFits(q)'
                                /\ record'[q].kind = record[q].kind
                                /\ record'[q].status # "none" <=> record[q].status # "none"
<1>1. record \in [Requests -> RecordType]
  BY DEF Inv, TypeOK, RecordType
<1>2. Current(r) \in Status
  BY <1>1 DEF Current, RecordType, Status, Settled
<1>3. record' \in [Requests -> RecordType]
  BY <1>1, <1>2 DEF Expire, RecordType
<1>4. ASSUME NEW q \in Requests
      PROVE  /\ record'[q].kind = record[q].kind /\ record'[q].base = record[q].base
             /\ record'[q].negated = record[q].negated
             /\ \/ record'[q].status = record[q].status
                \/ record[q].status = "interpreting" /\ record'[q].status = "closed"
  BY <1>1 DEF Expire, Current, RecordType
<1>5. \A q \in Requests : Kept(q)
  BY <1>4 DEF Kept
<1>6. \A q \in Requests : RecordFits(q)'
  BY <1>4 DEF Inv, RecordFits, Done, Steps, Settled
<1> QED BY <1>3, <1>4, <1>5, <1>6

\* Records that stay as they are.
LEMMA UnchangedKeeps ==
  ASSUME Inv, UNCHANGED <<record, receipt>>
  PROVE  /\ record' \in [Requests -> RecordType]
         /\ \A q \in Requests : Kept(q) /\ RecordFits(q)'
  BY DEF Inv, TypeOK, RecordType, Kept, RecordFits, Done, Steps

\* The type invariant of a step that adds no receipt.
LEMMA KeptTypes ==
  ASSUME Inv, record' \in [Requests -> RecordType], UNCHANGED receipt,
         \A r \in Requests : Kept(r),
         lapsed' \in SUBSET Requests, revision' \in 1 .. MaxRevision, active' \in BOOLEAN,
         agreed' \in SUBSET (Requests \X Tokens), HandlersOK'
  PROVE  TypeOK'
<1>1. \A r \in Requests : Len(receipt'[r]) <= Len(Steps(r))'
  <2>1. SUFFICES ASSUME NEW r \in Requests
                 PROVE  Len(receipt[r]) <= Len(StepsOf[record'[r].kind])
    BY DEF Steps
  <2>2. CASE record[r].kind = "none"
    <3>1. record'[r].kind \in Kinds
      BY DEF RecordType
    <3> QED BY <2>2, <3>1, NoProposalNoReceipt, StepsOfKinds DEF Inv
  <2>3. CASE record[r].kind # "none"
    BY <2>3 DEF Kept, Inv, TypeOK, Steps
  <2> QED BY <2>2, <2>3
<1>2. \A h \in Handlers : (handler[h].at # "idle" => handler[h].req \in Requests)'
  BY HandlerFields DEF HandlersOK
<1> QED BY <1>1, <1>2 DEF Inv, TypeOK, RecordType

-----------------------------------------------------------------------------
(* One lemma per action: it keeps the invariant.                           *)

\* A lease runs out, or a look at the request notices it.
LEMMA LapseKeeps ==
  ASSUME Inv, NEW r \in Requests, Lapse(r) \/ Lookup(r)
  PROVE  Inv'
<1>1. /\ UNCHANGED <<receipt, revision, active, handler, agreed>>
      /\ lapsed' \in SUBSET Requests
      /\ Expire(r) \/ UNCHANGED record
  BY DEF Lapse, Lookup, Inv, TypeOK, projectVars
<1>2. /\ record' \in [Requests -> RecordType]
      /\ \A q \in Requests : Kept(q) /\ RecordFits(q)'
  BY <1>1, ExpireKeeps, UnchangedKeeps
<1>3. HandlersOK'
  BY <1>1 DEF Inv, HandlersOK
<1>4. TypeOK'
  BY <1>1, <1>2, <1>3, KeptTypes DEF Inv, TypeOK
<1> QED BY <1>1, <1>2, <1>3, <1>4, KeptKeeps

\* The project changes behind the requests.
LEMMA ProjectChangeKeeps ==
  ASSUME Inv, OtherEdit \/ JobEnds
  PROVE  Inv'
<1>1. /\ UNCHANGED <<record, lapsed, receipt, handler, agreed>>
      /\ revision' \in 1 .. MaxRevision /\ active' \in BOOLEAN
  <2>1. CASE OtherEdit
    <3>1. revision \in 1 .. MaxRevision /\ revision < MaxRevision /\ revision' = revision + 1
      BY <2>1 DEF OtherEdit, Inv, TypeOK
    <3>2. UNCHANGED <<record, lapsed, receipt, active, handler, agreed>> /\ active \in BOOLEAN
      BY <2>1 DEF OtherEdit, Inv, TypeOK
    <3> QED BY <3>1, <3>2, RevisionAssumption
  <2>2. CASE JobEnds
    BY <2>2 DEF JobEnds, Inv, TypeOK
  <2> QED BY <2>1, <2>2
<1>2. /\ record' \in [Requests -> RecordType]
      /\ \A q \in Requests : Kept(q) /\ RecordFits(q)'
  BY <1>1, UnchangedKeeps
<1>3. HandlersOK'
  BY <1>1 DEF Inv, HandlersOK
<1>4. TypeOK'
  BY <1>1, <1>2, <1>3, KeptTypes DEF Inv, TypeOK
<1> QED BY <1>1, <1>2, <1>3, <1>4, KeptKeeps

\* A handler that does nothing fits.
LEMMA IdleFits ==
  ASSUME NEW h \in Handlers, handler'[h] = IdleHandler
  PROVE  HandlerFits(h)'
  BY DEF IdleHandler, HandlerFits, HasClaim, AnswerFits, StoresTruth, ExecutesNext

\* The process stops.
LEMMA StopKeeps ==
  ASSUME Inv, Stop
  PROVE  Inv'
<1>1. /\ UNCHANGED <<record, lapsed, receipt, revision, active, agreed>>
      /\ handler' = [h \in Handlers |-> IdleHandler]
  BY DEF Stop, projectVars
<1>2. /\ record' \in [Requests -> RecordType]
      /\ \A q \in Requests : Kept(q) /\ RecordFits(q)'
  BY <1>1, UnchangedKeeps
<1>3. HandlersOK'
  BY <1>1 DEF HandlersOK, HandlerState
<1>4. TypeOK'
  BY <1>1, <1>2, <1>3, KeptTypes DEF Inv, TypeOK
<1>5. \A h \in Handlers : HandlerFits(h)'
  BY <1>1, IdleFits
<1> QED BY <1>1, <1>2, <1>3, <1>4, <1>5, KeptKeeps

\* A handler moves to s while nothing but expired leases and accepted tokens changes.
LEMMA MoveKeeps ==
  ASSUME Inv, NEW h \in Handlers, NEW s \in HandlerState,
         handler' = [handler EXCEPT ![h] = s],
         UNCHANGED <<lapsed, receipt, revision, active>>,
         UNCHANGED record \/ \E r \in Requests : Expire(r),
         agreed' \in SUBSET (Requests \X Tokens), agreed \subseteq agreed',
         HandlerFits(h)'
  PROVE  Inv'
<1>1. /\ record' \in [Requests -> RecordType]
      /\ \A q \in Requests : Kept(q) /\ RecordFits(q)'
  BY ExpireKeeps, UnchangedKeeps
<1>2. HandlersOK'
  BY DEF Inv, HandlersOK
<1>3. TypeOK'
  BY <1>1, <1>2, KeptTypes DEF Inv, TypeOK
<1>4. \A g \in Handlers : handler'[g] = handler[g] \/ HandlerFits(g)'
  BY DEF Inv, HandlersOK
<1> QED BY <1>1, <1>2, <1>3, <1>4, KeptKeeps

\* A record as a claim makes it.
Fresh(status, base, turn, relation) ==
  [NoRecord EXCEPT !.status = status, !.base = base, !.turn = turn, !.relation = relation]

\* It has no proposal.
LEMMA FreshHasNoProposal ==
  ASSUME NEW status \in {"interpreting", "needs_input", "blocked"}, NEW base \in 0 .. MaxRevision,
         NEW turn \in BOOLEAN, NEW relation \in Relations \union {"none"}
  PROVE  /\ Fresh(status, base, turn, relation) \in RecordType
         /\ Fresh(status, base, turn, relation).status = status
         /\ Fresh(status, base, turn, relation).kind = "none"
         /\ ~Fresh(status, base, turn, relation).negated
<1>1. "none" \in Kinds
  BY DEF Kinds, StepsOf
<1>2. status \in Status
  BY DEF Status, Settled
<1> QED BY <1>1, <1>2 DEF Fresh, NoRecord, RecordType

\* A new request is claimed: it has no proposal, and no handler knew it.
LEMMA ClaimKeeps ==
  ASSUME Inv, NEW h \in Handlers, NEW r \in Requests, NEW parent \in Requests \union {NoRequest},
         NEW relation \in Relations \union {"none"}, NEW targeted \in BOOLEAN,
         Claim(h, r, parent, relation, targeted)
  PROVE  Inv'
<1> DEFINE new(accepted) ==
             [NoRecord EXCEPT
                !.status = IF accepted THEN "interpreting"
                           ELSE IF ~targeted /\ (parent = NoRequest \/ ~Superseded(parent))
                           THEN "needs_input" ELSE "blocked",
                !.base = IF accepted THEN revision ELSE 0,
                !.turn = accepted \/ (~targeted /\ parent = NoRequest),
                !.relation = IF accepted THEN relation ELSE "none"]
<1>1. PICK accepted \in BOOLEAN :
        /\ record' = [q \in Requests |->
                        CASE q = r -> new(accepted)
                          [] q = parent /\ accepted -> [record[q] EXCEPT !.successor = r]
                          [] OTHER -> record[q]]
        /\ handler' = [handler EXCEPT ![h] =
                         IF accepted THEN [at |-> "thinking", req |-> r] ELSE IdleHandler]
  BY DEF Claim
<1>2. /\ parent # r /\ record[r].status = "none"
      /\ UNCHANGED <<lapsed, receipt, revision, active, agreed>>
  BY DEF Claim, projectVars
<1>3. /\ new(accepted) \in RecordType
      /\ new(accepted).status \in {"interpreting", "needs_input", "blocked"}
      /\ new(accepted).kind = "none" /\ ~new(accepted).negated
  <2>1. "none" \in Kinds
    BY DEF Kinds, StepsOf
  <2>2. revision \in 0 .. MaxRevision /\ 0 \in 0 .. MaxRevision
    BY RevisionAssumption DEF Inv, TypeOK
  <2> DEFINE answer == IF accepted THEN "interpreting"
                       ELSE IF ~targeted /\ (parent = NoRequest \/ ~Superseded(parent))
                       THEN "needs_input" ELSE "blocked"
             revised == IF accepted THEN revision ELSE 0
             dialogue == accepted \/ (~targeted /\ parent = NoRequest)
             relate == IF accepted THEN relation ELSE "none"
  <2>3. answer \in {"interpreting", "needs_input", "blocked"}
    OBVIOUS
  <2>4. revised \in 0 .. MaxRevision
    BY <2>2
  <2>5. dialogue \in BOOLEAN
    OBVIOUS
  <2>6. relate \in Relations \union {"none"}
    OBVIOUS
  <2>7. new(accepted) = Fresh(answer, revised, dialogue, relate)
    BY DEF Fresh
  <2> HIDE DEF new, answer, revised, dialogue, relate
  <2>8. /\ Fresh(answer, revised, dialogue, relate) \in RecordType
        /\ Fresh(answer, revised, dialogue, relate).status = answer
        /\ Fresh(answer, revised, dialogue, relate).kind = "none"
        /\ ~Fresh(answer, revised, dialogue, relate).negated
    BY <2>3, <2>4, <2>5, <2>6, FreshHasNoProposal
  <2> QED BY <2>3, <2>7, <2>8
<1> HIDE DEF new
<1>4. record \in [Requests -> RecordType]
  BY DEF Inv, TypeOK, RecordType
<1>5. record' \in [Requests -> RecordType]
  BY <1>1, <1>3, <1>4 DEF RecordType
<1>6. ASSUME NEW q \in Requests
      PROVE  Kept(q) /\ RecordFits(q)'
  <2>1. CASE q = r
    <3>1. record[q].kind = "none" /\ record'[q] = new(accepted)
      BY <1>1, <1>2, <2>1 DEF Inv, RecordFits
    <3> QED BY <1>2, <1>3, <2>1, <3>1 DEF Kept, RecordFits
  <2>2. CASE q # r
    <3>1. /\ record'[q].kind = record[q].kind /\ record'[q].base = record[q].base
          /\ record'[q].negated = record[q].negated /\ record'[q].status = record[q].status
      BY <1>1, <1>4, <2>2 DEF RecordType
    <3> QED BY <1>2, <3>1 DEF Kept, RecordFits, Inv, Done, Steps
  <2> QED BY <2>1, <2>2
<1>7. HandlersOK'
  BY <1>1 DEF Inv, HandlersOK, HandlerState, Thinking
<1>8. TypeOK'
  BY <1>2, <1>5, <1>6, <1>7, KeptTypes DEF Inv, TypeOK
<1>9. ASSUME NEW g \in Handlers
      PROVE  handler'[g] = handler[g] \/ HandlerFits(g)'
  <2>1. CASE g # h
    BY <1>1, <2>1 DEF Inv, HandlersOK
  <2>2. CASE g = h /\ ~accepted
    BY <1>1, <2>2, IdleFits DEF Inv, HandlersOK
  <2>3. CASE g = h /\ accepted
    <3>1. handler'[g] = [at |-> "thinking", req |-> r]
      BY <1>1, <2>3 DEF Inv, HandlersOK
    <3>2. record'[r] = new(accepted)
      BY <1>1, <1>2
    <3> QED BY <1>3, <3>1, <3>2 DEF HandlerFits, HasClaim, AnswerFits, StoresTruth, ExecutesNext
  <2> QED BY <2>1, <2>2, <2>3
<1> QED BY <1>2, <1>6, <1>7, <1>8, <1>9, KeptKeeps

\* The model answers, or does not: the answer waits to be stored.
LEMMA InterpretKeeps ==
  ASSUME Inv, NEW h \in Handlers, Interpret(h) \/ NoProposal(h)
  PROVE  Inv'
<1> DEFINE r == handler[h].req
<1>1. handler[h].at = "thinking" /\ UNCHANGED <<record, lapsed, receipt, revision, active, agreed>>
  BY DEF Interpret, NoProposal, projectVars
<1>2. r \in Requests /\ record[r].status # "none"
  BY <1>1, HandlerFields DEF Inv, HandlersOK, HandlerFits, HasClaim
<1>3. PICK kind \in Kinds, review \in BOOLEAN, negated \in BOOLEAN,
           status \in Settled \union {"ready", "blocked"} :
        /\ handler' = [handler EXCEPT ![h] =
                         [at |-> "answering", req |-> r, kind |-> kind, review |-> review,
                          negated |-> negated, status |-> status]]
        /\ status \in Settled => kind = "none"
        /\ status = "ready" => kind # "none"
        /\ negated => Declined(kind)
  <2>1. CASE NoProposal(h)
    <3>1. "none" \in Kinds
      BY DEF Kinds, StepsOf
    <3> QED BY <2>1, <3>1 DEF NoProposal, Settled
  <2>2. CASE Interpret(h)
    <3>1. PICK reading \in Readings, review \in BOOLEAN :
            handler' = [handler EXCEPT ![h] =
              [at |-> "answering", req |-> r,
               kind |-> Guarded(reading, r \in Unattended)[2], review |-> review,
               negated |-> reading.negated /\ Guarded(reading, r \in Unattended)[1] = "ready",
               status |-> IF /\ Guarded(reading, r \in Unattended)[1] = "ready"
                             /\ ~Ready(record[r].base)
                          THEN "blocked" ELSE Guarded(reading, r \in Unattended)[1]]]
      BY <2>2 DEF Interpret
    <3> DEFINE outcome == Guarded(reading, r \in Unattended)
               unsaid == reading.negated /\ outcome[1] = "ready"
               result == IF outcome[1] = "ready" /\ ~Ready(record[r].base)
                         THEN "blocked" ELSE outcome[1]
    <3>2. (r \in Unattended) \in BOOLEAN
      OBVIOUS
    <3>3. /\ outcome[1] \in Settled \union {"ready"}
          /\ outcome[2] \in Kinds
          /\ outcome[1] = "ready" <=> outcome[2] # "none"
          /\ reading.negated => Declined(outcome[2])
      BY <3>2, GuardedFits
    <3> HIDE DEF outcome
    <3>4. unsaid \in BOOLEAN /\ (unsaid => Declined(outcome[2]))
      BY <3>3
    <3>5. /\ result \in Settled \union {"ready", "blocked"}
          /\ result \in Settled => outcome[2] = "none"
          /\ result = "ready" => outcome[2] # "none"
      BY <3>3 DEF Settled
    <3>6. handler' = [handler EXCEPT ![h] =
              [at |-> "answering", req |-> r, kind |-> outcome[2], review |-> review,
               negated |-> unsaid, status |-> result]]
      BY <3>1 DEF outcome
    <3> HIDE DEF unsaid, result
    <3> QED BY <3>3, <3>4, <3>5, <3>6
  <2> QED BY <2>1, <2>2
<1> DEFINE s == [at |-> "answering", req |-> r, kind |-> kind, review |-> review,
                 negated |-> negated, status |-> status]
<1>4. s \in HandlerState
  BY <1>2 DEF HandlerState, Answering
<1>5. handler'[h] = s
  BY <1>3 DEF Inv, HandlersOK
<1>6. HandlerFits(h)'
  BY <1>1, <1>2, <1>3, <1>5 DEF HandlerFits, HasClaim, AnswerFits, StoresTruth, ExecutesNext
<1> QED BY <1>1, <1>3, <1>4, <1>6, MoveKeeps DEF Inv, TypeOK

\* The answer is stored for a request that still waits for it and so has neither
\* proposal nor receipt, or it is given up.
LEMMA FinishKeeps ==
  ASSUME Inv, NEW h \in Handlers, NEW submitted \in BOOLEAN, Finish(h, submitted)
  PROVE  Inv'
<1> DEFINE r == handler[h].req
           a == handler[h]
<1>1. handler[h].at = "answering" /\ UNCHANGED <<lapsed, receipt, revision, active, agreed>>
  BY DEF Finish, projectVars
<1>2. handler[h] \in Answering /\ record[r].status # "none"
  BY <1>1, HandlerFields DEF Inv, HandlersOK, HandlerFits, HasClaim
<1>3. /\ r \in Requests /\ a.kind \in Kinds /\ a.review \in BOOLEAN /\ a.negated \in BOOLEAN
      /\ a.status \in Settled \union {"ready", "blocked"}
  BY <1>2 DEF Answering
<1>4. /\ a.status \in Settled => a.kind = "none"
      /\ a.status = "ready" => a.kind # "none"
      /\ a.negated => Declined(a.kind)
  BY <1>1 DEF Inv, HandlerFits, AnswerFits
<1>5. CASE ~Keeps(r)
  <2>1. Expire(r) /\ handler' = [handler EXCEPT ![h] = IdleHandler]
    BY <1>5 DEF Finish
  <2>2. HandlerFits(h)'
    BY <2>1, IdleFits DEF Inv, HandlersOK
  <2> QED BY <1>1, <1>3, <2>1, <2>2, MoveKeeps DEF Inv, TypeOK, HandlerState
<1>6. CASE Keeps(r)
  <2>1. /\ record' = [record EXCEPT ![r].status = a.status, ![r].kind = a.kind,
                                    ![r].review = a.review, ![r].negated = a.negated]
        /\ handler' = [handler EXCEPT ![h] =
             IF submitted /\ a.status = "ready" /\ ~a.review
             THEN [at |-> "submitted", req |-> r] ELSE IdleHandler]
    BY <1>6 DEF Finish
  <2>2. record \in [Requests -> RecordType]
    BY DEF Inv, TypeOK, RecordType
  <2>3. record[r].status = "interpreting" /\ record[r].kind = "none"
    BY <1>3, <1>6 DEF Keeps, Current, Inv, RecordFits
  <2>4. a.status \in Status
    BY <1>3 DEF Status
  <2>5. /\ record' \in [Requests -> RecordType]
        /\ record'[r].status = a.status /\ record'[r].kind = a.kind
        /\ record'[r].negated = a.negated
    <3> DEFINE row == [record[r] EXCEPT !.status = a.status, !.kind = a.kind,
                                        !.review = a.review, !.negated = a.negated]
    <3>1. record[r] \in RecordType
      BY <1>3, <2>2
    <3>2. row \in RecordType
      BY <1>3, <2>4, <3>1 DEF RecordType
    <3>3. row.status = a.status /\ row.kind = a.kind
      BY <3>1 DEF RecordType
    <3>4. row.negated = a.negated
      BY <3>1 DEF RecordType
    <3>5. record' = [record EXCEPT ![r] = row]
      BY <1>3, <2>1, <2>2
    <3> HIDE DEF row
    <3>6. record'[r] = row
      BY <1>3, <2>2, <3>5
    <3> QED BY <2>2, <3>2, <3>3, <3>4, <3>5, <3>6
  <2>6. \A q \in Requests \ {r} : record'[q] = record[q]
    BY <2>1, <2>2
  <2>7. ASSUME NEW q \in Requests
        PROVE  Kept(q) /\ RecordFits(q)'
    <3>1. CASE q = r
      <4>1. Kept(q)
        BY <1>3, <2>3, <2>5, <3>1 DEF Kept, Settled
      <4>2. RecordFits(q)'
        BY <1>3, <1>4, <2>5, <3>1 DEF RecordFits, Settled
      <4> QED BY <4>1, <4>2
    <3>2. CASE q # r
      BY <1>1, <2>6, <3>2 DEF Kept, RecordFits, Inv, Done, Steps
    <3> QED BY <3>1, <3>2
  <2>8. HandlersOK'
    BY <1>3, <2>1 DEF Inv, HandlersOK, HandlerState, Submitting
  <2>9. TypeOK'
    BY <1>1, <2>5, <2>7, <2>8, KeptTypes DEF Inv, TypeOK
  <2>10. HandlerFits(h)'
    <3>1. CASE handler'[h] = IdleHandler
      BY <3>1, IdleFits
    <3>2. CASE handler'[h] = [at |-> "submitted", req |-> r]
      BY <1>2, <1>3, <2>3, <2>7, <3>2
         DEF HandlerFits, HasClaim, AnswerFits, StoresTruth, ExecutesNext, Kept
    <3> QED BY <2>1, <3>1, <3>2 DEF Inv, HandlersOK
  <2>11. \A g \in Handlers : handler'[g] = handler[g] \/ HandlerFits(g)'
    BY <2>1, <2>10 DEF Inv, HandlersOK
  <2> QED BY <1>1, <2>7, <2>8, <2>9, <2>11, KeptKeeps
<1> QED BY <1>5, <1>6

\* A handler that holds no answer and neither executes nor stores fits where its
\* request is claimed.
LEMMA WaitingFits ==
  ASSUME NEW h \in Handlers, handler'[h].at \in {"submitted", "following"},
         record'[handler'[h].req].status # "none"
  PROVE  HandlerFits(h)'
  BY DEF HandlerFits, HasClaim, AnswerFits, StoresTruth, ExecutesNext

\* A repeated request acts upon what is stored.
LEMMA ResubmitKeeps ==
  ASSUME Inv, NEW h \in Handlers, NEW r \in Requests, Resubmit(h, r)
  PROVE  Inv'
<1> DEFINE s == IF View(r) = "ready" /\ ~record[r].review /\ Token(r) = "proposal"
                THEN [at |-> "submitted", req |-> r] ELSE IdleHandler
<1>1. /\ handler' = [handler EXCEPT ![h] = s] /\ Expire(r) /\ record[r].status # "none"
      /\ UNCHANGED <<lapsed, receipt, revision, active, agreed>>
  BY DEF Resubmit, projectVars
<1>2. s \in HandlerState
  BY DEF HandlerState, Submitting
<1>3. record'[r].status # "none"
  BY <1>1, ExpireKeeps
<1>4. handler'[h] = s
  BY <1>1 DEF Inv, HandlersOK
<1>5. HandlerFits(h)'
  BY <1>3, <1>4, IdleFits, WaitingFits
<1> QED BY <1>1, <1>2, <1>5, MoveKeeps DEF Inv, TypeOK

\* An accepted confirmation starts at the step the receipts have reached, with the
\* generations on its way agreed to; another one changes nothing.
LEMMA ExecuteKeeps ==
  ASSUME Inv, NEW h \in Handlers, NEW r \in Requests, NEW token \in Tokens, NEW flag \in BOOLEAN,
         NEW submitted \in BOOLEAN, record[r].status # "none",
         Execute(h, r, token, flag, submitted)
  PROVE  Inv'
<1> DEFINE s == IF Accepts(r, token, flag) THEN Snapshot(r, submitted)
                ELSE IF submitted /\ r \in Unattended THEN Returned(r, token) ELSE IdleHandler
           n == Len(receipt[r])
<1>1. /\ handler' = [handler EXCEPT ![h] = s] /\ Expire(r)
      /\ agreed' = IF flag /\ Accepts(r, token, flag) THEN agreed \union {<<r, token>>} ELSE agreed
      /\ UNCHANGED <<lapsed, receipt, revision, active>>
  BY DEF Execute, projectVars
<1>2. agreed' \in SUBSET (Requests \X Tokens) /\ agreed \subseteq agreed'
  BY <1>1 DEF Inv, TypeOK
<1>3. /\ record[r].kind \in Kinds /\ record[r].base \in 0 .. MaxRevision
      /\ receipt[r] \in Seq(1 .. MaxRevision)
      /\ n \in 0 .. Len(Steps(r)) /\ Current(r) \in Status
  BY RecordFields DEF Inv, Current, Status, Settled
<1>4. record'[r].status # "none" /\ record'[r].kind = record[r].kind
        /\ (record[r].kind # "none" => record'[r].base = record[r].base)
  BY <1>1, ExpireKeeps DEF Kept
<1>5. handler'[h] = s
  BY <1>1 DEF Inv, HandlersOK
<1>6. CASE Accepts(r, token, flag)
  <2>1. /\ View(r) = "ready" /\ record[r].kind # "none" /\ token = Token(r)
        /\ "generate" \in {Steps(r)[i] : i \in (IF record[r].kind \in Plans THEN 1 .. Len(Steps(r))
                                                ELSE {n + 1})} => flag
    BY <1>6 DEF Accepts
  <2>2. ~Done(r) /\ n + 1 <= Len(Steps(r)) /\ Len(Steps(r)) \in Nat
    <3>1. ~Done(r)
      BY <1>3, <2>1, ShownFits DEF View, Inv
    <3>2. Len(Steps(r)) \in 0 .. 2 /\ Steps(r) # <<>>
      BY <1>3, <2>1, StepsOfKinds DEF Steps
    <3> QED BY <1>3, <3>1, <3>2 DEF Done
  <2> DEFINE until == IF record[r].kind \in Plans THEN Len(Steps(r)) ELSE n + 1
             base == IF n = 0 THEN record[r].base ELSE receipt[r][n]
  <2>3. s = [at |-> "executing", req |-> r, step |-> n + 1, submitted |-> submitted,
             until |-> until, base |-> base]
    BY <1>6 DEF Snapshot
  <2>4. until \in n + 1 .. Len(Steps(r)) /\ base \in 0 .. MaxRevision /\ base = Basis(r, n + 1)
    BY <1>3, <2>2, RevisionAssumption DEF Basis
  <2>5. until = Len(Steps(r)) \/ (record[r].kind = "follow" /\ until = 1)
    <3>1. CASE record[r].kind \in Plans
      BY <3>1
    <3>2. CASE record[r].kind = "follow"
      <4>1. Len(Steps(r)) = 2 /\ until = n + 1
        BY <1>3, <3>2, StepsOfKinds DEF Plans, Steps
      <4> QED BY <1>3, <2>2, <3>2, <4>1
    <3>3. CASE record[r].kind \notin Plans /\ record[r].kind # "follow"
      <4>1. Len(Steps(r)) = 1 /\ until = n + 1
        BY <1>3, <2>1, <3>3, StepsOfKinds DEF Steps
      <4> QED BY <1>3, <2>2, <4>1
    <3> QED BY <3>1, <3>2, <3>3
  <2>6. ASSUME NEW j \in n + 1 .. until, Steps(r)[j] = "generate"
        PROVE  Needed(r) \in agreed'
    <3>1. j \in (IF record[r].kind \in Plans THEN 1 .. Len(Steps(r)) ELSE {n + 1})
      BY <1>3, <2>2, <2>6
    <3>2. flag
      BY <2>1, <2>6, <3>1
    <3>3. <<r, token>> \in agreed'
      BY <1>1, <1>6, <3>2
    <3>4. Needed(r) = <<r, token>>
      <4>1. CASE record[r].kind = "follow"
        <5>1. Steps(r)[1] = "save"
          BY <1>3, <4>1, StepsOfKinds DEF Steps
        <5>2. n > 0
          BY <1>3, <2>6, <4>1, <5>1 DEF Plans
        <5> QED BY <2>1, <4>1, <5>2 DEF Needed, Token
      <4>2. CASE record[r].kind # "follow"
        BY <2>1, <4>2 DEF Needed, Token
      <4> QED BY <4>1, <4>2
    <3> QED BY <3>3, <3>4
  <2> HIDE DEF s, until, base
  <2>7. s \in HandlerState
    BY <1>3, <2>2, <2>3, <2>4, RevisionAssumption DEF HandlerState, Executing
  <2>8. HasClaim(h)' /\ AnswerFits(h)' /\ StoresTruth(h)'
    BY <1>4, <1>5, <2>3 DEF HasClaim, AnswerFits, StoresTruth
  <2>9. ExecutesNext(h)'
    <3>1. /\ handler'[h].at = "executing" /\ handler'[h].req = r /\ handler'[h].step = n + 1
          /\ handler'[h].until = until /\ handler'[h].base = base
      BY <1>5, <2>3
    <3>2. receipt' = receipt /\ Steps(r)' = Steps(r) /\ Needed(r)' = Needed(r)
            /\ Basis(r, n + 1)' = Basis(r, n + 1)
      BY <1>1, <1>4, <2>1 DEF Steps, Needed, Basis
    <3> QED BY <1>3, <1>4, <2>1, <2>4, <2>5, <2>6, <3>1, <3>2 DEF ExecutesNext
  <2> QED BY <1>1, <1>2, <2>7, <2>8, <2>9, MoveKeeps DEF HandlerFits
<1>7. CASE ~Accepts(r, token, flag)
  <2>1. s = IdleHandler \/ s = Returned(r, token)
    BY <1>7
  <2>2. CASE s = IdleHandler \/ s = [at |-> "following", req |-> r]
    <3>1. s \in HandlerState
      BY <2>2 DEF HandlerState, Submitting
    <3>2. HandlerFits(h)'
      BY <1>4, <1>5, <2>2, IdleFits, WaitingFits
    <3> QED BY <1>1, <1>2, <3>1, <3>2, MoveKeeps
  <2>3. CASE /\ s = [at |-> "reporting", req |-> r, status |-> View(r)]
             /\ Done(r) \/ Token(r) = "generation"
    <3>1. record[r].kind # "none"
      BY <1>3, <2>3, ShownFits DEF Token, Inv
    <3>2. View(r) \in {"ready", "blocked", "completed"}
      <4>1. Current(r) \in {"ready", "blocked", "completed"}
        BY <3>1, RecordFields DEF Inv, RecordFits, Current, Status
      <4> QED BY <1>3, <4>1, ShownFits DEF View, Inv
    <3>3. View(r) = "completed" => Done(r)
      <4>1. Current(r) = "completed" => Done(r)
        BY DEF Inv, RecordFits, Current
      <4> QED BY <1>3, <4>1, ShownFits DEF View, Inv
    <3>4. s \in HandlerState
      BY <2>3, <3>2 DEF HandlerState, Reporting
    <3>5. /\ handler'[h].at = "reporting" /\ handler'[h].req = r /\ handler'[h].status = View(r)
      BY <1>5, <2>3
    <3>6. Done(r)' = Done(r)
      BY <1>1, <1>4 DEF Done, Steps
    <3>7. HandlerFits(h)'
      BY <1>4, <3>1, <3>3, <3>5, <3>6
         DEF HandlerFits, HasClaim, AnswerFits, StoresTruth, ExecutesNext
    <3> QED BY <1>1, <1>2, <3>4, <3>7, MoveKeeps
  <2> QED BY <2>1, <2>2, <2>3 DEF Returned
<1> QED BY <1>6, <1>7

\* A confirmation, of the user, of a submission or of its second half.
LEMMA ConfirmKeeps ==
  ASSUME Inv, NEW h \in Handlers,
         \/ \E r \in Requests, token \in Tokens, flag \in BOOLEAN : Confirm(h, r, token, flag)
         \/ Submit(h) \/ Follow(h)
  PROVE  Inv'
<1>1. CASE \E r \in Requests, token \in Tokens, flag \in BOOLEAN : Confirm(h, r, token, flag)
  <2>1. PICK r \in Requests, token \in Tokens, flag \in BOOLEAN : Confirm(h, r, token, flag)
    BY <1>1
  <2>2. record[r].status # "none"
    BY <2>1 DEF Confirm, Inv, RecordFits
  <2> QED BY <2>1, <2>2, ExecuteKeeps DEF Confirm
<1>2. CASE Submit(h) \/ Follow(h)
  <2>1. handler[h].at \in {"submitted", "following"}
    BY <1>2 DEF Submit, Follow
  <2>2. handler[h].req \in Requests /\ record[handler[h].req].status # "none"
    BY <2>1, HandlerFields DEF Inv, HandlersOK, HandlerFits, HasClaim
  <2>3. "proposal" \in Tokens /\ "generation" \in Tokens
          /\ (handler[h].req \in Unattended) \in BOOLEAN
    BY DEF Tokens
  <2>4. CASE Submit(h)
    BY <2>2, <2>3, <2>4, ExecuteKeeps DEF Submit
  <2>5. CASE Follow(h)
    BY <2>2, <2>3, <2>5, ExecuteKeeps DEF Follow
  <2> QED BY <1>2, <2>4, <2>5
<1> QED BY <1>1, <1>2

\* Where a handler is after a step whose result is known.
LEMMA AdvanceMoves ==
  ASSUME Inv, NEW h \in Handlers, handler[h].at = "executing", NEW result \in Nat,
         Advance(h, result)
  PROVE  /\ HandlersOK'
         /\ \A g \in Handlers \ {h} : handler'[g] = handler[g]
         /\ handler'[h].req = handler[h].req
         /\ \/ /\ handler[h].step < handler[h].until
               /\ handler'[h].at = "executing" /\ handler'[h].until = handler[h].until
               /\ handler'[h].step = handler[h].step + 1 /\ handler'[h].base = result
            \/ /\ ~(handler[h].step < handler[h].until)
               /\ handler'[h].at = "acknowledging" /\ handler'[h].status = "completed"
<1>1. handler \in [Handlers -> HandlerState] /\ handler[h] \in Executing
  BY HandlerFields DEF Inv, HandlersOK
<1>2. CASE handler[h].step < handler[h].until
  <2>1. handler' = [handler EXCEPT ![h].step = @ + 1, ![h].base = result]
    BY <1>2 DEF Advance, NextBase
  <2> DEFINE s == [at |-> "executing", req |-> handler[h].req, step |-> handler[h].step + 1,
                   submitted |-> handler[h].submitted, until |-> handler[h].until, base |-> result]
  <2>2. handler'[h] = s
    BY <1>1, <2>1 DEF Executing
  <2>3. s \in Executing
    BY <1>1 DEF Executing
  <2>4. \A g \in Handlers \ {h} : handler'[g] = handler[g]
    BY <1>1, <2>1
  <2>5. handler' = [g \in Handlers |-> handler'[g]]
    BY <1>1, <2>1
  <2>6. HandlersOK'
    <3>1. \A g \in Handlers : handler'[g] \in HandlerState
      BY <1>1, <2>2, <2>3, <2>4 DEF HandlerState
    <3> QED BY <2>5, <3>1 DEF HandlersOK
  <2> QED BY <1>2, <2>2, <2>4, <2>6
<1>3. CASE ~(handler[h].step < handler[h].until)
  <2> DEFINE s == [at |-> "acknowledging", req |-> handler[h].req, status |-> "completed",
                   submitted |-> handler[h].submitted]
  <2>1. handler' = [handler EXCEPT ![h] = s]
    BY <1>3 DEF Advance, Acknowledging
  <2>2. s \in Storing
    BY <1>1 DEF Executing, Storing
  <2>3. s \in HandlerState
    BY <2>2 DEF HandlerState
  <2>4. handler'[h] = s /\ \A g \in Handlers \ {h} : handler'[g] = handler[g]
    BY <1>1, <2>1
  <2>5. HandlersOK'
    BY <1>1, <2>1, <2>3 DEF HandlersOK
  <2> QED BY <1>3, <2>4, <2>5
<1> QED BY <1>2, <1>3

\* The handler fits there once the receipts hold the step with that result.
LEMMA AdvanceFits ==
  ASSUME Inv, NEW h \in Handlers, handler[h].at = "executing", NEW result \in Nat,
         Advance(h, result), UNCHANGED <<record, agreed>>,
         Len(receipt'[handler[h].req]) \in handler[h].step .. Len(Steps(handler[h].req)),
         result = receipt'[handler[h].req][handler[h].step]
  PROVE  HandlerFits(h)'
<1>1. handler[h] \in Executing /\ record[handler[h].req].status # "none"
  BY HandlerFields DEF Inv, HandlersOK, HandlerFits, HasClaim
<1>2. PICK r \in Requests, i \in Nat, until \in Nat :
        r = handler[h].req /\ i = handler[h].step /\ until = handler[h].until
  BY <1>1 DEF Executing
<1>3. /\ record[r].kind # "none" /\ i \in 1 .. until
      /\ until = Len(Steps(r)) \/ (record[r].kind = "follow" /\ until = 1)
      /\ \A j \in i .. until : Steps(r)[j] = "generate" => Needed(r) \in agreed
  BY <1>2 DEF Inv, HandlerFits, ExecutesNext
<1>4. Steps(r)' = Steps(r) /\ Needed(r)' = Needed(r) /\ record[r].kind \in Kinds
  <2>1. record[r].kind \in Kinds
    BY <1>2, RecordFields DEF Inv
  <2>2. Steps(r)' = Steps(r)
    BY DEF Steps
  <2>3. Needed(r)' = Needed(r)
    BY DEF Needed
  <2> QED BY <2>1, <2>2, <2>3
<1>5. Len(Steps(r)) \in 0 .. 2 /\ Steps(r) # <<>>
        /\ (record[r].kind = "follow" => Len(Steps(r)) = 2)
  BY <1>3, <1>4, StepsOfKinds DEF Steps
<1>6. CASE /\ i < until
           /\ handler'[h].at = "executing" /\ handler'[h].until = until
           /\ handler'[h].step = i + 1 /\ handler'[h].base = result
           /\ handler'[h].req = r
  <2>1. result = receipt'[r][i]
    BY <1>2
  <2>9. Basis(r, i + 1)' = receipt'[r][i]
    <3>1. i + 1 # 1 /\ (i + 1) - 1 = i
      BY <1>2, <1>3
    <3> QED BY <3>1 DEF Basis
  <2>2. i + 1 \in 1 .. until /\ i + 1 <= Len(receipt'[r]) + 1
    BY SMTT(30), <1>2, <1>3, <1>6
  <2>3. \A j \in i + 1 .. until : Steps(r)'[j] = "generate" => Needed(r)' \in agreed'
    <3>1. \A j \in i + 1 .. until : j \in i .. until
      BY <1>2
    <3> QED BY <1>3, <1>4, <3>1
  <2>4. ExecutesNext(h)'
    <3>1. SUFFICES /\ record'[r].kind # "none"
                   /\ i + 1 \in 1 .. until
                   /\ i + 1 <= Len(receipt'[r]) + 1
                   /\ \/ until = Len(StepsOf[record'[r].kind])
                      \/ record'[r].kind = "follow" /\ until = 1
                   /\ result = IF i + 1 = 1 THEN record'[r].base ELSE receipt'[r][(i + 1) - 1]
                   /\ \A j \in i + 1 .. until :
                        StepsOf[record'[r].kind][j] = "generate" =>
                          <<r, IF record'[r].kind = "follow"
                               THEN "generation" ELSE "proposal">> \in agreed'
      BY <1>6 DEF ExecutesNext, Steps, Basis, Needed
    <3>2. result = IF i + 1 = 1 THEN record'[r].base ELSE receipt'[r][(i + 1) - 1]
      BY <2>9, <2>1 DEF Basis
    <3>3. \A j \in i + 1 .. until :
            StepsOf[record'[r].kind][j] = "generate" =>
              <<r, IF record'[r].kind = "follow" THEN "generation" ELSE "proposal">> \in agreed'
      BY <2>3 DEF Steps, Needed
    <3> QED BY <1>3, <2>2, <3>2, <3>3 DEF Steps
  <2> QED BY <1>1, <1>2, <1>6, <2>4 DEF HandlerFits, HasClaim, AnswerFits, StoresTruth
<1>7. CASE /\ ~(i < until) /\ handler'[h].at = "acknowledging"
           /\ handler'[h].status = "completed" /\ handler'[h].req = r
  <2>1. i = until
    BY <1>2, <1>3, <1>7
  <2>2. Done(r)' \/ Halfway(r)'
    <3>1. Len(receipt'[r]) \in i .. Len(Steps(r))
      BY <1>2
    <3>2. CASE until = Len(Steps(r))
      <4>1. Len(receipt'[r]) = Len(Steps(r))
        BY <1>2, <1>5, <2>1, <3>1, <3>2
      <4> QED BY <1>4, <1>5, <4>1 DEF Done
    <3>3. CASE record[r].kind = "follow" /\ until = 1
      <4>1. Len(receipt'[r]) = 1 \/ Len(receipt'[r]) = Len(Steps(r))
        <5>1. Len(Steps(r)) = 2 /\ i = 1
          BY <1>5, <2>1, <3>3
        <5> QED BY <3>1, <5>1
      <4> QED BY <1>4, <1>5, <3>3, <4>1 DEF Done, Halfway
    <3> QED BY <1>3, <3>2, <3>3
  <2> QED BY <1>1, <1>2, <1>3, <1>7, <2>2
          DEF HandlerFits, HasClaim, AnswerFits, StoresTruth, ExecutesNext
<1> QED BY <1>2, <1>6, <1>7, AdvanceMoves

\* The other handlers and the records fit after a receipt was added.
LEMMA ReceiptKeepsFitting ==
  ASSUME Inv, NEW r \in Requests, NEW x \in 1 .. MaxRevision,
         receipt' = [receipt EXCEPT ![r] = Append(@, x)], UNCHANGED <<record, agreed>>,
         Len(receipt[r]) < Len(Steps(r))
  PROVE  /\ \A h \in Handlers : handler'[h] = handler[h] => HandlerFits(h)'
         /\ \A q \in Requests : RecordFits(q)'
<1>1. /\ receipt[r] \in Seq(1 .. MaxRevision) /\ Len(receipt[r]) \in Nat
      /\ record[r].kind \in Kinds
  BY RecordFields DEF Inv
<1>2. /\ Len(receipt'[r]) = Len(receipt[r]) + 1
      /\ \A j \in 1 .. Len(receipt[r]) : receipt'[r][j] = receipt[r][j]
      /\ \A q \in Requests \ {r} : receipt'[q] = receipt[q]
  BY <1>1 DEF Inv, TypeOK
<1>3. \A q \in Requests : /\ Steps(q)' = Steps(q) /\ Needed(q)' = Needed(q)
                          /\ Len(Steps(q)) \in 0 .. 2
                          /\ record[q].kind = "follow" => Len(Steps(q)) = 2
  BY RecordFields, StepsOfKinds DEF Inv, Steps, Needed
<1>4. ~Done(r)
  BY <1>1 DEF Done
<1>5. ASSUME NEW q \in Requests
      PROVE  /\ Done(q) => Done(q)'
             /\ Halfway(q) => Done(q)' \/ Halfway(q)'
  <2>1. CASE q = r
    <3>1. ASSUME Halfway(r)
          PROVE  Done(r)'
      <4>1. Len(Steps(r)) = 2 /\ Len(receipt'[r]) = 2 /\ Steps(r)' = Steps(r)
        BY <1>2, <1>3, <3>1 DEF Halfway
      <4>2. Steps(r) # <<>>
        BY SMTT(30), <4>1
      <4> QED BY <4>1, <4>2 DEF Done
    <3> QED BY <1>4, <2>1, <3>1
  <2>2. CASE q # r
    BY <1>2, <1>3, <2>2 DEF Done, Halfway
  <2> QED BY <2>1, <2>2
<1>6. \A q \in Requests : RecordFits(q)'
  BY <1>5 DEF Inv, RecordFits
<1>7. ASSUME NEW h \in Handlers, handler'[h] = handler[h]
      PROVE  HandlerFits(h)'
  <2> DEFINE q == handler[h].req
  <2>1. handler[h].at # "idle" => q \in Requests
    BY HandlerFields DEF Inv, HandlersOK
  <2>2. HasClaim(h)' /\ AnswerFits(h)'
    BY <1>7 DEF Inv, HandlerFits, HasClaim, AnswerFits
  <2>3. StoresTruth(h)'
    BY <1>5, <1>7, <2>1 DEF Inv, HandlerFits, StoresTruth
  <2>4. CASE handler[h].at = "executing"
    <3>1. handler[h].step \in Nat /\ handler[h].until \in Nat /\ q \in Requests
      BY <2>4, HandlerFields DEF Inv, HandlersOK, Executing
    <3>2. /\ record[q].kind # "none"
          /\ handler[h].step \in 1 .. handler[h].until
          /\ handler[h].step <= Len(receipt[q]) + 1
          /\ \/ handler[h].until = Len(Steps(q))
             \/ record[q].kind = "follow" /\ handler[h].until = 1
          /\ handler[h].base = Basis(q, handler[h].step)
          /\ \A j \in handler[h].step .. handler[h].until :
               Steps(q)[j] = "generate" => Needed(q) \in agreed
      BY <2>4 DEF Inv, HandlerFits, ExecutesNext
    <3>3. Len(receipt[q]) \in Nat
      BY <3>1, RecordFields DEF Inv
    <3>4. Basis(q, handler[h].step)' = Basis(q, handler[h].step)
      <4>1. CASE q = r /\ handler[h].step # 1
        <5>1. handler[h].step - 1 \in 1 .. Len(receipt[r])
          BY <3>1, <3>2, <3>3, <4>1
        <5> QED BY <1>2, <1>7, <4>1, <5>1 DEF Basis
      <4>2. CASE q # r \/ handler[h].step = 1
        BY <1>2, <1>7, <3>1, <4>2 DEF Basis
      <4> QED BY <4>1, <4>2
    <3>5. handler[h].step <= Len(receipt'[q]) + 1
      BY <1>1, <1>2, <3>1, <3>2, <3>3
    <3> QED BY <1>3, <1>7, <2>2, <2>3, <3>1, <3>2, <3>4, <3>5 DEF HandlerFits, ExecutesNext
  <2>5. CASE handler[h].at # "executing"
    BY <1>7, <2>2, <2>3, <2>5 DEF HandlerFits, ExecutesNext
  <2> QED BY <2>4, <2>5
<1> QED BY <1>6, <1>7

\* A handler whose step was refused stores that.
LEMMA BlockedKeeps ==
  ASSUME Inv, NEW h \in Handlers, handler[h].at = "executing", Acknowledging(h, "blocked"),
         UNCHANGED <<record, lapsed, receipt, revision, active, agreed>>
  PROVE  Inv'
<1> DEFINE s == [at |-> "acknowledging", req |-> handler[h].req, status |-> "blocked",
                 submitted |-> handler[h].submitted]
<1>1. handler[h] \in Executing /\ record[handler[h].req].status # "none"
        /\ record[handler[h].req].kind # "none"
  BY HandlerFields DEF Inv, HandlersOK, HandlerFits, HasClaim, ExecutesNext
<1>2. handler' = [handler EXCEPT ![h] = s]
  BY DEF Acknowledging
<1>3. s \in HandlerState
  BY <1>1 DEF Executing, Storing, HandlerState
<1>4. handler'[h] = s
  BY <1>2 DEF Inv, HandlersOK
<1>5. HandlerFits(h)'
  BY <1>1, <1>4 DEF HandlerFits, HasClaim, AnswerFits, StoresTruth, ExecutesNext
<1> QED BY <1>2, <1>3, <1>5, MoveKeeps DEF Inv, TypeOK

\* The core answers a step from its receipt, refuses it or commits it: the receipt
\* is the next one, bound to the revision that the step before left.
LEMMA CoreExecutesKeeps ==
  ASSUME Inv, NEW h \in Handlers, CoreExecutes(h)
  PROVE  Inv'
<1>1. handler[h].at = "executing" /\ UNCHANGED <<record, lapsed, agreed>>
  BY DEF CoreExecutes
<1>2. handler[h] \in Executing /\ record[handler[h].req].status # "none"
  BY <1>1, HandlerFields DEF Inv, HandlersOK, HandlerFits, HasClaim
<1>3. PICK r \in Requests, i \in Nat, until \in Nat :
        r = handler[h].req /\ i = handler[h].step /\ until = handler[h].until
  BY <1>2 DEF Executing
<1>4. /\ record[r].kind # "none" /\ i \in 1 .. until /\ i <= Len(receipt[r]) + 1
      /\ until = Len(Steps(r)) \/ (record[r].kind = "follow" /\ until = 1)
      /\ handler[h].base = Basis(r, i)
      /\ \A j \in i .. until : Steps(r)[j] = "generate" => Needed(r) \in agreed
  BY <1>1, <1>3 DEF Inv, HandlerFits, ExecutesNext
<1>5. /\ receipt[r] \in Seq(1 .. MaxRevision) /\ record[r].kind \in Kinds
      /\ Len(receipt[r]) \in 0 .. Len(Steps(r))
      /\ Len(Steps(r)) \in 0 .. 2
      /\ record[r].kind = "follow" => Len(Steps(r)) = 2
  BY RecordFields, StepsOfKinds DEF Inv, Steps
<1>6. CASE Replayed(r, i)
  <2>1. /\ UNCHANGED <<receipt, revision, active>> /\ Advance(h, receipt[r][i])
        /\ i \in 1 .. Len(receipt[r])
    BY <1>3, <1>4, <1>5, <1>6 DEF CoreExecutes, Replayed, projectVars
  <2>2. receipt[r][i] \in Nat
    BY <1>5, <2>1, RevisionAssumption
  <2>3. HandlersOK' /\ \A g \in Handlers \ {h} : handler'[g] = handler[g]
    BY <1>1, <2>1, <2>2, AdvanceMoves
  <2>4. HandlerFits(h)'
    BY <1>1, <1>3, <1>5, <2>1, <2>2, AdvanceFits
  <2>5. /\ record' \in [Requests -> RecordType]
        /\ \A q \in Requests : Kept(q) /\ RecordFits(q)'
    BY <1>1, <2>1, UnchangedKeeps
  <2>6. TypeOK'
    BY <1>1, <2>1, <2>3, <2>5, KeptTypes DEF Inv, TypeOK
  <2> QED BY <1>1, <2>1, <2>3, <2>4, <2>5, <2>6, KeptKeeps
<1>7. CASE ~Replayed(r, i) /\ (Withdrawn(r) \/ ~Ready(handler[h].base))
  <2>1. UNCHANGED <<receipt, revision, active>> /\ Acknowledging(h, "blocked")
    BY <1>3, <1>7 DEF CoreExecutes, projectVars
  <2> QED BY <1>1, <2>1, BlockedKeeps
<1>8. CASE ~Replayed(r, i) /\ ~(Withdrawn(r) \/ ~Ready(handler[h].base))
  <2>1. /\ Steps(r)[i] = "save" => revision < MaxRevision
        /\ revision' = IF Steps(r)[i] = "save" THEN revision + 1 ELSE revision
        /\ active' = (Steps(r)[i] = "generate")
        /\ receipt' = [receipt EXCEPT ![r] = Append(@, revision')]
        /\ Advance(h, revision')
        /\ Basis(r, i) = revision
    BY <1>3, <1>4, <1>8 DEF CoreExecutes, Ready
  <2>2. /\ revision \in 1 .. MaxRevision /\ revision' \in 1 .. MaxRevision
        /\ revision' = Basis(r, i) + (IF Steps(r)[i] = "save" THEN 1 ELSE 0)
    <3>1. revision \in 1 .. MaxRevision /\ MaxRevision \in Nat
      BY RevisionAssumption DEF Inv, TypeOK
    <3> QED BY <2>1, <3>1
  <2>3. i = Len(receipt[r]) + 1 /\ Len(receipt[r]) < Len(Steps(r))
    <3>1. i > Len(receipt[r])
      BY <1>5, <1>8 DEF Replayed
    <3>2. i = Len(receipt[r]) + 1
      BY <1>4, <1>5, <3>1
    <3> QED BY <1>4, <1>5, <3>2
  <2>4. /\ receipt'[r] \in Seq(1 .. MaxRevision)
        /\ Len(receipt'[r]) = i /\ receipt'[r][i] = revision'
        /\ \A j \in 1 .. Len(receipt[r]) : receipt'[r][j] = receipt[r][j]
        /\ \A q \in Requests \ {r} : receipt'[q] = receipt[q]
        /\ receipt' \in [Requests -> Seq(1 .. MaxRevision)]
    BY <1>5, <2>1, <2>2, <2>3 DEF Inv, TypeOK
  <2>5. HandlersOK' /\ \A g \in Handlers \ {h} : handler'[g] = handler[g]
    BY <1>1, <2>1, <2>2, AdvanceMoves
  <2>6. HandlerFits(h)'
    <3>1. Len(receipt'[r]) \in i .. Len(Steps(r)) /\ revision' \in Nat
      BY <1>5, <2>2, <2>3, <2>4
    <3> QED BY <1>1, <1>3, <2>1, <2>4, <3>1, AdvanceFits
  <2>7. /\ \A g \in Handlers : handler'[g] = handler[g] => HandlerFits(g)'
        /\ \A q \in Requests : RecordFits(q)'
    BY <1>1, <2>1, <2>2, <2>3, ReceiptKeepsFitting
  <2>8. TypeOK'
    <3>1. \A q \in Requests : Len(receipt'[q]) <= Len(Steps(q))'
      <4>1. \A q \in Requests : Steps(q)' = Steps(q)
        BY <1>1 DEF Steps
      <4>2. \A q \in Requests : Len(receipt[q]) <= Len(Steps(q))
        BY DEF Inv, TypeOK
      <4>3. Len(receipt'[r]) <= Len(Steps(r))
        BY <1>5, <2>3, <2>4
      <4> QED BY <2>4, <4>1, <4>2, <4>3
    <3>2. \A g \in Handlers : (handler[g].at # "idle" => handler[g].req \in Requests)'
      BY <2>5, HandlerFields DEF HandlersOK
    <3>3. active' \in BOOLEAN
      BY <2>1
    <3> QED BY <1>1, <2>2, <2>4, <3>1, <3>2, <3>3 DEF Inv, TypeOK
  <2>9. StepsAreContiguous'
    <3>1. SUFFICES ASSUME NEW q \in Requests, NEW j \in 1 .. Len(receipt'[q])
                   PROVE  receipt'[q][j] = (IF j = 1 THEN record[q].base ELSE receipt'[q][j - 1])
                                           + (IF Steps(q)[j] = "save" THEN 1 ELSE 0)
      BY <1>1 DEF StepsAreContiguous, Steps
    <3>2. CASE q # r \/ j # i
      <4>1. j \in 1 .. Len(receipt[q]) /\ receipt'[q][j] = receipt[q][j]
        BY <1>5, <2>3, <2>4, <3>2
      <4>2. j # 1 => receipt'[q][j - 1] = receipt[q][j - 1]
        BY <1>5, <2>3, <2>4, <3>2, <4>1
      <4> QED BY <4>1, <4>2 DEF Inv, StepsAreContiguous
    <3>3. CASE q = r /\ j = i
      <4>1. i # 1 => receipt'[r][i - 1] = receipt[r][i - 1]
        BY <1>4, <1>5, <2>3, <2>4
      <4> QED BY <2>2, <2>4, <3>3, <4>1 DEF Basis
    <3> QED BY <3>2, <3>3
  <2>10. GenerationsAreWanted'
    <3>1. SUFFICES ASSUME NEW q \in Requests, NEW j \in 1 .. Len(receipt'[q]),
                          Steps(q)[j] = "generate"
                   PROVE  Needed(q) \in agreed /\ ~record[q].negated
      BY <1>1 DEF GenerationsAreWanted, Needed, Steps
    <3>2. CASE q # r \/ j # i
      <4>1. j \in 1 .. Len(receipt[q])
        BY <1>5, <2>3, <2>4, <3>2
      <4> QED BY <3>1, <4>1 DEF Inv, GenerationsAreWanted, Needed
    <3>3. CASE q = r /\ j = i
      <4>1. Needed(r) \in agreed
        BY <1>4, <3>1, <3>3
      <4>2. i \in 1 .. Len(Steps(r))
        BY <1>4, <1>5, <2>3
      <4>3. ~record[r].negated
        BY <3>1, <3>3, <4>2 DEF Inv, RecordFits, Declined, Steps
      <4> QED BY <3>3, <4>1, <4>3
    <3> QED BY <3>2, <3>3
  <2>11. \A g \in Handlers : HandlerFits(g)'
    BY <2>5, <2>6, <2>7
  <2> QED BY <2>5, <2>7, <2>8, <2>9, <2>10, <2>11 DEF Inv
<1> QED BY <1>6, <1>7, <1>8

\* The core cannot be asked, or its handler refuses.
LEMMA CoreRefusesKeeps ==
  ASSUME Inv, NEW h \in Handlers, CoreRefuses(h)
  PROVE  Inv'
<1>1. /\ handler[h].at = "executing" /\ Acknowledging(h, "blocked")
      /\ UNCHANGED <<record, lapsed, receipt, revision, active, agreed>>
  BY DEF CoreRefuses, projectVars
<1> QED BY <1>1, BlockedKeeps

\* What is stored of a request is what its receipts make of what the handler says.
LEMMA AcknowledgeKeeps ==
  ASSUME Inv, NEW h \in Handlers, Acknowledge(h)
  PROVE  Inv'
<1>1. /\ handler[h].at \in {"acknowledging", "reporting"}
      /\ UNCHANGED <<lapsed, receipt, revision, active, agreed>>
  BY DEF Acknowledge, projectVars
<1>2. PICK r \in Requests, said \in {"ready", "blocked", "completed"} :
        r = handler[h].req /\ said = handler[h].status
  BY <1>1, HandlerFields DEF Inv, HandlersOK, Storing, Reporting
<1>3. /\ record[r].status # "none" /\ record[r].kind # "none"
      /\ said = "completed" => Done(r) \/ Halfway(r)
  BY <1>1, <1>2 DEF Inv, HandlerFits, HasClaim, StoresTruth
<1>4. said \in Status
  BY DEF Status
<1>5. /\ Shown(r, said) \in {"ready", "blocked", "completed"}
      /\ Shown(r, said) = "completed" => Done(r)
  BY <1>3, <1>4, ShownFits DEF Inv
<1>6. /\ record' = [record EXCEPT ![r].status = Shown(r, said)]
      /\ \/ handler' = [handler EXCEPT ![h] = IdleHandler]
         \/ handler' = [handler EXCEPT ![h] = [at |-> "following", req |-> r]]
         \/ handler' = [handler EXCEPT ![h] =
                          [at |-> "reporting", req |-> r, status |-> Shown(r, said)]]
  BY <1>2 DEF Acknowledge
<1>7. record \in [Requests -> RecordType] /\ Shown(r, said) \in Status
  BY <1>5 DEF Inv, TypeOK, RecordType, Status
<1>8. record' \in [Requests -> RecordType]
  BY <1>6, <1>7 DEF RecordType
<1>9. ASSUME NEW q \in Requests
      PROVE  /\ record'[q].kind = record[q].kind /\ record'[q].base = record[q].base
             /\ record'[q].negated = record[q].negated
             /\ record'[q].status = IF q = r THEN Shown(r, said) ELSE record[q].status
  BY <1>6, <1>7 DEF RecordType
<1>10. ASSUME NEW q \in Requests
       PROVE  Kept(q) /\ RecordFits(q)'
  <2>1. Kept(q)
    BY <1>3, <1>5, <1>9 DEF Kept
  <2>2. Done(q)' = Done(q)
    BY <1>1, <1>9 DEF Done, Steps
  <2>3. RecordFits(q)'
    BY <1>3, <1>5, <1>9, <2>2 DEF Inv, RecordFits, Settled
  <2> QED BY <2>1, <2>3
<1>11. HandlersOK'
  BY <1>5, <1>6 DEF Inv, HandlersOK, HandlerState, Submitting, Reporting
<1>12. TypeOK'
  BY <1>1, <1>8, <1>10, <1>11, KeptTypes DEF Inv, TypeOK
<1>13. HandlerFits(h)'
  <2>1. \/ handler'[h] = IdleHandler
        \/ handler'[h] = [at |-> "following", req |-> r]
        \/ handler'[h] = [at |-> "reporting", req |-> r, status |-> Shown(r, said)]
    BY <1>6 DEF Inv, HandlersOK
  <2>2. record'[r].status # "none" /\ record'[r].kind # "none" /\ (Done(r) => Done(r)')
    BY <1>1, <1>3, <1>5, <1>9 DEF Done, Steps
  <2>3. CASE handler'[h] = [at |-> "reporting", req |-> r, status |-> Shown(r, said)]
    BY <1>5, <2>2, <2>3 DEF HandlerFits, HasClaim, AnswerFits, StoresTruth, ExecutesNext
  <2> QED BY <2>1, <2>2, <2>3, IdleFits, WaitingFits
<1>14. \A g \in Handlers : handler'[g] = handler[g] \/ HandlerFits(g)'
  BY <1>6, <1>13 DEF Inv, HandlersOK
<1> QED BY <1>1, <1>10, <1>11, <1>12, <1>14, KeptKeeps

-----------------------------------------------------------------------------
(* The theorems.                                                           *)

\* The invariant holds at the start.
LEMMA InitInv == Init => Inv
<1> SUFFICES ASSUME Init
             PROVE  Inv
  OBVIOUS
<1>1. "none" \in Kinds /\ StepsOf["none"] = <<>>
  BY DEF Kinds, StepsOf
<1>2. /\ \A r \in Requests : record[r] = NoRecord /\ receipt[r] = <<>>
      /\ \A h \in Handlers : handler[h] = IdleHandler
  BY DEF Init
<1>3. NoRecord \in RecordType /\ 1 \in 1 .. MaxRevision
  BY <1>1, RevisionAssumption DEF NoRecord, RecordType, Status
<1>4. record \in [Requests -> RecordType]
  BY <1>3 DEF Init
<1>5. receipt \in [Requests -> Seq(1 .. MaxRevision)]
  BY DEF Init
<1>11. ASSUME NEW r \in Requests
      PROVE  record[r].kind = "none" /\ record[r].status = "none" /\ ~record[r].negated
  BY <1>2 DEF NoRecord
<1>6. TypeOK
  <2>1. ASSUME NEW r \in Requests
        PROVE  Len(receipt[r]) <= Len(Steps(r))
    <3>1. receipt[r] = <<>> /\ Steps(r) = <<>>
      BY <1>1, <1>2, <1>11 DEF Steps
    <3>2. Len(receipt[r]) = 0 /\ Len(Steps(r)) = 0
      BY <3>1
    <3> QED BY <3>2
  <2>2. \A h \in Handlers : handler[h].at = "idle"
    BY <1>2 DEF IdleHandler
  <2> QED BY <1>3, <1>4, <1>5, <2>1, <2>2 DEF Init, TypeOK, RecordType
<1>7. HandlersOK
  BY DEF Init, HandlersOK, HandlerState
<1>8. \A r \in Requests : RecordFits(r)
  BY <1>11 DEF RecordFits, Settled
<1>9. \A h \in Handlers : HandlerFits(h)
  BY <1>2 DEF IdleHandler, HandlerFits, HasClaim, AnswerFits, StoresTruth, ExecutesNext
<1>10. StepsAreContiguous /\ GenerationsAreWanted
  BY <1>2 DEF StepsAreContiguous, GenerationsAreWanted
<1> QED BY <1>6, <1>7, <1>8, <1>9, <1>10 DEF Inv

\* A step that changes nothing keeps it.
LEMMA StutterKeeps ==
  ASSUME Inv, UNCHANGED vars
  PROVE  Inv'
<1>1. UNCHANGED <<record, lapsed, receipt, revision, active, handler, agreed>>
  BY DEF vars, projectVars
<1>2. /\ record' \in [Requests -> RecordType]
      /\ \A q \in Requests : Kept(q) /\ RecordFits(q)'
  BY <1>1, UnchangedKeeps
<1>3. HandlersOK'
  BY <1>1 DEF Inv, HandlersOK
<1>4. TypeOK'
  BY <1>1, <1>2, <1>3, KeptTypes DEF Inv, TypeOK
<1> QED BY <1>1, <1>2, <1>3, <1>4, KeptKeeps

\* Every step keeps it.
LEMMA NextInv == Inv /\ [Next]_vars => Inv'
<1> SUFFICES ASSUME Inv, [Next]_vars
             PROVE  Inv'
  OBVIOUS
<1>1. CASE \E r \in Requests : Lapse(r) \/ Lookup(r)
  BY <1>1, LapseKeeps
<1>2. CASE \E h \in Handlers, r \in Requests, targeted \in BOOLEAN,
              parent \in Requests \union {NoRequest}, relation \in Relations \union {"none"} :
             Claim(h, r, parent, relation, targeted)
  BY <1>2, ClaimKeeps
<1>3. CASE \E h \in Handlers, r \in Requests : Resubmit(h, r)
  BY <1>3, ResubmitKeeps
<1>4. CASE \E h \in Handlers :
             \/ \E r \in Requests, token \in Tokens, flag \in BOOLEAN : Confirm(h, r, token, flag)
             \/ Submit(h) \/ Follow(h)
  BY <1>4, ConfirmKeeps
<1>5. CASE \E h \in Handlers : Interpret(h) \/ NoProposal(h)
  BY <1>5, InterpretKeeps
<1>6. CASE \E h \in Handlers, submitted \in BOOLEAN : Finish(h, submitted)
  BY <1>6, FinishKeeps
<1>7. CASE \E h \in Handlers : CoreExecutes(h) \/ CoreRefuses(h) \/ Acknowledge(h)
  BY <1>7, CoreExecutesKeeps, CoreRefusesKeeps, AcknowledgeKeeps
<1>8. CASE OtherEdit \/ JobEnds
  BY <1>8, ProjectChangeKeeps
<1>9. CASE Stop \/ UNCHANGED vars
  BY <1>9, StopKeeps, StutterKeeps
<1> QED BY <1>1, <1>2, <1>3, <1>4, <1>5, <1>6, <1>7, <1>8, <1>9 DEF Next

\* It holds always.
THEOREM InvAlways == Spec => []Inv
<1>1. Init => Inv
  BY InitInv
<1>2. Inv /\ [Next]_vars => Inv'
  BY NextInv
<1> QED BY <1>1, <1>2, PTL DEF Spec

\* What a request says is true of its receipts.
LEMMA ViewsAreTrue ==
  ASSUME Inv, NEW r \in Requests
  PROVE  View(r) = "completed" <=> Done(r)
<1>1. Current(r) \in Status /\ (Current(r) = "completed" => Done(r))
  BY RecordFields DEF Inv, RecordFits, Current, Status, Settled
<1> QED BY <1>1, ShownFits DEF Inv, View

\* A plan is carried out step by step on what its user saw, without a change by
\* anybody in between, and exactly what is carried out is said to be completed.
THEOREM PlansAreCarriedOutAlways == Spec => []PlansAreCarriedOut
<1>1. Inv => PlansAreCarriedOut
  BY ViewsAreTrue DEF Inv, PlansAreCarriedOut, CompletedMeansDone
<1> QED BY <1>1, InvAlways, PTL

\* No generation starts that was not confirmed as such, in whatever order the
\* confirmations of the save and of the plan are repeated, nor one the text declines.
THEOREM GenerationsAreWantedAlways == Spec => []GenerationsAreWanted
<1>1. Inv => GenerationsAreWanted
  BY DEF Inv
<1> QED BY <1>1, InvAlways, PTL

\* A request answered without a proposal shows what is stored.
LEMMA SettledView ==
  ASSUME Inv, NEW r \in Requests, View(r) \in Settled
  PROVE  /\ record[r].kind = "none" /\ View(r) = Current(r)
         /\ \/ record[r].status \in Settled
            \/ record[r].status = "interpreting" /\ r \in lapsed
<1>1. Current(r) \in Status
  BY RecordFields DEF Inv, Current, Status, Settled
<1>2. View(r) = Current(r)
  BY <1>1, ShownFits DEF Inv, View, Settled
<1> QED BY <1>2 DEF Inv, RecordFits, Current, Settled

\* It keeps its answer where its record is left alone but for an expired lease.
LEMMA AnswerIsKept ==
  ASSUME Inv, NEW r \in Requests, View(r) \in Settled, receipt'[r] = receipt[r],
         record'[r].kind = "none", lapsed \subseteq lapsed',
         record'[r].status = record[r].status \/ record'[r].status = Current(r)
  PROVE  View(r)' = View(r)
<1>1. /\ View(r) = Current(r)
      /\ record[r].status \in Settled \/ (record[r].status = "interpreting" /\ r \in lapsed)
  BY SettledView
<1>2. Current(r)' = Current(r)
  BY <1>1 DEF Current, Settled
<1>3. Steps(r)' = <<>>
  BY DEF Steps, StepsOf
<1>4. View(r)' = Current(r)'
  BY <1>3 DEF View, Shown, Done
<1> QED BY <1>1, <1>2, <1>4

\* Every step keeps the answers, and adds no receipt to a request that was taken over.
LEMMA StepKeepsAnswers ==
  ASSUME Inv, [Next]_vars, NEW r \in Requests
  PROVE  /\ View(r) \in Settled => View(r)' = View(r) /\ receipt'[r] = receipt[r]
         /\ Superseded(r) => receipt'[r] = receipt[r]
<1>1. record \in [Requests -> RecordType]
  BY DEF Inv, TypeOK, RecordType
<1>2. CASE UNCHANGED <<record, lapsed, receipt>>
  BY <1>2, SettledView, AnswerIsKept
<1>3. ASSUME NEW q \in Requests, Expire(q), lapsed' = lapsed, receipt' = receipt
      PROVE  View(r) \in Settled => View(r)' = View(r)
  <2>1. record'[r].kind = record[r].kind
          /\ (record'[r].status = record[r].status \/ record'[r].status = Current(r))
    BY <1>1, <1>3 DEF Expire, RecordType
  <2> QED BY <1>3, <2>1, SettledView, AnswerIsKept
<1>4. CASE \E q \in Requests : Lapse(q) \/ Lookup(q)
  BY <1>3, <1>4, SettledView, AnswerIsKept DEF Lapse, Lookup
<1>5. CASE \E h \in Handlers, q \in Requests, targeted \in BOOLEAN,
              parent \in Requests \union {NoRequest}, relation \in Relations \union {"none"} :
             Claim(h, q, parent, relation, targeted)
  <2>1. PICK h \in Handlers, q \in Requests, targeted \in BOOLEAN,
             parent \in Requests \union {NoRequest}, relation \in Relations \union {"none"} :
             Claim(h, q, parent, relation, targeted)
    BY <1>5
  <2>2. record[q].status = "none" /\ lapsed' = lapsed /\ receipt' = receipt
    BY <2>1 DEF Claim
  <2>3. r # q => record'[r].kind = record[r].kind /\ record'[r].status = record[r].status
    BY <1>1, <2>1 DEF Claim, RecordType
  <2>4. View(r) \in Settled => r # q
    BY <2>2, SettledView DEF Settled
  <2> QED BY <2>2, <2>3, <2>4, SettledView, AnswerIsKept
<1>6. CASE \E h \in Handlers, submitted \in BOOLEAN : Finish(h, submitted)
  <2>1. PICK h \in Handlers, submitted \in BOOLEAN : Finish(h, submitted)
    BY <1>6
  <2>2. PICK q \in Requests : q = handler[h].req
    BY <2>1, HandlerFields DEF Finish, Inv, HandlersOK
  <2>3. lapsed' = lapsed /\ receipt' = receipt
    BY <2>1 DEF Finish
  <2>4. CASE ~Keeps(q)
    BY <1>3, <2>1, <2>2, <2>3, <2>4 DEF Finish
  <2>5. CASE Keeps(q)
    <3>1. View(r) \in Settled => r # q
      BY <2>5, SettledView DEF Keeps, Current, Settled
    <3>2. r # q => record'[r] = record[r]
      BY <1>1, <2>1, <2>2, <2>5 DEF Finish
    <3> QED BY <2>3, <3>1, <3>2, SettledView, AnswerIsKept
  <2> QED BY <2>4, <2>5
<1>7. CASE \E h \in Handlers, q \in Requests :
             Resubmit(h, q) \/ \E token \in Tokens, flag \in BOOLEAN : Confirm(h, q, token, flag)
  BY <1>3, <1>7 DEF Resubmit, Confirm, Execute
<1>8. CASE \E h \in Handlers : Submit(h) \/ Follow(h)
  <2>1. PICK h \in Handlers : Submit(h) \/ Follow(h)
    BY <1>8
  <2>2. handler[h].req \in Requests
    BY <2>1, HandlerFields DEF Submit, Follow, Inv, HandlersOK
  <2> QED BY <1>3, <2>1, <2>2 DEF Submit, Follow, Execute
<1>9. CASE \E h \in Handlers : Acknowledge(h)
  <2>1. PICK h \in Handlers : Acknowledge(h)
    BY <1>9
  <2>2. record[handler[h].req].kind # "none" /\ lapsed' = lapsed /\ receipt' = receipt
    BY <2>1 DEF Acknowledge, Inv, HandlerFits, StoresTruth
  <2>3. r # handler[h].req => record'[r] = record[r]
    BY <1>1, <2>1 DEF Acknowledge
  <2> QED BY <2>2, <2>3, SettledView, AnswerIsKept
<1>10. CASE \E h \in Handlers : CoreExecutes(h)
  <2>1. PICK h \in Handlers : CoreExecutes(h)
    BY <1>10
  <2>2. record' = record /\ lapsed' = lapsed /\ record[handler[h].req].kind # "none"
    BY <2>1 DEF CoreExecutes, Inv, HandlerFits, ExecutesNext
  <2>3. r # handler[h].req \/ Superseded(r) => receipt'[r] = receipt[r]
    BY <2>1 DEF CoreExecutes, Withdrawn, Inv, TypeOK
  <2> QED BY <2>2, <2>3, SettledView, AnswerIsKept
<1>11. CASE \/ \E h \in Handlers : Interpret(h) \/ NoProposal(h) \/ CoreRefuses(h)
            \/ OtherEdit \/ JobEnds \/ Stop \/ UNCHANGED vars
  BY <1>2, <1>11 DEF Interpret, NoProposal, CoreRefuses, OtherEdit, JobEnds, Stop, vars
<1> QED BY <1>4, <1>5, <1>6, <1>7, <1>8, <1>9, <1>10, <1>11 DEF Next

\* An answer without a proposal is final, and no step of a request runs once a reply
\* has taken it over, whatever handlers still hold of either.
THEOREM AnswersAreFinalAlways == Spec => AnswersAreFinal
<1> DEFINE Kept1 == \A r \in Requests :
                      View(r) \in Settled => View(r)' = View(r) /\ receipt'[r] = receipt[r]
           Kept2 == \A r \in Requests : Superseded(r) => receipt'[r] = receipt[r]
<1>1. Inv /\ [Next]_vars => Kept1 /\ Kept2
  BY StepKeepsAnswers
<1> QED BY <1>1, InvAlways, PTL DEF Spec, AnswersAreFinal, AnswersAreKept, WithdrawnNeverRuns

-----------------------------------------------------------------------------
(* The page of a project (ProjectPage): what it knows of its requests is    *)
(* proved for any server that commits an identifier at most once.           *)

\* The kinds of calls of either hook, and the answers after which nothing comes.
Ops == {"operate", "discard"}
Words == {"submit", "confirm", "lookup"}
Terminal == {"needs_input", "done", "closed"}

\* The kind of a call goes with its identifier and its answers.
Fits(c) ==
  /\ c.kind \in Ops => c.id \in Intents
  /\ c.kind \in Words => c.id \in Requests
  /\ c.state = "held" => c.kind = "submit"
  /\ c.state = "back" =>
       /\ c.kind = "operate" => c.answer \in {"ok", "refused"}
       /\ c.kind = "discard" => c.answer \in {"ok", "missing"}
       /\ c.kind = "lookup" => c.answer \in P!Statuses \cup {"missing"}
       /\ c.kind \in {"submit", "confirm"} => c.answer \in P!Statuses \cup {"refused"}

\* Every call that is out fits, and is of a page the user sees or saw.
CallsFit ==
  /\ stored.language.action \in Words /\ language.session.action \in Words
  /\ \A c \in calls : Fits(c) /\ c.from <= visit

\* A call of a page that was left, or that was given up, makes its identifier loose.
OthersAreLoose == \A c \in calls : c.from # visit => c.id \in loose

\* The page the user sees has one call of each hook out, ...
OneOut == \A c, d \in calls : P!Mine(c) /\ P!Mine(d) /\ (c.kind \in Ops <=> d.kind \in Ops) => c = d

\* ... and waits for it.
Awaited ==
  \A c \in calls : P!Mine(c) =>
    /\ c.kind \in Ops => command.sending /\ c.id = command.pending
    /\ c.kind \in Words => language.flight /\ c.id = language.session.id

\* The intent in the storage is the one the page asks about, or a page that was left sent it; its
\* call is out or went astray.
Remembered ==
  /\ stored.op # NoRequest =>
       /\ stored.op \in crossed \/ command.pending = stored.op
       /\ stored.op \in loose \/ \E c \in calls : P!Mine(c) /\ c.kind \in Ops /\ c.id = stored.op
  /\ command.pending # NoRequest /\ ~command.sending => command.pending \in loose

\* An answer to an operation is true, and the last word unless another call went astray.
Settling ==
  /\ \A c \in calls : c.kind \in Ops /\ c.state = "back" =>
       /\ c.answer = "ok" => c.id \in committed
       /\ c.answer # "ok" /\ c.id \in committed => c.id \in loose
  /\ \A i \in Intents \ loose : told[i] \in {"accepted", "refused", "withdrawn"} =>
       /\ \A c \in calls : c.kind \in Ops => c.id # i
       /\ command.pending # i

\* An answer to a request in words is still true when it arrives, as far as it is final.
AnswersHold ==
  \A c \in calls : c.kind \in Words =>
    /\ c.kind = "confirm" => served[c.id] \in {"ready", "done"}
    /\ c.state = "back" =>
         /\ c.answer \in P!Statuses => served[c.id] # "absent"
         /\ c.answer \in Terminal => served[c.id] = c.answer
         /\ c.answer = "ready" => served[c.id] \in {"ready", "done"}
         /\ c.answer = "refused" /\ c.id \notin loose =>
              served[c.id] \notin {"interpreting", "prepared"}

\* The session the page shows is the stored one, and what it says is true of the server.
SessionHolds ==
  /\ stored.language = language.session
  /\ language.session.id = NoRequest =>
       ~language.flight /\ language.response = NoRequest /\ ~language.rejected
  /\ language.session.id # NoRequest =>
       /\ language.session.action = "confirm" => served[language.session.id] \in {"ready", "done"}
       /\ language.session.action = "lookup" => served[language.session.id] \in P!Settled
       /\ language.response # NoRequest => served[language.session.id] # "absent"
       /\ language.response \in Terminal => served[language.session.id] = language.response
       /\ language.response = "ready" => served[language.session.id] \in {"ready", "done"}
       /\ language.rejected /\ language.session.id \notin loose =>
            served[language.session.id] \notin {"interpreting", "prepared"}
  /\ language.rejected => ~language.flight

\* A request the page has turned away from is settled, unless a call of it went astray.
Given ==
  \A r \in Requests \ (loose \cup {language.session.id}) :
    served[r] \notin {"interpreting", "prepared"}

\* The invariant: what is known of every call that is out, and what the properties say.
PageInv ==
  /\ P!TypeOK /\ CallsFit /\ OthersAreLoose /\ OneOut /\ Awaited
  /\ Remembered /\ Settling /\ P!NothingIsForgotten /\ P!ToldIsTrue
  /\ AnswersHold /\ SessionHolds /\ Given

-----------------------------------------------------------------------------
(* The steps of the page.                                                  *)

\* A new call is of the page the user sees.
LEMMA CallFields ==
  ASSUME P!TypeOK, NEW kind \in P!Kinds, NEW id \in Intents \cup Requests
  PROVE  /\ P!Call(kind, id) \in P!CallType
         /\ P!Call(kind, id).kind = kind /\ P!Call(kind, id).id = id
         /\ P!Call(kind, id).from = visit /\ P!Call(kind, id).state = "out"
  BY DEF P!TypeOK, P!CallType, P!Call

\* An intent that is sent is in the storage.
LEMMA SendKeeps ==
  ASSUME P!IdentifiersDiffer, PageInv, NEW i \in Intents, P!SendIntent(i),
         command.pending \in {NoRequest, i}, ~command.sending,
         told' = [told EXCEPT ![i] = "none"] \/ (told' = told /\ command.pending = i),
         UNCHANGED <<visit, language, P!serverVars, answered, loose, P!leftVars>>, checking' \in BOOLEAN
  PROVE  PageInv'
<1>a. /\ P!TypeOK /\ CallsFit /\ OthersAreLoose /\ OneOut /\ Awaited
      /\ Remembered /\ Settling /\ P!NothingIsForgotten /\ P!ToldIsTrue
      /\ AnswersHold /\ SessionHolds /\ Given
  BY DEF PageInv
<1> DEFINE n == P!Call("operate", i)
<1>n. n \in P!CallType /\ n.kind = "operate" /\ n.id = i /\ n.from = visit /\ n.state = "out"
  BY <1>a, CallFields DEF P!Kinds
<1>c. calls' = calls \cup {n}
  BY DEF P!SendIntent
<1> HIDE DEF n
<1>f. /\ UNCHANGED <<visit, language, committed, served, answered, loose, abandoned, crossed>>
      /\ calls' = calls \cup {n} /\ checking' \in BOOLEAN
      /\ n \in P!CallType /\ n.kind = "operate" /\ n.id = i /\ n.from = visit /\ n.state = "out"
      /\ \A x \in calls : x \in P!CallType /\ (P!Mine(x) => x.kind \notin Ops)
      /\ i # NoRequest /\ stored.op \in {NoRequest, i} \cup crossed
  BY <1>a, <1>n, <1>c DEF P!serverVars, P!leftVars, Awaited, Remembered, P!TypeOK, P!IdentifiersDiffer
<1>g. /\ stored' \in [op : Intents \cup {NoRequest}, language : P!Sessions]
      /\ stored'.op = i /\ stored'.language = stored.language
      /\ command' \in [pending : Intents \cup {NoRequest}, sending : BOOLEAN]
      /\ command'.pending = i /\ command'.sending
  BY <1>a DEF P!SendIntent, P!TypeOK
<1>h. /\ told' \in [Intents -> {"unasked", "none", "accepted", "refused", "withdrawn"}]
      /\ \A j \in Intents : j # i => told'[j] = told[j]
      /\ told'[i] \in {"none", told[i]}
  BY <1>a DEF P!TypeOK
<1>1. P!TypeOK'
  BY <1>a, <1>f, <1>g, <1>h DEF P!TypeOK
<1>2. CallsFit'
  BY <1>a, <1>f, <1>g DEF CallsFit, Fits, P!TypeOK, Ops, Words
<1>3. OthersAreLoose'
  BY <1>a, <1>f DEF OthersAreLoose
<1>4. OneOut'
  BY <1>a, <1>f DEF OneOut, P!Mine, Ops
<1>5. Awaited'
  BY <1>a, <1>f, <1>g DEF Awaited, P!Mine, Ops, Words
<1>6. Remembered'
  BY <1>a, <1>f, <1>g DEF Remembered, P!Mine, Ops
<1>7. Settling'
  BY <1>a, <1>f, <1>g, <1>h DEF Settling
<1>8. P!NothingIsForgotten'
  BY <1>a, <1>f, <1>g, <1>h DEF P!NothingIsForgotten, P!IdentifiersDiffer
<1>9. P!ToldIsTrue'
  BY <1>a, <1>f, <1>h DEF P!ToldIsTrue
<1>10. AnswersHold'
  BY <1>a, <1>f DEF AnswersHold, Words
<1>11. SessionHolds'
  BY <1>a, <1>f, <1>g DEF SessionHolds
<1>12. Given'
  BY <1>a, <1>f DEF Given
<1> QED BY <1>1, <1>2, <1>3, <1>4, <1>5, <1>6, <1>7, <1>8, <1>9, <1>10, <1>11, <1>12 DEF PageInv

\* Waiting for fresh views changes nothing else.
LEMMA CheckKeeps ==
  ASSUME P!IdentifiersDiffer, PageInv,
         UNCHANGED <<visit, stored, command, language, calls, P!serverVars, told, answered, loose,
                     crossed>>,
         checking' \in BOOLEAN, abandoned' \subseteq abandoned
  PROVE  PageInv'
<1>a. /\ P!TypeOK /\ CallsFit /\ OthersAreLoose /\ OneOut /\ Awaited
      /\ Remembered /\ Settling /\ P!NothingIsForgotten /\ P!ToldIsTrue
      /\ AnswersHold /\ SessionHolds /\ Given
  BY DEF PageInv
<1>f. /\ UNCHANGED <<visit, stored, command, language,
                     calls, committed, served, told, answered, loose, crossed>>
      /\ checking' \in BOOLEAN /\ abandoned' \subseteq abandoned
  BY DEF P!serverVars
<1>1. P!TypeOK'
  BY <1>a, <1>f DEF P!TypeOK
<1>2. CallsFit'
  BY <1>a, <1>f DEF CallsFit, Fits
<1>3. OthersAreLoose'
  BY <1>a, <1>f DEF OthersAreLoose
<1>4. OneOut'
  BY <1>a, <1>f DEF OneOut, P!Mine
<1>5. Awaited'
  BY <1>a, <1>f DEF Awaited, P!Mine
<1>6. Remembered'
  BY <1>a, <1>f DEF Remembered, P!Mine
<1>7. Settling'
  BY <1>a, <1>f DEF Settling
<1>8. P!NothingIsForgotten'
  BY <1>a, <1>f DEF P!NothingIsForgotten
<1>9. P!ToldIsTrue'
  BY <1>a, <1>f DEF P!ToldIsTrue
<1>10. AnswersHold'
  BY <1>a, <1>f DEF AnswersHold
<1>11. SessionHolds'
  BY <1>a, <1>f DEF SessionHolds
<1>12. Given'
  BY <1>a, <1>f DEF Given
<1> QED BY <1>1, <1>2, <1>3, <1>4, <1>5, <1>6, <1>7, <1>8, <1>9, <1>10, <1>11, <1>12 DEF PageInv

\* A page that was left sends its intent after all: it is stored, but the page the user sees
\* goes on as before.
LEMMA LateKeeps ==
  ASSUME P!IdentifiersDiffer, PageInv, NEW i \in Intents, NEW l \in abandoned,
         P!CheckedLate(l, i)
  PROVE  PageInv'
<1>a. /\ P!TypeOK /\ CallsFit /\ OthersAreLoose /\ OneOut /\ Awaited
      /\ Remembered /\ Settling /\ P!NothingIsForgotten /\ P!ToldIsTrue
      /\ AnswersHold /\ SessionHolds /\ Given
  BY DEF PageInv
<1>u. /\ UNCHANGED <<visit, command, checking, language, committed, served, answered>>
      /\ abandoned' \subseteq abandoned /\ told[i] = "unasked"
  BY DEF P!CheckedLate, P!serverVars
<1>s. CASE UNCHANGED <<stored, calls, told, loose, crossed>>
  BY <1>a, <1>u, <1>s, CheckKeeps DEF P!serverVars, P!TypeOK
<1>t. CASE /\ stored' = [stored EXCEPT !.op = i]
           /\ calls' = calls \cup {[P!Call("operate", i) EXCEPT !.from = l]}
           /\ told' = [told EXCEPT ![i] = "none"]
           /\ loose' = loose \cup {i} /\ crossed' = crossed \cup ({i, stored.op} \ {NoRequest})
  <2> DEFINE k == P!Call("operate", i)
             n == [k EXCEPT !.from = l]
  <2>k. k \in P!CallType /\ k.kind = "operate" /\ k.id = i /\ k.state = "out"
    BY <1>a, CallFields DEF P!Kinds
  <2>l. l \in Nat /\ l < visit
    BY <1>a DEF P!TypeOK
  <2> HIDE DEF k
  <2>n. /\ n \in P!CallType /\ n.kind = "operate" /\ n.id = i /\ n.from = l /\ n.state = "out"
        /\ calls' = calls \cup {n}
    BY <1>t, <2>k, <2>l DEF P!CallType, k
  <2> HIDE DEF n
  <2>g. /\ stored' \in [op : Intents \cup {NoRequest}, language : P!Sessions]
        /\ stored'.op = i /\ stored'.language = stored.language
        /\ i \in crossed' /\ (stored.op # NoRequest => stored.op \in crossed')
        /\ crossed \subseteq crossed' /\ crossed' \subseteq Intents
        /\ i \in loose' /\ loose \subseteq loose' /\ loose' \subseteq loose \cup {i}
        /\ i # NoRequest /\ i \notin Requests
    BY <1>a, <1>t DEF P!TypeOK, P!IdentifiersDiffer
  <2>h. /\ told' \in [Intents -> {"unasked", "none", "accepted", "refused", "withdrawn"}]
        /\ \A j \in Intents : j # i => told'[j] = told[j]
        /\ told'[i] = "none"
    BY <1>a, <1>t DEF P!TypeOK
  <2>m. ~P!Mine(n)
    BY <1>a, <2>l, <2>n DEF P!Mine
  <2>1. P!TypeOK'
    BY <1>a, <1>u, <2>n, <2>g, <2>h DEF P!TypeOK
  <2>2. CallsFit'
    BY <1>a, <1>u, <2>l, <2>n, <2>g DEF CallsFit, Fits, P!TypeOK, Ops, Words
  <2>3. OthersAreLoose'
    BY <1>a, <1>u, <2>n, <2>g DEF OthersAreLoose
  <2>4. OneOut'
    BY <1>a, <1>u, <2>m, <2>n DEF OneOut, P!Mine
  <2>5. Awaited'
    BY <1>a, <1>u, <2>m, <2>n DEF Awaited, P!Mine
  <2>6. Remembered'
    BY <1>a, <1>u, <2>g DEF Remembered
  <2>7. Settling'
    BY <1>a, <1>u, <2>n, <2>g, <2>h DEF Settling
  <2>8. P!NothingIsForgotten'
    BY <1>a, <1>u, <2>g, <2>h DEF P!NothingIsForgotten, P!IdentifiersDiffer
  <2>9. P!ToldIsTrue'
    BY <1>a, <1>u, <2>g, <2>h DEF P!ToldIsTrue
  <2>10. AnswersHold'
    BY <1>a, <1>u, <2>n, <2>g DEF AnswersHold, Words
  <2>11. SessionHolds'
    BY <1>a, <1>u, <2>g DEF SessionHolds
  <2>12. Given'
    BY <1>a, <1>u, <2>g DEF Given
  <2> QED BY <2>1, <2>2, <2>3, <2>4, <2>5, <2>6, <2>7, <2>8, <2>9, <2>10, <2>11, <2>12 DEF PageInv
<1> QED BY <1>s, <1>t DEF P!CheckedLate

\* Whether a request was committed is asked when its call went astray.
LEMMA DiscardKeeps ==
  ASSUME P!IdentifiersDiffer, PageInv, P!Discard
  PROVE  PageInv'
<1>a. /\ P!TypeOK /\ CallsFit /\ OthersAreLoose /\ OneOut /\ Awaited
      /\ Remembered /\ Settling /\ P!NothingIsForgotten /\ P!ToldIsTrue
      /\ AnswersHold /\ SessionHolds /\ Given
  BY DEF PageInv
<1> DEFINE n == P!Call("discard", command.pending)
<1>n. n \in P!CallType /\ n.kind = "discard" /\ n.id = command.pending /\ n.from = visit
      /\ n.state = "out" /\ command.pending \in Intents
  <2>1. command.pending \in Intents
    BY <1>a DEF P!Discard, P!TypeOK
  <2> QED BY <1>a, <2>1, CallFields DEF P!Kinds
<1>c. calls' = calls \cup {n}
  BY DEF P!Discard
<1> HIDE DEF n
<1>f. /\ UNCHANGED <<visit, stored, checking, language, committed, served, told, answered, loose,
                     abandoned, crossed>>
      /\ calls' = calls \cup {n}
      /\ n \in P!CallType /\ n.kind = "discard" /\ n.id = command.pending /\ n.from = visit
      /\ n.state = "out" /\ command.pending \in Intents
      /\ \A x \in calls : x \in P!CallType /\ (P!Mine(x) => x.kind \notin Ops)
  BY <1>a, <1>n, <1>c DEF P!serverVars, P!leftVars, Awaited, P!TypeOK, P!Discard
<1>g. /\ command' \in [pending : Intents \cup {NoRequest}, sending : BOOLEAN]
      /\ command'.pending = command.pending /\ command'.sending
  BY <1>a DEF P!Discard, P!TypeOK
<1>1. P!TypeOK'
  BY <1>a, <1>f, <1>g DEF P!TypeOK
<1>2. CallsFit'
  BY <1>a, <1>f DEF CallsFit, Fits, P!TypeOK, Ops, Words
<1>3. OthersAreLoose'
  BY <1>a, <1>f DEF OthersAreLoose
<1>4. OneOut'
  BY <1>a, <1>f DEF OneOut, P!Mine, Ops
<1>5. Awaited'
  BY <1>a, <1>f, <1>g DEF Awaited, P!Mine, Ops, Words
<1>6. Remembered'
  BY <1>a, <1>f, <1>g DEF Remembered, P!Mine, Ops
<1>7. Settling'
  BY <1>a, <1>f, <1>g DEF Settling
<1>8. P!NothingIsForgotten'
  BY <1>a, <1>f DEF P!NothingIsForgotten
<1>9. P!ToldIsTrue'
  BY <1>a, <1>f DEF P!ToldIsTrue
<1>10. AnswersHold'
  BY <1>a, <1>f DEF AnswersHold, Words
<1>11. SessionHolds'
  BY <1>a, <1>f DEF SessionHolds
<1>12. Given'
  BY <1>a, <1>f DEF Given
<1> QED BY <1>1, <1>2, <1>3, <1>4, <1>5, <1>6, <1>7, <1>8, <1>9, <1>10, <1>11, <1>12 DEF PageInv

\* What an answer means is the last word on its intent, or another call of it went astray.
LEMMA CommandAnswerKeeps ==
  ASSUME P!IdentifiersDiffer, PageInv, NEW c \in calls, P!CommandAnswer(c)
  PROVE  PageInv'
<1>a. /\ P!TypeOK /\ CallsFit /\ OthersAreLoose /\ OneOut /\ Awaited
      /\ Remembered /\ Settling /\ P!NothingIsForgotten /\ P!ToldIsTrue
      /\ AnswersHold /\ SessionHolds /\ Given
  BY DEF PageInv
<1>c. /\ c \in P!CallType /\ c.kind \in Ops /\ c.state = "back" /\ c.id \in Intents
      /\ c.id # NoRequest
      /\ c.answer \in {"ok", "refused", "missing"}
      /\ P!Meaning(c) \in {"accepted", "refused", "withdrawn"}
      /\ (P!Meaning(c) = "accepted") <=> (c.answer = "ok")
  <2>1. c \in P!CallType /\ c.kind \in Ops /\ c.state = "back" /\ c.id \in Intents
    BY <1>a DEF P!CommandAnswer, P!TypeOK, CallsFit, Fits, Ops
  <2>2. \/ c.kind = "operate" /\ c.answer \in {"ok", "refused"}
        \/ c.kind = "discard" /\ c.answer \in {"ok", "missing"}
    BY <1>a, <2>1 DEF CallsFit, Fits, Ops
  <2>3. P!Meaning(c) = IF c.answer = "ok" THEN "accepted"
                     ELSE IF c.kind = "operate" THEN "refused" ELSE "withdrawn"
    BY <2>2 DEF P!Meaning
  <2> QED BY <2>1, <2>2, <2>3 DEF P!IdentifiersDiffer
<1>f. /\ UNCHANGED <<visit, checking, language, committed, served, loose, abandoned, crossed>>
      /\ calls' = calls \ {c}
      /\ answered' = answered \cup {c.id}
      /\ stored' \in [op : Intents \cup {NoRequest}, language : P!Sessions]
      /\ stored'.language = stored.language
      /\ stored'.op = IF stored.op = c.id THEN NoRequest ELSE stored.op
      /\ told' \in [Intents -> {"unasked", "none", "accepted", "refused", "withdrawn"}]
      /\ \A j \in Intents : j # c.id => told'[j] = told[j]
      /\ P!Mine(c) => told'[c.id] = P!Meaning(c)
      /\ ~P!Mine(c) => told' = told
  <2>1. P!Meaning(c) # "none"
    BY <1>c
  <2>2. /\ stored' = P!Forgotten(c.id) /\ answered' = answered \cup {c.id}
        /\ told' = IF P!Mine(c) THEN [told EXCEPT ![c.id] = P!Meaning(c)] ELSE told
        /\ UNCHANGED <<visit, checking, language, committed, served, loose, abandoned, crossed>>
        /\ calls' = calls \ {c}
    BY <2>1 DEF P!CommandAnswer, P!serverVars, P!leftVars
  <2>3. /\ stored' \in [op : Intents \cup {NoRequest}, language : P!Sessions]
        /\ stored'.language = stored.language
        /\ stored'.op = IF stored.op = c.id THEN NoRequest ELSE stored.op
    BY <1>a, <2>2 DEF P!Forgotten, P!TypeOK
  <2>4. /\ told' \in [Intents -> {"unasked", "none", "accepted", "refused", "withdrawn"}]
        /\ \A j \in Intents : j # c.id => told'[j] = told[j]
        /\ P!Mine(c) => told'[c.id] = P!Meaning(c)
        /\ ~P!Mine(c) => told' = told
    BY <1>a, <1>c, <2>2 DEF P!TypeOK
  <2> QED BY <2>2, <2>3, <2>4
<1>g. /\ command' \in [pending : Intents \cup {NoRequest}, sending : BOOLEAN]
      /\ ~P!Mine(c) => command' = command
      /\ P!Mine(c) => command'.pending = NoRequest /\ command.pending = c.id
  <2>1. P!Mine(c) => command.pending = c.id
    BY <1>a, <1>c DEF Awaited
  <2>2. command' = IF ~P!Mine(c) THEN command
                   ELSE [command EXCEPT !.sending = FALSE, !.pending = NoRequest]
    BY <1>c DEF P!CommandAnswer
  <2> QED BY <1>a, <2>1, <2>2 DEF P!TypeOK
<1>h. \A d \in calls : c.id \notin loose /\ d.kind \in Ops /\ d.id = c.id => d = c
  <2> SUFFICES ASSUME NEW d \in calls, c.id \notin loose, d.kind \in Ops, d.id = c.id
               PROVE  d = c
    OBVIOUS
  <2>1. P!Mine(c) /\ P!Mine(d)
    BY <1>a DEF OthersAreLoose, P!Mine
  <2> QED BY <1>a, <1>c, <2>1 DEF OneOut
<1>i. c.id \notin loose => P!Mine(c)
  BY <1>a DEF OthersAreLoose, P!Mine
<1>j. P!Mine(c) => \A d \in calls : P!Mine(d) /\ d.kind \in Ops => d = c
  BY <1>a, <1>c DEF OneOut
<1>1. P!TypeOK'
  BY <1>a, <1>c, <1>f, <1>g DEF P!TypeOK
<1>2. CallsFit'
  BY <1>a, <1>f DEF CallsFit, Fits
<1>3. OthersAreLoose'
  BY <1>a, <1>f DEF OthersAreLoose
<1>4. OneOut'
  BY <1>a, <1>f DEF OneOut, P!Mine
<1>5. Awaited'
  BY <1>a, <1>c, <1>f, <1>g, <1>j DEF Awaited, P!Mine
<1>6. Remembered'
  <2>1. CASE P!Mine(c)
    <3>1. ASSUME stored'.op # NoRequest
          PROVE  stored.op \in crossed /\ stored.op \in loose
      <4>1. stored.op # NoRequest /\ stored.op # c.id /\ stored'.op = stored.op
        BY <1>f, <3>1
      <4>2. ~\E d \in calls : P!Mine(d) /\ d.kind \in Ops /\ d.id = stored.op
        BY <1>j, <2>1, <4>1
      <4> QED BY <1>a, <1>g, <2>1, <4>1, <4>2 DEF Remembered
    <3>2. stored'.op # NoRequest => stored'.op \in crossed' /\ stored'.op \in loose'
      BY <1>f, <3>1
    <3> QED BY <1>g, <2>1, <3>2 DEF Remembered
  <2>2. CASE ~P!Mine(c)
    BY <1>a, <1>c, <1>f, <1>g, <2>2 DEF Remembered, P!Mine
  <2> QED BY <2>1, <2>2
<1>7. Settling'
  <2>1. \A d \in calls' : d.kind \in Ops /\ d.state = "back" =>
          /\ d.answer = "ok" => d.id \in committed'
          /\ d.answer # "ok" /\ d.id \in committed' => d.id \in loose'
    BY <1>a, <1>f DEF Settling
  <2>2. ASSUME NEW i \in Intents \ loose', told'[i] \in {"accepted", "refused", "withdrawn"}
        PROVE  (\A d \in calls' : d.kind \in Ops => d.id # i) /\ command'.pending # i
    <3>1. CASE i = c.id
      BY <1>c, <1>f, <1>g, <1>h, <1>i, <2>2, <3>1
    <3>2. CASE i # c.id
      BY <1>a, <1>f, <1>g, <2>2, <3>2 DEF Settling, P!IdentifiersDiffer
    <3> QED BY <3>1, <3>2
  <2> QED BY <2>1, <2>2 DEF Settling
<1>8. P!NothingIsForgotten'
  BY <1>a, <1>c, <1>f DEF P!NothingIsForgotten
<1>9. P!ToldIsTrue'
  <2> SUFFICES ASSUME NEW i \in Intents
               PROVE  /\ told'[i] = "accepted" => i \in committed
                      /\ told'[i] \in {"refused", "withdrawn"} /\ i \in committed => i \in loose
    BY <1>f DEF P!ToldIsTrue
  <2>1. CASE i = c.id /\ P!Mine(c)
    BY <1>a, <1>c, <1>f, <2>1 DEF Settling
  <2>2. CASE ~(i = c.id /\ P!Mine(c))
    BY <1>a, <1>f, <2>2 DEF P!ToldIsTrue
  <2> QED BY <2>1, <2>2
<1>10. AnswersHold'
  BY <1>a, <1>f DEF AnswersHold
<1>11. SessionHolds'
  BY <1>a, <1>f DEF SessionHolds
<1>12. Given'
  BY <1>a, <1>f DEF Given
<1> QED BY <1>1, <1>2, <1>3, <1>4, <1>5, <1>6, <1>7, <1>8, <1>9, <1>10, <1>11, <1>12 DEF PageInv

\* A request in words is kept and sent when no other is uncertain.
LEMMA WordsKeep ==
  ASSUME P!IdentifiersDiffer, PageInv, ~language.flight,
         NEW n \in P!CallType, n.kind \in Words, n.id \in Requests, n.from = visit, n.state = "out",
         calls' = calls \cup {n},
         stored' \in [op : Intents \cup {NoRequest}, language : P!Sessions], stored'.op = stored.op,
         stored'.language = language'.session,
         language' \in [session : P!Sessions, response : P!Statuses \cup {NoRequest},
                        flight : BOOLEAN,
                        issue : BOOLEAN, rejected : BOOLEAN],
         language'.session.id = n.id, language'.session.action \in Words,
         language'.flight, ~language'.rejected,
         language'.response # NoRequest =>
           language'.response = language.response /\ language.session.id = n.id,
         n.kind = "confirm" => served[n.id] \in {"ready", "done"},
         language'.session.action = "confirm" => served[n.id] \in {"ready", "done"},
         language'.session.action = "lookup" => served[n.id] \in P!Settled,
         language.session.id \in Requests \ (loose \cup {n.id}) =>
           served[language.session.id] \notin {"interpreting", "prepared"},
         UNCHANGED <<visit, command, checking, P!serverVars, told, answered, loose,
                   P!leftVars>>
  PROVE  PageInv'
<1>a. /\ P!TypeOK /\ CallsFit /\ OthersAreLoose /\ OneOut /\ Awaited
      /\ Remembered /\ Settling /\ P!NothingIsForgotten /\ P!ToldIsTrue
      /\ AnswersHold /\ SessionHolds /\ Given
  BY DEF PageInv
<1>f. /\ UNCHANGED <<visit, command, checking, committed, served, told, answered, loose,
                     abandoned, crossed>>
      /\ \A x \in calls : x \in P!CallType /\ (P!Mine(x) => x.kind \notin Words)
      /\ n.id # NoRequest /\ n.kind \notin Ops
  BY <1>a DEF P!serverVars, P!leftVars, Awaited, P!TypeOK, P!IdentifiersDiffer, Ops, Words
<1>k. \A x \in calls : P!Mine(x) => x.kind \in Ops
  BY <1>f DEF P!CallType, P!Kinds, Ops, Words
<1>1. P!TypeOK'
  BY <1>a, <1>f DEF P!TypeOK
<1>2. CallsFit'
  BY <1>a, <1>f DEF CallsFit, Fits, P!TypeOK, Ops, Words
<1>3. OthersAreLoose'
  BY <1>a, <1>f DEF OthersAreLoose
<1>4. OneOut'
  BY <1>a, <1>f, <1>k DEF OneOut, P!Mine
<1>5. Awaited'
  BY <1>a, <1>f, <1>k DEF Awaited, P!Mine, Ops, Words
<1>6. Remembered'
  BY <1>a, <1>f DEF Remembered, P!Mine
<1>7. Settling'
  BY <1>a, <1>f DEF Settling
<1>8. P!NothingIsForgotten'
  BY <1>a, <1>f DEF P!NothingIsForgotten
<1>9. P!ToldIsTrue'
  BY <1>a, <1>f DEF P!ToldIsTrue
<1>10. AnswersHold'
  BY <1>a, <1>f DEF AnswersHold
<1>11. SessionHolds'
  <2>1. n.id # NoRequest /\ language'.session.id = n.id /\ ~language'.rejected /\ served' = served
    BY <1>f
  <2>2. stored'.language = language'.session
    OBVIOUS
  <2>3. ASSUME language'.response # NoRequest
        PROVE  /\ served[n.id] # "absent"
               /\ language'.response \in Terminal => served[n.id] = language'.response
               /\ language'.response = "ready" => served[n.id] \in {"ready", "done"}
    <3>1. language'.response = language.response /\ language.session.id = n.id
      BY <2>3
    <3> QED BY <1>a, <2>1, <2>3, <3>1 DEF SessionHolds
  <2>4. NoRequest \notin Terminal \cup {"ready"}
    BY DEF P!IdentifiersDiffer, P!Statuses, Terminal
  <2> QED BY <2>1, <2>2, <2>3, <2>4 DEF SessionHolds
<1>12. Given'
  BY <1>a, <1>f DEF Given
<1> QED BY <1>1, <1>2, <1>3, <1>4, <1>5, <1>6, <1>7, <1>8, <1>9, <1>10, <1>11, <1>12 DEF PageInv

\* A new request takes the place of one that is settled.
LEMMA SubmitKeeps ==
  ASSUME P!IdentifiersDiffer, PageInv, NEW r \in Requests, P!Submit(r)
  PROVE  PageInv'
<1>a. /\ P!TypeOK /\ CallsFit /\ OthersAreLoose /\ OneOut /\ Awaited
      /\ Remembered /\ Settling /\ P!NothingIsForgotten /\ P!ToldIsTrue
      /\ AnswersHold /\ SessionHolds /\ Given
  BY DEF PageInv
<1> DEFINE s == [id |-> r, action |-> "submit"]
           n == P!Performed(s, FALSE, visit)
<1>1. s \in P!Sessions /\ s.id = r /\ s.action = "submit"
  BY DEF P!Sessions, P!Kinds
<1>2. n = [P!Call("submit", r) EXCEPT !.from = visit]
  BY DEF P!Performed
<1>3. n \in P!CallType /\ n.kind = "submit" /\ n.id = r /\ n.from = visit /\ n.state = "out"
  <2> HIDE DEF n, s
  <2>1. "submit" \in P!Kinds
    BY DEF P!Kinds
  <2> QED BY <1>a, <1>2, <2>1, CallFields DEF P!CallType, P!TypeOK
<1>4. /\ ~language.flight /\ stored' = [stored EXCEPT !.language = s] /\ calls' = calls \cup {n}
      /\ language' = [P!Quiet(s) EXCEPT !.flight = TRUE]
      /\ UNCHANGED <<visit, command, checking, P!serverVars, told, answered, loose,
                   P!leftVars>>
      /\ ~P!Uncertain
  BY DEF P!Submit, P!Begin, P!LanguageLocked
<1> HIDE DEF s, n
<1>5. /\ stored' \in [op : Intents \cup {NoRequest}, language : P!Sessions]
      /\ stored'.op = stored.op
      /\ stored'.language = s
  BY <1>a, <1>1, <1>4 DEF P!TypeOK
<1>6. /\ language' \in [session : P!Sessions, response : P!Statuses \cup {NoRequest},
                        flight : BOOLEAN,
                        issue : BOOLEAN, rejected : BOOLEAN]
      /\ language'.session = s /\ language'.response = NoRequest
      /\ language'.flight /\ ~language'.rejected
  BY <1>1, <1>4 DEF P!Quiet
<1>7. ASSUME language.session.id \in Requests \ (loose \cup {r})
      PROVE  served[language.session.id] \notin {"interpreting", "prepared"}
  <2>1. language.session.id # NoRequest
    BY <1>7 DEF P!IdentifiersDiffer
  <2>2. CASE language.rejected
    BY <1>a, <1>7, <2>1, <2>2 DEF SessionHolds
  <2>3. CASE language.response \in P!Settled
    BY <1>a, <2>1, <2>3 DEF SessionHolds, P!Settled, P!Statuses, Terminal
  <2>4. language.rejected \/ language.response \notin {NoRequest, "interpreting", "prepared"}
    BY <1>4, <2>1 DEF P!Uncertain
  <2> QED BY <1>a, <2>2, <2>3, <2>4 DEF P!TypeOK, P!Settled
<1> QED BY <1>a, <1>1, <1>3, <1>4, <1>5, <1>6, <1>7, WordsKeep DEF Words

\* What the page shows as ready is confirmed.
LEMMA PageConfirmKeeps ==
  ASSUME P!IdentifiersDiffer, PageInv, P!Confirm
  PROVE  PageInv'
<1>a. /\ P!TypeOK /\ CallsFit /\ OthersAreLoose /\ OneOut /\ Awaited
      /\ Remembered /\ Settling /\ P!NothingIsForgotten /\ P!ToldIsTrue
      /\ AnswersHold /\ SessionHolds /\ Given
  BY DEF PageInv
<1> DEFINE s == [id |-> language.session.id, action |-> "confirm"]
           n == P!Performed(s, FALSE, visit)
<1>0. /\ language.session.id \in Requests /\ served[language.session.id] \in {"ready", "done"}
  <2>1. language.response = "ready"
    BY DEF P!Confirm
  <2>2. language.session.id # NoRequest
    BY <1>a, <2>1 DEF SessionHolds, P!IdentifiersDiffer, P!Statuses
  <2> QED BY <1>a, <2>1, <2>2 DEF SessionHolds, P!TypeOK, P!Sessions
<1>1. s \in P!Sessions /\ s.id = language.session.id /\ s.action = "confirm"
  BY <1>0 DEF P!Sessions, P!Kinds
<1>2. n = [P!Call("confirm", s.id) EXCEPT !.from = visit]
  BY DEF P!Performed
<1>3. n \in P!CallType /\ n.kind = "confirm" /\ n.id = s.id /\ n.from = visit /\ n.state = "out"
  <2>1. "confirm" \in P!Kinds /\ s.id \in Requests
    BY <1>0, <1>1 DEF P!Kinds
  <2> HIDE DEF n, s
  <2> QED BY <1>a, <1>2, <2>1, CallFields DEF P!CallType, P!TypeOK
<1>4. /\ ~language.flight /\ stored' = [stored EXCEPT !.language = s] /\ calls' = calls \cup {n}
      /\ language' = [P!Quiet(s) EXCEPT !.flight = TRUE]
      /\ UNCHANGED <<visit, command, checking, P!serverVars, told, answered, loose,
                   P!leftVars>>
  BY DEF P!Confirm, P!Begin
<1> HIDE DEF s, n
<1>5. /\ stored' \in [op : Intents \cup {NoRequest}, language : P!Sessions]
      /\ stored'.op = stored.op
      /\ stored'.language = s
  BY <1>a, <1>1, <1>4 DEF P!TypeOK
<1>6. /\ language' \in [session : P!Sessions, response : P!Statuses \cup {NoRequest},
                        flight : BOOLEAN,
                        issue : BOOLEAN, rejected : BOOLEAN]
      /\ language'.session = s /\ language'.response = NoRequest
      /\ language'.flight /\ ~language'.rejected
  BY <1>1, <1>4 DEF P!Quiet
<1> QED BY <1>a, <1>0, <1>1, <1>3, <1>4, <1>5, <1>6, WordsKeep DEF Words

\* An uncertain request is sent or looked up again.
LEMMA AgainKeeps ==
  ASSUME P!IdentifiersDiffer, PageInv, NEW lookup \in BOOLEAN,
         P!Perform(language.session, lookup), language.session.id # NoRequest,
         UNCHANGED <<visit, stored, command, checking, P!serverVars, told, answered, loose,
                     P!leftVars>>
  PROVE  PageInv'
<1>a. /\ P!TypeOK /\ CallsFit /\ OthersAreLoose /\ OneOut /\ Awaited
      /\ Remembered /\ Settling /\ P!NothingIsForgotten /\ P!ToldIsTrue
      /\ AnswersHold /\ SessionHolds /\ Given
  BY DEF PageInv
<1> DEFINE n == P!Performed(language.session, lookup, visit)
           kind == IF lookup THEN "lookup" ELSE language.session.action
<1>0. language.session \in P!Sessions /\ language.session.id \in Requests /\ kind \in Words
  BY <1>a DEF P!TypeOK, P!Sessions, CallsFit, Words
<1>2. n = [P!Call(kind, language.session.id) EXCEPT !.from = visit]
  BY DEF P!Performed
<1>3. n \in P!CallType /\ n.kind = kind /\ n.id = language.session.id /\ n.from = visit
      /\ n.state = "out"
  <2>1. kind \in P!Kinds
    BY <1>0 DEF P!Kinds, Words
  <2> HIDE DEF n, kind
  <2> QED BY <1>a, <1>0, <1>2, <2>1, CallFields DEF P!CallType, P!TypeOK
<1>4. /\ ~language.flight /\ calls' = calls \cup {n}
      /\ language' = [language EXCEPT !.flight = TRUE, !.issue = FALSE, !.rejected = FALSE]
  BY DEF P!Perform
<1>5. n.kind = "confirm" => served[n.id] \in {"ready", "done"}
  BY <1>a, <1>0, <1>3 DEF SessionHolds
<1> HIDE DEF n, kind
<1>6. /\ language' \in [session : P!Sessions, response : P!Statuses \cup {NoRequest},
                        flight : BOOLEAN,
                        issue : BOOLEAN, rejected : BOOLEAN]
      /\ language'.session = language.session /\ language'.response = language.response
      /\ language'.flight /\ ~language'.rejected
  BY <1>a, <1>4 DEF P!TypeOK
<1>7. /\ stored' \in [op : Intents \cup {NoRequest}, language : P!Sessions]
      /\ stored'.op = stored.op
      /\ stored'.language = language'.session
  BY <1>a, <1>6 DEF P!TypeOK, SessionHolds
<1>8. /\ language'.session.action \in Words
      /\ language'.session.action = "confirm" => served[n.id] \in {"ready", "done"}
      /\ language'.session.action = "lookup" => served[n.id] \in P!Settled
  BY <1>a, <1>3, <1>6 DEF SessionHolds, CallsFit
<1> QED BY <1>a, <1>0, <1>3, <1>4, <1>5, <1>6, <1>7, <1>8, WordsKeep

\* What the page learns of its request in words is true, and never undone.
LEMMA LanguageAnswerKeeps ==
  ASSUME P!IdentifiersDiffer, PageInv, NEW c \in calls, P!LanguageAnswer(c)
  PROVE  PageInv'
<1>a. /\ P!TypeOK /\ CallsFit /\ OthersAreLoose /\ OneOut /\ Awaited
      /\ Remembered /\ Settling /\ P!NothingIsForgotten /\ P!ToldIsTrue
      /\ AnswersHold /\ SessionHolds /\ Given
  BY DEF PageInv
<1>c. /\ c \in P!CallType /\ c.kind \in Words /\ c.kind \notin Ops /\ c.state = "back"
      /\ c.id \in Requests /\ c.id # NoRequest
  BY <1>a DEF P!LanguageAnswer, P!TypeOK, CallsFit, Fits, Words, Ops, P!IdentifiersDiffer
<1>j. P!Mine(c) => /\ language.flight /\ c.id = language.session.id
                 /\ \A d \in calls : P!Mine(d) /\ d.kind \in Words => d = c
  <2>1. ASSUME P!Mine(c), NEW d \in calls, P!Mine(d), d.kind \in Words
        PROVE  d = c
    <3>1. d.kind \notin Ops
      BY <2>1 DEF Words, Ops
    <3> QED BY <1>a, <1>c, <2>1, <3>1 DEF OneOut
  <2> QED BY <1>a, <1>c, <2>1 DEF Awaited
<1>f. /\ UNCHANGED <<visit, command, checking, committed, served, told, answered, loose,
                     abandoned, crossed>>
      /\ calls' = calls \ {c}
      /\ ~P!Mine(c) => UNCHANGED <<language, stored>>
  BY DEF P!LanguageAnswer, P!serverVars, P!leftVars
<1>g. /\ language' \in [session : P!Sessions, response : P!Statuses \cup {NoRequest},
                        flight : BOOLEAN,
                        issue : BOOLEAN, rejected : BOOLEAN]
      /\ stored' \in [op : Intents \cup {NoRequest}, language : P!Sessions]
      /\ stored'.op = stored.op
      /\ language'.session.id = language.session.id
      /\ language'.session.action \in Words /\ stored'.language = language'.session
      /\ P!Mine(c) => ~language'.flight
      /\ SessionHolds'
  <2>0. stored.op \in Intents \cup {NoRequest} /\ stored.language = language.session
        /\ language.session \in P!Sessions /\ language.session.action \in Words
    BY <1>a DEF P!TypeOK, SessionHolds, CallsFit
  <2>1. CASE ~P!Mine(c)
    BY <1>a, <1>f, <2>0, <2>1 DEF P!TypeOK, SessionHolds
  <2>2. CASE P!Mine(c) /\ c.answer \in P!Statuses
    <3> DEFINE k == P!Kept(language.session, c.answer)
    <3>1. /\ language' = [language EXCEPT !.flight = FALSE, !.response = c.answer, !.session = k]
          /\ stored' = [stored EXCEPT !.language = k]
      BY <2>2 DEF P!LanguageAnswer
    <3>2. /\ k \in P!Sessions /\ k.id = language.session.id
          /\ k.action = IF c.answer \in P!Settled THEN "lookup" ELSE language.session.action
      BY <2>0 DEF P!Kept, P!Sessions, P!Kinds
    <3> HIDE DEF k
    <3>3. /\ language' \in [session : P!Sessions, response : P!Statuses \cup {NoRequest},
                            flight : BOOLEAN,
                            issue : BOOLEAN, rejected : BOOLEAN]
          /\ language'.session = k /\ language'.response = c.answer /\ ~language'.flight
          /\ language'.rejected = language.rejected
      BY <1>a, <2>2, <3>1, <3>2 DEF P!TypeOK
    <3>4. stored' \in [op : Intents \cup {NoRequest}, language : P!Sessions]
          /\ stored'.op = stored.op
          /\ stored'.language = k
      BY <1>a, <3>1, <3>2 DEF P!TypeOK
    <3>5. ~language.rejected
      BY <1>a, <1>j, <2>2 DEF SessionHolds
    <3>6. /\ served[c.id] # "absent"
          /\ c.answer \in Terminal => served[c.id] = c.answer
          /\ c.answer = "ready" => served[c.id] \in {"ready", "done"}
          /\ c.answer \in P!Settled => served[c.id] \in P!Settled
      <4>1. /\ served[c.id] # "absent"
            /\ c.answer \in Terminal => served[c.id] = c.answer
            /\ c.answer = "ready" => served[c.id] \in {"ready", "done"}
        BY <1>a, <1>c, <2>2 DEF AnswersHold
      <4> QED BY <4>1 DEF Terminal, P!Settled, P!Statuses
    <3>7. c.answer # NoRequest
      BY <2>2 DEF P!IdentifiersDiffer
    <3>8. k.action \in Words
      BY <2>0, <3>2 DEF Words
    <3>9. /\ k.action = "confirm" => served[c.id] \in {"ready", "done"}
          /\ k.action = "lookup" => served[c.id] \in P!Settled
      BY <1>a, <1>c, <1>j, <2>2, <3>2, <3>6 DEF SessionHolds
    <3> QED BY <1>c, <1>f, <1>j, <2>2, <3>2, <3>3, <3>4, <3>5, <3>6, <3>7, <3>8, <3>9
       DEF SessionHolds
  <2>3. CASE P!Mine(c) /\ c.answer \notin P!Statuses
    <3> DEFINE z == \/ /\ c.kind = "lookup" /\ c.answer = "missing"
                       /\ language.session.action = "lookup"
                    \/ c.kind # "lookup" /\ c.answer = "refused"
    <3>1. /\ language' = [language EXCEPT !.flight = FALSE, !.issue = TRUE, !.rejected = z]
          /\ stored' = stored
      BY <2>3 DEF P!LanguageAnswer
    <3>2. z => c.id \in loose \/ served[c.id] \notin {"interpreting", "prepared"}
      <4>1. CASE c.kind = "lookup"
        BY <1>a, <1>c, <1>j, <2>3, <4>1 DEF SessionHolds, P!Settled
      <4>2. CASE c.kind # "lookup"
        BY <1>a, <1>c, <4>2 DEF AnswersHold
      <4> QED BY <4>1, <4>2
    <3>b. z \in BOOLEAN
      OBVIOUS
    <3> HIDE DEF z
    <3>3. /\ language' \in [session : P!Sessions, response : P!Statuses \cup {NoRequest},
                            flight : BOOLEAN,
                            issue : BOOLEAN, rejected : BOOLEAN]
          /\ language'.session = language.session /\ language'.response = language.response
          /\ ~language'.flight /\ language'.rejected = z
      BY <1>a, <3>1, <3>b DEF P!TypeOK
    <3> QED BY <1>a, <1>c, <1>f, <1>j, <2>0, <2>3, <3>1, <3>2, <3>3 DEF SessionHolds, P!TypeOK
  <2> QED BY <2>1, <2>2, <2>3
<1>1. P!TypeOK'
  BY <1>a, <1>f, <1>g DEF P!TypeOK
<1>2. CallsFit'
  BY <1>a, <1>f, <1>g DEF CallsFit, Fits
<1>3. OthersAreLoose'
  BY <1>a, <1>f DEF OthersAreLoose
<1>4. OneOut'
  BY <1>a, <1>f DEF OneOut, P!Mine
<1>5. Awaited'
  <2>1. CASE P!Mine(c)
    BY <1>a, <1>f, <1>g, <1>j, <2>1 DEF Awaited, P!Mine
  <2>2. CASE ~P!Mine(c)
    BY <1>a, <1>f, <1>g, <2>2 DEF Awaited, P!Mine
  <2> QED BY <2>1, <2>2
<1>6. Remembered'
  BY <1>a, <1>c, <1>f, <1>g DEF Remembered, P!Mine
<1>7. Settling'
  BY <1>a, <1>f DEF Settling
<1>8. P!NothingIsForgotten'
  BY <1>a, <1>f, <1>g DEF P!NothingIsForgotten
<1>9. P!ToldIsTrue'
  BY <1>a, <1>f DEF P!ToldIsTrue
<1>10. AnswersHold'
  BY <1>a, <1>f DEF AnswersHold
<1>11. SessionHolds'
  BY <1>g
<1>12. Given'
  BY <1>a, <1>f, <1>g DEF Given
<1> QED BY <1>1, <1>2, <1>3, <1>4, <1>5, <1>6, <1>7, <1>8, <1>9, <1>10, <1>11, <1>12 DEF PageInv

\* A call that is given up makes its identifier loose; what was known stays.
LEMMA GiveUpKeeps ==
  ASSUME P!IdentifiersDiffer, PageInv, NEW c \in calls, P!GiveUp(c)
  PROVE  PageInv'
<1>a. /\ P!TypeOK /\ CallsFit /\ OthersAreLoose /\ OneOut /\ Awaited
      /\ Remembered /\ Settling /\ P!NothingIsForgotten /\ P!ToldIsTrue
      /\ AnswersHold /\ SessionHolds /\ Given
  BY DEF PageInv
<1>c. c \in P!CallType /\ c.from # 0 /\ visit # 0
  BY <1>a DEF P!GiveUp, P!TypeOK
<1>f. /\ UNCHANGED <<visit, stored, checking, committed, served, told, answered, abandoned, crossed>>
      /\ loose' = loose \cup {c.id}
      /\ ~P!Mine(c) => UNCHANGED <<command, language>>
  BY DEF P!GiveUp, P!serverVars, P!leftVars
<1>o. \A d \in calls' : \/ d \in calls /\ d # c
                        \/ /\ d \in P!CallType /\ d.from = 0 /\ d.state # "back"
                           /\ d.kind = c.kind /\ d.id = c.id /\ d.state = c.state
  <2>1. calls' = (calls \ {c}) \cup P!Orphaned({c})
    BY DEF P!GiveUp
  <2>2. P!Orphaned({c}) \subseteq {x \in {[c EXCEPT !.from = 0]} : c.state # "back"}
    BY DEF P!Orphaned
  <2>3. [c EXCEPT !.from = 0] \in P!CallType /\ [c EXCEPT !.from = 0].from = 0
        /\ [c EXCEPT !.from = 0].kind = c.kind /\ [c EXCEPT !.from = 0].id = c.id
        /\ [c EXCEPT !.from = 0].state = c.state
    BY <1>c DEF P!CallType
  <2> QED BY <2>1, <2>2, <2>3
<1>p. \A d \in calls : d # c => d \in calls'
  BY DEF P!GiveUp
<1>q. c.id \in Intents \cup Requests /\ c.id # NoRequest
  BY <1>c DEF P!CallType, P!IdentifiersDiffer
<1>g. /\ command' \in [pending : Intents \cup {NoRequest}, sending : BOOLEAN]
      /\ command'.pending = command.pending
      /\ command'.sending # command.sending => c.id = command.pending /\ P!Mine(c) /\ c.kind \in Ops
  <2>1. CASE P!Mine(c) /\ c.kind \in Ops
    <3>1. command' = [command EXCEPT !.sending = FALSE] /\ c.id = command.pending
      BY <1>a, <2>1 DEF P!GiveUp, Ops, Awaited
    <3> QED BY <1>a, <2>1, <3>1 DEF P!TypeOK
  <2>2. CASE ~(P!Mine(c) /\ c.kind \in Ops)
    <3>1. command' = command
      BY <2>2 DEF P!GiveUp, Ops
    <3> QED BY <1>a, <3>1 DEF P!TypeOK
  <2> QED BY <2>1, <2>2
<1>h. /\ language' \in [session : P!Sessions, response : P!Statuses \cup {NoRequest},
                        flight : BOOLEAN,
                        issue : BOOLEAN, rejected : BOOLEAN]
      /\ language'.session = language.session /\ language'.response = language.response
      /\ language'.rejected = language.rejected
      /\ language.flight \/ language'.flight = language.flight
      /\ language'.flight # language.flight => P!Mine(c) /\ c.kind \in Words
  <2>1. CASE P!Mine(c) /\ c.kind \notin Ops
    <3>1. /\ language' = [language EXCEPT !.flight = FALSE, !.issue = TRUE] /\ c.kind \in Words
          /\ language.flight
      BY <1>a, <1>c, <2>1 DEF P!GiveUp, Ops, Words, P!CallType, P!Kinds, Awaited
    <3> QED BY <1>a, <2>1, <3>1 DEF P!TypeOK
  <2>2. CASE ~(P!Mine(c) /\ c.kind \notin Ops)
    <3>1. language' = language
      BY <2>2 DEF P!GiveUp, Ops
    <3> QED BY <1>a, <3>1 DEF P!TypeOK
  <2> QED BY <2>1, <2>2
<1>1. P!TypeOK'
  BY <1>a, <1>f, <1>g, <1>h, <1>o, <1>q DEF P!TypeOK
<1>2. CallsFit'
  BY <1>a, <1>c, <1>f, <1>h, <1>o DEF CallsFit, Fits, P!TypeOK
<1>3. OthersAreLoose'
  BY <1>a, <1>f, <1>o DEF OthersAreLoose
<1>4. OneOut'
  BY <1>a, <1>c, <1>f, <1>o DEF OneOut, P!Mine
<1>5. Awaited'
  <2> SUFFICES ASSUME NEW d \in calls', d.from = visit
               PROVE  /\ d.kind \in Ops => command'.sending /\ d.id = command'.pending
                      /\ d.kind \in Words => language'.flight /\ d.id = language'.session.id
    BY <1>f DEF Awaited, P!Mine
  <2>1. d \in calls /\ d # c /\ P!Mine(d)
    BY <1>c, <1>o DEF P!Mine
  <2>2. d.kind \in Ops => ~(P!Mine(c) /\ c.kind \in Ops)
    BY <1>a, <2>1 DEF OneOut
  <2>3. d.kind \in Words => ~(P!Mine(c) /\ c.kind \in Words)
    BY <1>a, <2>1 DEF OneOut, Ops, Words
  <2> QED BY <1>a, <1>g, <1>h, <2>1, <2>2, <2>3 DEF Awaited, P!TypeOK
<1>6. Remembered'
  <2>1. ASSUME stored'.op # NoRequest, stored'.op \notin loose'
        PROVE  \E d \in calls' : P!Mine(d)' /\ d.kind \in Ops /\ d.id = stored'.op
    <3>1. PICK d \in calls : P!Mine(d) /\ d.kind \in Ops /\ d.id = stored.op
      BY <1>a, <1>f, <2>1 DEF Remembered
    <3>2. d \in calls'
      BY <1>f, <1>p, <2>1, <3>1
    <3> QED BY <1>f, <3>1, <3>2 DEF P!Mine
  <2>2. command'.pending # NoRequest /\ ~command'.sending => command'.pending \in loose'
    BY <1>a, <1>f, <1>g DEF Remembered, P!TypeOK
  <2>3. stored'.op # NoRequest => stored'.op \in crossed' \/ command'.pending = stored'.op
    BY <1>a, <1>f, <1>g DEF Remembered
  <2> QED BY <2>1, <2>2, <2>3 DEF Remembered
<1>7. Settling'
  <2>1. \A d \in calls' : d.kind \in Ops /\ d.state = "back" =>
          /\ d.answer = "ok" => d.id \in committed'
          /\ d.answer # "ok" /\ d.id \in committed' => d.id \in loose'
    BY <1>a, <1>f, <1>o DEF Settling
  <2>2. \A i \in Intents \ loose' : told'[i] \in {"accepted", "refused", "withdrawn"} =>
          (\A d \in calls' : d.kind \in Ops => d.id # i) /\ command'.pending # i
    BY <1>a, <1>f, <1>g, <1>o DEF Settling
  <2> QED BY <2>1, <2>2 DEF Settling
<1>8. P!NothingIsForgotten'
  BY <1>a, <1>f DEF P!NothingIsForgotten
<1>9. P!ToldIsTrue'
  BY <1>a, <1>f DEF P!ToldIsTrue
<1>10. AnswersHold'
  BY <1>a, <1>f, <1>o DEF AnswersHold
<1>11. SessionHolds'
  BY <1>a, <1>f, <1>h DEF SessionHolds
<1>12. Given'
  BY <1>a, <1>f, <1>h DEF Given
<1> QED BY <1>1, <1>2, <1>3, <1>4, <1>5, <1>6, <1>7, <1>8, <1>9, <1>10, <1>11, <1>12 DEF PageInv

\* A page that is entered again goes on from the storage, with whatever is out.
LEMMA MountKeeps ==
  ASSUME P!IdentifiersDiffer, PageInv, NEW others, P!Mount(others),
         \A d \in others : d \in P!CallType /\ \E c \in calls :
           /\ d.kind = c.kind /\ d.id = c.id /\ d.state = c.state /\ d.answer = c.answer
           /\ d.from <= visit,
         abandoned' \subseteq abandoned \cup {visit}
  PROVE  PageInv'
<1>a. /\ P!TypeOK /\ CallsFit /\ OthersAreLoose /\ OneOut /\ Awaited
      /\ Remembered /\ Settling /\ P!NothingIsForgotten /\ P!ToldIsTrue
      /\ AnswersHold /\ SessionHolds /\ Given
  BY DEF PageInv
<1>f. /\ UNCHANGED <<stored, committed, served, told, answered, crossed>>
      /\ visit' = visit + 1 /\ visit \in Nat \ {0} /\ visit' \in Nat \ {0}
      /\ loose' = loose \cup {x.id : x \in calls}
      /\ checking' = FALSE /\ abandoned' \subseteq 1 .. visit' - 1
  BY <1>a DEF P!Mount, P!serverVars, P!TypeOK
<1>g. /\ command' \in [pending : Intents \cup {NoRequest}, sending : BOOLEAN]
      /\ command'.pending = stored.op /\ ~command'.sending
  BY <1>a DEF P!Mount, P!Idle, P!TypeOK
<1>h. /\ language' \in [session : P!Sessions, response : P!Statuses \cup {NoRequest},
                        flight : BOOLEAN,
                        issue : BOOLEAN, rejected : BOOLEAN]
      /\ language'.session = stored.language /\ language'.response = NoRequest
      /\ language'.flight = (stored.language.id # NoRequest) /\ ~language'.rejected
  <2>1. language' = [P!Quiet(stored.language) EXCEPT !.flight = stored.language.id # NoRequest]
    BY DEF P!Mount
  <2> QED BY <1>a, <2>1 DEF P!Quiet, P!TypeOK
<1>o. \A d \in others :
        /\ d \in P!CallType /\ d.id \in loose' /\ d.from <= visit /\ d.from # visit'
        /\ \E c \in calls :
             d.kind = c.kind /\ d.id = c.id /\ d.state = c.state /\ d.answer = c.answer
  BY <1>f DEF P!CallType
<1>n. \A d \in calls' : d \notin others =>
        /\ d \in P!CallType /\ d.kind = "lookup" /\ d.id = stored.language.id /\ d.from = visit'
        /\ d.state = "out" /\ d.id \in Requests /\ d.id # NoRequest
  <2> SUFFICES ASSUME NEW d \in calls', d \notin others
               PROVE  /\ d \in P!CallType /\ d.kind = "lookup" /\ d.id = stored.language.id
                      /\ d.from = visit' /\ d.state = "out" /\ d.id \in Requests /\ d.id # NoRequest
    OBVIOUS
  <2>1. stored.language.id # NoRequest /\ d = P!Performed(stored.language, TRUE, visit + 1)
    BY DEF P!Mount
  <2>2. d = [P!Call("lookup", stored.language.id) EXCEPT !.from = visit + 1]
    BY <2>1 DEF P!Performed
  <2>3. stored.language.id \in Requests /\ "lookup" \in P!Kinds
    BY <1>a, <2>1 DEF P!TypeOK, P!Sessions, P!Kinds
  <2> DEFINE k == P!Call("lookup", stored.language.id)
  <2>4. k \in P!CallType /\ k.kind = "lookup" /\ k.id = stored.language.id /\ k.state = "out"
    BY <1>a, <2>3, CallFields
  <2> HIDE DEF k
  <2>5. visit + 1 \in Nat /\ visit' = visit + 1
    BY <1>f
  <2>6. d = [k EXCEPT !.from = visit + 1]
    BY <2>2 DEF k
  <2> QED BY <2>1, <2>3, <2>4, <2>5, <2>6 DEF P!CallType
<1>p. \A d \in calls' : \A e \in calls' : d \notin others /\ e \notin others => d = e
  BY DEF P!Mount
<1>q. stored.op # NoRequest => stored.op \in loose'
  BY <1>a, <1>f DEF Remembered
<1>r. loose' \subseteq Intents \cup Requests /\ loose \subseteq loose'
  <2>1. \A x \in calls : x.id \in Intents \cup Requests
    BY <1>a DEF P!TypeOK, P!CallType
  <2> QED BY <1>a, <1>f, <2>1 DEF P!TypeOK
<1>1. P!TypeOK'
  BY <1>a, <1>f, <1>g, <1>h, <1>n, <1>o, <1>r DEF P!TypeOK
<1>2. CallsFit'
  <2> SUFFICES ASSUME NEW d \in calls'
               PROVE  Fits(d)' /\ d.from <= visit'
    BY <1>a, <1>f, <1>h DEF CallsFit
  <2>1. CASE d \notin others
    BY <1>f, <1>n, <2>1 DEF Fits, Ops, Words
  <2>2. CASE d \in others
    <3>1. PICK c \in calls :
            d.kind = c.kind /\ d.id = c.id /\ d.state = c.state /\ d.answer = c.answer
      BY <1>o, <2>2
    <3> QED BY <1>a, <1>f, <1>o, <2>2, <3>1 DEF CallsFit, Fits, P!CallType
  <2> QED BY <2>1, <2>2
<1>3. OthersAreLoose'
  BY <1>f, <1>n, <1>o DEF OthersAreLoose
<1>4. OneOut'
  BY <1>f, <1>n, <1>o, <1>p DEF OneOut, P!Mine
<1>5. Awaited'
  BY <1>f, <1>h, <1>n, <1>o DEF Awaited, P!Mine, Ops, Words
<1>6. Remembered'
  BY <1>f, <1>g, <1>q DEF Remembered, P!Mine
<1>7. Settling'
  <2>1. ASSUME NEW d \in calls', d.kind \in Ops, d.state = "back"
        PROVE  /\ d.answer = "ok" => d.id \in committed'
               /\ d.answer # "ok" /\ d.id \in committed' => d.id \in loose'
    <3>1. d \in others
      BY <1>n, <2>1 DEF Ops
    <3> QED BY <1>a, <1>f, <1>o, <2>1, <3>1 DEF Settling
  <2>2. ASSUME NEW i \in Intents \ loose'
        PROVE  (\A d \in calls' : d.kind \in Ops => d.id # i) /\ command'.pending # i
    BY <1>g, <1>n, <1>o, <1>q, <2>2 DEF Ops, P!IdentifiersDiffer
  <2> QED BY <2>1, <2>2 DEF Settling
<1>8. P!NothingIsForgotten'
  BY <1>a, <1>f DEF P!NothingIsForgotten
<1>9. P!ToldIsTrue'
  BY <1>a, <1>f, <1>r DEF P!ToldIsTrue
<1>10. AnswersHold'
  <2> SUFFICES ASSUME NEW d \in calls', d.kind \in Words
               PROVE  /\ d.kind = "confirm" => served[d.id] \in {"ready", "done"}
                      /\ d.state = "back" =>
                           /\ d.answer \in P!Statuses => served[d.id] # "absent"
                           /\ d.answer \in Terminal => served[d.id] = d.answer
                           /\ d.answer = "ready" => served[d.id] \in {"ready", "done"}
                           /\ d.answer = "refused" /\ d.id \notin loose' =>
                                served[d.id] \notin {"interpreting", "prepared"}
    BY <1>f DEF AnswersHold
  <2>1. CASE d \notin others
    BY <1>n, <2>1
  <2>2. CASE d \in others
    <3>1. PICK c \in calls :
            d.kind = c.kind /\ d.id = c.id /\ d.state = c.state /\ d.answer = c.answer
      BY <1>o, <2>2
    <3> QED BY <1>a, <1>o, <2>2, <3>1 DEF AnswersHold
  <2> QED BY <2>1, <2>2
<1>11. SessionHolds'
  BY <1>a, <1>f, <1>h DEF SessionHolds, Terminal, P!IdentifiersDiffer, P!Statuses
<1>12. Given'
  BY <1>a, <1>f, <1>h, <1>r DEF Given, SessionHolds
<1> QED BY <1>1, <1>2, <1>3, <1>4, <1>5, <1>6, <1>7, <1>8, <1>9, <1>10, <1>11, <1>12 DEF PageInv

\* The two ways to enter the page again: its calls go on, or nobody waits for them.
LEMMA LeaveKeeps ==
  ASSUME P!IdentifiersDiffer, PageInv, P!Leave
  PROVE  PageInv'
<1>1. \A d \in calls : d \in P!CallType /\ d.from <= visit
  BY DEF PageInv, P!TypeOK, CallsFit
<1> QED BY <1>1, MountKeeps DEF P!Leave

LEMMA ReloadKeeps ==
  ASSUME P!IdentifiersDiffer, PageInv, P!Reload
  PROVE  PageInv'
<1>1. ASSUME NEW d \in P!Orphaned(calls)
      PROVE  d \in P!CallType /\ \E c \in calls :
               /\ d.kind = c.kind /\ d.id = c.id /\ d.state = c.state /\ d.answer = c.answer
               /\ d.from <= visit
  <2>1. PICK c \in calls : d = [c EXCEPT !.from = 0]
    BY <1>1 DEF P!Orphaned
  <2>2. c \in P!CallType /\ visit \in Nat
    BY DEF PageInv, P!TypeOK
  <2> QED BY <2>1, <2>2 DEF P!CallType
<1> QED BY <1>1, MountKeeps DEF P!Reload

-----------------------------------------------------------------------------
(* The steps of the server.                                                *)

\* A call that is answered or held stays the page's own, or is nobody's any more.
LEMMA ServedKeeps ==
  ASSUME PageInv,
         NEW c \in calls, NEW d \in P!CallType, d.kind = c.kind, d.id = c.id, d.from = c.from,
         Fits(d),
         calls' = (calls \ {c}) \cup {d} \/ (c.from = 0 /\ calls' = calls \ {c}),
         UNCHANGED <<visit, stored, command, checking, language, told, answered, loose,
                     abandoned, crossed>>,
         committed' \subseteq Intents,
         served' \in [Requests -> P!Statuses \cup {"absent"}]
  PROVE  /\ P!TypeOK' /\ CallsFit' /\ OthersAreLoose' /\ OneOut' /\ Awaited' /\ Remembered'
         /\ P!NothingIsForgotten'
<1>a. /\ P!TypeOK /\ CallsFit /\ OthersAreLoose /\ OneOut /\ Awaited /\ Remembered
      /\ P!NothingIsForgotten
  BY DEF PageInv
<1>1. P!TypeOK'
  BY <1>a DEF P!TypeOK
<1>2. CallsFit'
  BY <1>a DEF CallsFit, Fits
<1>3. OthersAreLoose'
  BY <1>a DEF OthersAreLoose
<1>4. OneOut'
  BY <1>a DEF OneOut, P!Mine
<1>5. Awaited'
  BY <1>a DEF Awaited, P!Mine
<1>6. Remembered'
  <2>1. ASSUME stored.op # NoRequest, stored.op \notin loose
        PROVE  \E e \in calls' : e.from = visit /\ e.kind \in Ops /\ e.id = stored.op
    <3>1. PICK e \in calls : e.from = visit /\ e.kind \in Ops /\ e.id = stored.op
      BY <1>a, <2>1 DEF Remembered, P!Mine
    <3>2. CASE e = c
      BY <1>a, <3>1, <3>2 DEF P!TypeOK
    <3>3. CASE e # c
      BY <3>1, <3>3
    <3> QED BY <3>2, <3>3
  <2> QED BY <1>a, <2>1 DEF Remembered, P!Mine
<1>7. P!NothingIsForgotten'
  BY <1>a DEF P!NothingIsForgotten
<1> QED BY <1>1, <1>2, <1>3, <1>4, <1>5, <1>6, <1>7

\* The only call of the page's kind that is out for an identifier no call of which went astray.
LEMMA OnlyCall ==
  ASSUME PageInv, NEW c \in calls, NEW e \in calls, c.id \notin loose, e.id = c.id,
         c.kind \in Ops <=> e.kind \in Ops
  PROVE  e = c /\ P!Mine(c)
<1>1. P!Mine(c) /\ P!Mine(e)
  BY DEF PageInv, OthersAreLoose, P!Mine
<1> QED BY <1>1 DEF PageInv, OneOut

\* An operation or its withdrawal is answered with what became of it.
LEMMA ServeCommandKeeps ==
  ASSUME P!IdentifiersDiffer, PageInv, NEW c \in calls, P!ServeCommand(c)
  PROVE  PageInv'
<1>a. /\ P!TypeOK /\ CallsFit /\ OthersAreLoose /\ OneOut /\ Awaited
      /\ Remembered /\ Settling /\ P!NothingIsForgotten /\ P!ToldIsTrue
      /\ AnswersHold /\ SessionHolds /\ Given
  BY DEF PageInv
<1>1. /\ c \in P!CallType /\ c.state = "out" /\ c.kind \in Ops /\ c.id \in Intents
      /\ UNCHANGED <<visit, stored, command, checking, language, served, told, answered, loose,
                     abandoned, crossed>>
  BY <1>a DEF P!ServeCommand, P!pageVars, P!leftVars, P!TypeOK, CallsFit, Fits, Ops
<1>2. PICK answer \in {"ok", "refused", "missing"} :
        /\ P!Back(c, answer)
        /\ answer = "ok" => committed' = committed \cup {c.id}
        /\ answer # "ok" => committed' = committed /\ c.id \notin committed
        /\ c.kind = "operate" => answer \in {"ok", "refused"}
        /\ c.kind = "discard" => answer \in {"ok", "missing"}
  <2>1. CASE c.kind = "operate" /\ committed' = committed \cup {c.id} /\ P!Back(c, "ok")
    BY <2>1
  <2>2. CASE c.kind = "operate" /\ c.id \notin committed /\ P!Back(c, "refused")
             /\ committed' = committed
    BY <2>2
  <2>3. CASE c.kind = "discard" /\ committed' = committed
             /\ P!Back(c, IF c.id \in committed THEN "ok" ELSE "missing")
    <3>1. CASE c.id \in committed
      <4>1. P!Back(c, "ok") /\ committed' = committed \cup {c.id}
        BY <2>3, <3>1
      <4> QED BY <2>3, <4>1
    <3>2. CASE c.id \notin committed
      <4>1. P!Back(c, "missing")
        BY <2>3, <3>2
      <4> QED BY <2>3, <3>2, <4>1
    <3> QED BY <3>1, <3>2
  <2> QED BY <2>1, <2>2, <2>3 DEF P!ServeCommand
<1> DEFINE d == [c EXCEPT !.state = "back", !.answer = answer]
<1>3. /\ d \in P!CallType /\ d.kind = c.kind /\ d.id = c.id /\ d.from = c.from
      /\ d.state = "back" /\ d.answer = answer
  BY <1>1 DEF P!CallType
<1>4. calls' = (calls \ {c}) \cup {d} \/ (c.from = 0 /\ calls' = calls \ {c})
  BY <1>2 DEF P!Back
<1> HIDE DEF d
<1>5. Fits(d)
  BY <1>1, <1>2, <1>3 DEF Fits, Ops, Words
<1>6. committed' \subseteq Intents /\ committed \subseteq committed'
      /\ \A i \in committed' : i \in committed \/ (i = c.id /\ answer = "ok")
  BY <1>a, <1>1, <1>2 DEF P!TypeOK
<1>7. /\ P!TypeOK' /\ CallsFit' /\ OthersAreLoose' /\ OneOut' /\ Awaited' /\ Remembered'
      /\ P!NothingIsForgotten'
  BY <1>a, <1>1, <1>3, <1>4, <1>5, <1>6, ServedKeeps DEF P!TypeOK
<1>8. Settling'
  <2>1. ASSUME NEW e \in calls', e.kind \in Ops, e.state = "back"
        PROVE  /\ e.answer = "ok" => e.id \in committed'
               /\ e.answer # "ok" /\ e.id \in committed' => e.id \in loose'
    <3>1. CASE e = d
      BY <1>2, <1>3, <1>6, <3>1
    <3>2. CASE e # d
      <4>1. e \in calls /\ e # c
        BY <1>4, <3>2
      <4>2. e.id = c.id => c.id \in loose
        BY <1>1, <2>1, <4>1, OnlyCall
      <4> QED BY <1>a, <1>1, <1>6, <2>1, <4>1, <4>2 DEF Settling
    <3> QED BY <3>1, <3>2
  <2>2. ASSUME NEW i \in Intents \ loose', told'[i] \in {"accepted", "refused", "withdrawn"}
        PROVE  (\A e \in calls' : e.kind \in Ops => e.id # i) /\ command'.pending # i
    BY <1>a, <1>1, <1>3, <1>4, <2>2 DEF Settling
  <2> QED BY <2>1, <2>2 DEF Settling
<1>9. P!ToldIsTrue'
  <2> SUFFICES ASSUME NEW i \in Intents
               PROVE  /\ told[i] = "accepted" => i \in committed'
                      /\ told[i] \in {"refused", "withdrawn"} /\ i \in committed' => i \in loose
    BY <1>1 DEF P!ToldIsTrue
  <2>1. CASE i \in committed \/ i \notin committed'
    BY <1>a, <1>6, <2>1 DEF P!ToldIsTrue
  <2>2. CASE i = c.id /\ i \in committed'
    BY <1>a, <1>1, <2>2 DEF Settling
  <2> QED BY <1>6, <2>1, <2>2
<1>10. \A e \in calls' : e.kind \in Words => e \in calls
  BY <1>1, <1>3, <1>4 DEF Ops, Words
<1>11. AnswersHold'
  BY <1>a, <1>1, <1>10 DEF AnswersHold
<1>12. SessionHolds' /\ Given'
  BY <1>a, <1>1 DEF SessionHolds, Given
<1> QED BY <1>7, <1>8, <1>9, <1>11, <1>12 DEF PageInv

\* The record of a request in words goes forward, and its call is answered with what it says.
LEMMA ServeWordsKeeps ==
  ASSUME P!IdentifiersDiffer, PageInv, NEW c \in calls, c.kind \in Words, c.state # "back",
         NEW d \in P!CallType, d.kind = c.kind, d.id = c.id, d.from = c.from,
         d.state = "held" => d.kind = "submit",
         calls' = (calls \ {c}) \cup {d} \/ (c.from = 0 /\ calls' = calls \ {c}),
         UNCHANGED <<visit, stored, command, checking, language, committed, told, answered, loose,
                     abandoned, crossed>>,
         served' \in [Requests -> P!Statuses \cup {"absent"}],
         \A r \in Requests : r # c.id => served'[r] = served[r],
         served[c.id] # "absent" => served'[c.id] # "absent",
         served[c.id] \in Terminal => served'[c.id] = served[c.id],
         served[c.id] = "ready" => served'[c.id] \in {"ready", "done"},
         d.state = "back" =>
           /\ d.answer \in P!Statuses \cup (IF c.kind = "lookup" THEN {"missing"} ELSE {"refused"})
           /\ d.answer \in P!Statuses => served'[c.id] # "absent"
           /\ d.answer \in Terminal => served'[c.id] = d.answer
           /\ d.answer = "ready" => served'[c.id] \in {"ready", "done"}
           /\ d.answer = "refused" => served'[c.id] \notin {"interpreting", "prepared"}
  PROVE  PageInv'
<1>a. /\ P!TypeOK /\ CallsFit /\ OthersAreLoose /\ OneOut /\ Awaited
      /\ Remembered /\ Settling /\ P!NothingIsForgotten /\ P!ToldIsTrue
      /\ AnswersHold /\ SessionHolds /\ Given
  BY DEF PageInv
<1>1. c.id \in Requests /\ c.id # NoRequest /\ c.kind \notin Ops
  BY <1>a DEF CallsFit, Fits, P!IdentifiersDiffer, Ops, Words
<1>2. Fits(d)
  BY <1>1 DEF Fits, Words
<1>3. /\ P!TypeOK' /\ CallsFit' /\ OthersAreLoose' /\ OneOut' /\ Awaited' /\ Remembered'
      /\ P!NothingIsForgotten'
  <2>1. committed' \subseteq Intents
    BY <1>a DEF P!TypeOK
  <2> QED BY <1>2, <2>1, ServedKeeps
<1>4. \A e \in calls' : e.kind \in Ops => e \in calls
  BY <1>1
<1>5. Settling' /\ P!ToldIsTrue'
  BY <1>a, <1>4 DEF Settling, P!ToldIsTrue
<1>6. ASSUME NEW r \in Requests
      PROVE  /\ served[r] # "absent" => served'[r] # "absent"
             /\ served[r] \in Terminal => served'[r] = served[r]
             /\ served[r] \in {"ready", "done"} => served'[r] \in {"ready", "done"}
             /\ served[r] \in P!Settled => served'[r] \in P!Settled
  <2>1. CASE r # c.id
    BY <2>1
  <2>2. CASE r = c.id
    BY <2>2 DEF Terminal, P!Settled, P!Statuses
  <2> QED BY <2>1, <2>2
<1>7. AnswersHold'
  <2> SUFFICES ASSUME NEW e \in calls', e.kind \in Words
               PROVE  /\ e.kind = "confirm" => served'[e.id] \in {"ready", "done"}
                      /\ e.state = "back" =>
                           /\ e.answer \in P!Statuses => served'[e.id] # "absent"
                           /\ e.answer \in Terminal => served'[e.id] = e.answer
                           /\ e.answer = "ready" => served'[e.id] \in {"ready", "done"}
                           /\ e.answer = "refused" /\ e.id \notin loose =>
                                served'[e.id] \notin {"interpreting", "prepared"}
    BY DEF AnswersHold
  <2>1. CASE e = d
    <3>1. c.kind = "confirm" => served[c.id] \in {"ready", "done"}
      BY <1>a DEF AnswersHold, Words
    <3> QED BY <1>1, <1>6, <2>1, <3>1
  <2>2. CASE e # d
    <3>1. e \in calls /\ e # c /\ e.id \in Requests /\ e.kind \notin Ops
      BY <1>a, <2>2 DEF CallsFit, Fits, Ops, Words
    <3>2. e.id = c.id => e.id \in loose
      BY <1>1, <3>1, OnlyCall
    <3>3. /\ e.kind = "confirm" => served[e.id] \in {"ready", "done"}
          /\ e.state = "back" =>
               /\ e.answer \in P!Statuses => served[e.id] # "absent"
               /\ e.answer \in Terminal => served[e.id] = e.answer
               /\ e.answer = "ready" => served[e.id] \in {"ready", "done"}
               /\ e.answer = "refused" /\ e.id \notin loose =>
                    served[e.id] \notin {"interpreting", "prepared"}
      BY <1>a, <3>1 DEF AnswersHold
    <3> QED BY <1>6, <3>1, <3>2, <3>3
  <2> QED BY <2>1, <2>2
<1>8. SessionHolds'
  <2>1. language.rejected /\ language.session.id = c.id => c.id \in loose
    BY <1>a DEF SessionHolds, Awaited, OthersAreLoose, P!Mine
  <2>2. language.session.id # NoRequest => language.session.id \in Requests
    BY <1>a DEF P!TypeOK, P!Sessions
  <2> QED BY <1>a, <1>6, <2>1, <2>2 DEF SessionHolds
<1>9. Given'
  <2>1. c.id \notin loose => c.id = language.session.id
    BY <1>a DEF Awaited, OthersAreLoose, P!Mine
  <2> QED BY <1>a, <2>1 DEF Given
<1> QED BY <1>3, <1>5, <1>7, <1>8, <1>9 DEF PageInv

\* Only one call of a request is worked on at a time.
LEMMA HoldKeeps ==
  ASSUME P!IdentifiersDiffer, PageInv, NEW c \in calls, P!Hold(c)
  PROVE  PageInv'
<1> DEFINE d == [c EXCEPT !.state = "held"]
<1>1. c \in P!CallType /\ c.kind = "submit" /\ c.id \in Requests /\ c.state = "out"
  BY DEF PageInv, P!TypeOK, CallsFit, Fits, P!Hold, Words
<1>2. d \in P!CallType /\ d.kind = c.kind /\ d.id = c.id /\ d.from = c.from /\ d.state = "held"
  BY <1>1 DEF P!CallType
<1>3. /\ calls' = (calls \ {c}) \cup {d}
      /\ UNCHANGED <<visit, stored, command, checking, language, committed, told, answered, loose,
                     abandoned, crossed>>
      /\ served' = [served EXCEPT ![c.id] = "interpreting"]
      /\ served[c.id] \in {"absent", "interpreting"}
  BY DEF P!Hold, P!pageVars, P!leftVars
<1> HIDE DEF d
<1>4. /\ served' \in [Requests -> P!Statuses \cup {"absent"}] /\ served'[c.id] = "interpreting"
      /\ \A r \in Requests : r # c.id => served'[r] = served[r]
  BY <1>1, <1>3 DEF PageInv, P!TypeOK, P!Statuses
<1>5. served[c.id] \notin Terminal \cup {"ready"}
  BY <1>3 DEF Terminal
<1>6. c.kind \in Words /\ c.state # "back" /\ d.state # "back"
  BY <1>1, <1>2 DEF Words
<1> QED BY <1>1, <1>2, <1>3, <1>4, <1>5, <1>6, ServeWordsKeeps

\* What a request turned out to be is recorded and answered.
LEMMA PageInterpretKeeps ==
  ASSUME P!IdentifiersDiffer, PageInv, NEW c \in calls, P!Interpret(c)
  PROVE  PageInv'
<1>1. c \in P!CallType /\ c.kind = "submit" /\ c.id \in Requests /\ c.state = "held"
  BY DEF PageInv, P!TypeOK, CallsFit, Fits, P!Interpret, Words
<1>2. PICK status \in P!Statuses \ {"interpreting"} :
        served' = [served EXCEPT ![c.id] = status] /\ P!Back(c, status)
  BY DEF P!Interpret
<1> DEFINE d == [c EXCEPT !.state = "back", !.answer = status]
<1>3. /\ d \in P!CallType /\ d.kind = c.kind /\ d.id = c.id /\ d.from = c.from
      /\ d.state = "back" /\ d.answer = status
  BY <1>1 DEF P!CallType
<1>4. calls' = (calls \ {c}) \cup {d} \/ (c.from = 0 /\ calls' = calls \ {c})
  BY <1>2 DEF P!Back
<1>5. /\ UNCHANGED <<visit, stored, command, checking, language, committed, told, answered, loose,
                     abandoned, crossed>>
      /\ served[c.id] = "interpreting"
  BY DEF P!Interpret, P!pageVars, P!leftVars
<1> HIDE DEF d
<1>6. /\ served' \in [Requests -> P!Statuses \cup {"absent"}] /\ served'[c.id] = status
      /\ \A r \in Requests : r # c.id => served'[r] = served[r]
  BY <1>1, <1>2 DEF PageInv, P!TypeOK
<1>7. /\ served[c.id] \notin Terminal \cup {"ready"} /\ c.kind \in Words /\ c.state # "back"
      /\ status # "absent" /\ status # "refused"
  BY <1>1, <1>5 DEF Terminal, Words, P!Statuses
<1> QED BY <1>1, <1>3, <1>4, <1>5, <1>6, <1>7, ServeWordsKeeps

\* What is recorded is answered, a prepared or confirmed request is carried out first.
LEMMA ServeLanguageKeeps ==
  ASSUME P!IdentifiersDiffer, PageInv, NEW c \in calls, P!ServeLanguage(c)
  PROVE  PageInv'
<1>1. /\ c \in P!CallType /\ c.kind \in Words /\ c.id \in Requests /\ c.state = "out"
      /\ served \in [Requests -> P!Statuses \cup {"absent"}]
      /\ c.kind = "confirm" => served[c.id] \in {"ready", "done"}
      /\ UNCHANGED <<visit, stored, command, checking, language, committed, told, answered, loose,
                     abandoned, crossed>>
  BY DEF PageInv, P!TypeOK, CallsFit, Fits, P!ServeLanguage, Words, P!pageVars, P!leftVars, AnswersHold
<1>2. PICK answer \in P!Statuses \cup {"missing", "refused"} :
        /\ P!Back(c, answer)
        /\ answer \in P!Statuses \cup (IF c.kind = "lookup" THEN {"missing"} ELSE {"refused"})
        /\ \/ served' = served /\ answer \in {served[c.id], "missing"}
           \/ served' = served /\ answer = "refused"
              /\ served[c.id] \notin {"interpreting", "prepared"}
           \/ /\ served' = [served EXCEPT ![c.id] = "done"] /\ answer = "done"
              /\ served[c.id] \in {"prepared", "ready"}
  <2>1. CASE c.kind = "submit" /\ served[c.id] = "absent" /\ P!Back(c, "refused")
             /\ served' = served
    BY <2>1
  <2>2. CASE /\ c.kind = "submit" /\ served[c.id] = "prepared"
             /\ served' = [served EXCEPT ![c.id] = "done"] /\ P!Back(c, "done")
    BY <2>2 DEF P!Statuses
  <2>3. CASE /\ c.kind = "submit" /\ served[c.id] \notin {"absent", "prepared"}
             /\ P!Back(c, served[c.id]) /\ served' = served
    BY <1>1, <2>3
  <2>4. CASE /\ c.kind = "confirm" /\ served[c.id] = "ready"
             /\ served' = [served EXCEPT ![c.id] = "done"] /\ P!Back(c, "done")
    BY <2>4 DEF P!Statuses
  <2>5. CASE /\ c.kind = "confirm" /\ served' = served
             /\ P!Back(c, IF served[c.id] = "done" THEN "done" ELSE "refused")
    <3>1. CASE served[c.id] = "done"
      <4>1. P!Back(c, "done")
        BY <2>5, <3>1
      <4> QED BY <2>5, <3>1, <4>1 DEF P!Statuses
    <3>2. CASE served[c.id] # "done"
      <4>1. P!Back(c, "refused") /\ served[c.id] = "ready"
        BY <1>1, <2>5, <3>2
      <4> QED BY <2>5, <4>1
    <3> QED BY <3>1, <3>2
  <2>6. CASE /\ c.kind = "lookup" /\ served' = served
             /\ P!Back(c, IF served[c.id] = "absent" THEN "missing" ELSE served[c.id])
    <3>1. CASE served[c.id] = "absent"
      <4>1. P!Back(c, "missing")
        BY <2>6, <3>1
      <4> QED BY <2>6, <4>1
    <3>2. CASE served[c.id] # "absent"
      <4>1. P!Back(c, served[c.id]) /\ served[c.id] \in P!Statuses
        BY <1>1, <2>6, <3>2
      <4> QED BY <2>6, <4>1
    <3> QED BY <3>1, <3>2
  <2> QED BY <2>1, <2>2, <2>3, <2>4, <2>5, <2>6 DEF P!ServeLanguage
<1> DEFINE d == [c EXCEPT !.state = "back", !.answer = answer]
<1>3. /\ d \in P!CallType /\ d.kind = c.kind /\ d.id = c.id /\ d.from = c.from
      /\ d.state = "back" /\ d.answer = answer
  BY <1>1 DEF P!CallType
<1>4. calls' = (calls \ {c}) \cup {d} \/ (c.from = 0 /\ calls' = calls \ {c})
  BY <1>2 DEF P!Back
<1> HIDE DEF d
<1>5. "missing" \notin P!Statuses /\ "refused" \notin P!Statuses /\ "absent" \notin P!Statuses
  BY DEF P!Statuses
<1>6. /\ served' \in [Requests -> P!Statuses \cup {"absent"}]
      /\ \A r \in Requests : r # c.id => served'[r] = served[r]
      /\ served'[c.id] = served[c.id] \/
           (served'[c.id] = "done" /\ served[c.id] \in {"prepared", "ready"} /\ answer = "done")
      /\ served'[c.id] = served[c.id] =>
           answer \in {served[c.id], "missing"} \/
             (answer = "refused" /\ served[c.id] \notin {"interpreting", "prepared"})
  <2>1. CASE served' = served
    BY <1>1, <1>2, <2>1 DEF P!Statuses
  <2>2. CASE /\ served' = [served EXCEPT ![c.id] = "done"] /\ answer = "done"
             /\ served[c.id] \in {"prepared", "ready"}
    BY <1>1, <2>2 DEF P!Statuses
  <2> QED BY <1>2, <2>1, <2>2
<1>7. /\ served[c.id] # "absent" => served'[c.id] # "absent"
      /\ served[c.id] \in Terminal => served'[c.id] = served[c.id]
      /\ served[c.id] = "ready" => served'[c.id] \in {"ready", "done"}
  BY <1>6 DEF Terminal
<1>8. /\ answer \in P!Statuses => served'[c.id] # "absent"
      /\ answer \in Terminal => served'[c.id] = answer
      /\ answer = "ready" => served'[c.id] \in {"ready", "done"}
      /\ answer = "refused" => served'[c.id] \notin {"interpreting", "prepared"}
  BY <1>5, <1>6 DEF Terminal
<1> QED BY <1>1, <1>2, <1>3, <1>4, <1>6, <1>7, <1>8, ServeWordsKeeps

-----------------------------------------------------------------------------
(* The theorem.                                                            *)

\* Nothing was asked for and nothing is out when the tab is opened.
LEMMA PageInit ==
  ASSUME P!IdentifiersDiffer, P!Init
  PROVE  PageInv
<1>1. P!TypeOK
  <2>1. P!NoSession \in P!Sessions
    BY DEF P!NoSession, P!Sessions, P!Kinds
  <2>2. stored \in [op : Intents \cup {NoRequest}, language : P!Sessions]
    BY <2>1 DEF P!Init
  <2>3. command \in [pending : Intents \cup {NoRequest}, sending : BOOLEAN]
    BY DEF P!Init, P!Idle
  <2>4. language \in [session : P!Sessions, response : P!Statuses \cup {NoRequest},
                      flight : BOOLEAN,
                     issue : BOOLEAN, rejected : BOOLEAN]
    BY <2>1 DEF P!Init, P!Quiet
  <2>5. /\ served \in [Requests -> P!Statuses \cup {"absent"}]
        /\ told \in [Intents -> {"unasked", "none", "accepted", "refused", "withdrawn"}]
    BY DEF P!Init
  <2>6. /\ visit = 1 /\ calls = {} /\ committed = {} /\ answered = {} /\ loose = {}
        /\ abandoned = {} /\ crossed = {}
    BY Zenon DEF P!Init
  <2>7. checking \in BOOLEAN
    BY Zenon DEF P!Init
  <2> QED BY <2>2, <2>3, <2>4, <2>5, <2>6, <2>7 DEF P!TypeOK
<1>2. CallsFit /\ OthersAreLoose /\ OneOut /\ Awaited
  BY DEF P!Init, CallsFit, OthersAreLoose, OneOut, Awaited, P!NoSession, P!Quiet, Words
<1>3. Remembered /\ P!NothingIsForgotten /\ P!ToldIsTrue /\ Settling
  BY DEF P!Init, Remembered, P!NothingIsForgotten, P!ToldIsTrue, Settling, P!Idle
<1>4. AnswersHold /\ SessionHolds
  BY DEF P!Init, AnswersHold, SessionHolds, P!NoSession, P!Quiet
<1>5. Given
  BY DEF P!Init, Given
<1> QED BY <1>1, <1>2, <1>3, <1>4, <1>5 DEF PageInv

\* Every step of the page and of the server keeps what the page relies on.
LEMMA PageStep ==
  ASSUME P!IdentifiersDiffer, PageInv, [P!Next]_P!vars
  PROVE  PageInv'
<1>1. ASSUME NEW i \in Intents, P!Execute(i)
      PROVE  PageInv'
  <2>1. command.pending = NoRequest /\ ~command.sending
    BY <1>1 DEF P!Execute, P!CommandLocked
  <2>2. checking' \in BOOLEAN
    BY <1>1 DEF P!Execute, PageInv, P!TypeOK
  <2> QED BY <1>1, <2>1, <2>2, SendKeeps DEF P!Execute
<1>2. ASSUME NEW i \in Intents, P!Checked(i)
      PROVE  PageInv'
  <2>1. CASE ~P!CommandLocked /\ P!SendIntent(i) /\ told' = [told EXCEPT ![i] = "none"]
    <3>1. command.pending = NoRequest /\ ~command.sending /\ checking' \in BOOLEAN
      BY <1>2, <2>1 DEF P!Checked, P!CommandLocked
    <3> QED BY <1>2, <2>1, <3>1, SendKeeps DEF P!Checked
  <2>2. CASE UNCHANGED <<stored, command, calls, told>>
    BY <1>2, <2>2, CheckKeeps DEF P!Checked, P!leftVars
  <2> QED BY <1>2, <2>1, <2>2 DEF P!Checked
<1>3. CASE P!Check
  BY <1>3, CheckKeeps DEF P!Check, P!leftVars
<1>4. CASE P!Resend
  <2>1. command.pending \in Intents
    BY <1>4 DEF P!Resend, PageInv, P!TypeOK
  <2>2. checking' \in BOOLEAN
    BY <1>4 DEF P!Resend, PageInv, P!TypeOK
  <2> QED BY <1>4, <2>1, <2>2, SendKeeps DEF P!Resend
<1>5. CASE P!Discard
  BY <1>5, DiscardKeeps
<1>6. ASSUME NEW r \in Requests, P!Submit(r)
      PROVE  PageInv'
  BY <1>6, SubmitKeeps
<1>7. CASE P!Confirm
  BY <1>7, PageConfirmKeeps
<1>8. CASE P!Again
  <2>1. language.session.id # NoRequest
    BY <1>8 DEF P!Again, P!Uncertain
  <2>2. PICK lookup \in BOOLEAN : P!Perform(language.session, lookup)
    BY <1>8 DEF P!Again
  <2> QED BY <1>8, <2>1, <2>2, AgainKeeps DEF P!Again
<1>9. CASE P!Leave
  BY <1>9, LeaveKeeps
<1>10. CASE P!Reload
  BY <1>10, ReloadKeeps
<1>11. ASSUME NEW c \in calls,
              \/ P!CommandAnswer(c) \/ P!LanguageAnswer(c) \/ P!GiveUp(c)
              \/ P!ServeCommand(c) \/ P!Hold(c) \/ P!Interpret(c) \/ P!ServeLanguage(c)
       PROVE  PageInv'
  BY <1>11, CommandAnswerKeeps, LanguageAnswerKeeps, GiveUpKeeps, ServeCommandKeeps, HoldKeeps,
     PageInterpretKeeps, ServeLanguageKeeps
<1>12. ASSUME NEW i \in Intents, NEW l \in abandoned, P!CheckedLate(l, i)
       PROVE  PageInv'
  BY <1>12, LateKeeps
<1>13. CASE UNCHANGED P!vars
  <2>1. UNCHANGED <<visit, stored, command, language, calls, P!serverVars, told, answered, loose>>
        /\ checking' = checking /\ UNCHANGED <<abandoned, crossed>>
    BY <1>13 DEF P!vars, P!serverVars
  <2>2. checking' \in BOOLEAN
    BY <2>1 DEF PageInv, P!TypeOK
  <2> QED BY <2>1, <2>2, CheckKeeps
<1> QED BY <1>1, <1>2, <1>3, <1>4, <1>5, <1>6, <1>7, <1>8, <1>9, <1>10, <1>11, <1>12, <1>13
       DEF P!Next

\* What the invariant says of the page is what the page may rely on.
LEMMA PageMeans ==
  ASSUME P!IdentifiersDiffer, PageInv
  PROVE  P!PageKnowsItsRequests
<1>a. /\ P!TypeOK /\ CallsFit /\ OthersAreLoose /\ OneOut /\ Awaited
      /\ P!NothingIsForgotten /\ P!ToldIsTrue /\ AnswersHold /\ SessionHolds /\ Given
  BY DEF PageInv
<1>1. P!ResponseIsOfTheSession
  <2>1. language.session.id = NoRequest => language.response = NoRequest
    BY <1>a DEF SessionHolds
  <2>2. NoRequest \notin P!Settled /\ P!Settled \ {"ready"} = Terminal
    BY DEF P!Settled, P!Statuses, Terminal, P!IdentifiersDiffer
  <2> QED BY <1>a, <2>1, <2>2 DEF P!ResponseIsOfTheSession, SessionHolds
<1>2. P!LastIsSettled
  <2> SUFFICES ASSUME NEW r \in Requests \ {language.session.id, stored.language.id}, r \notin loose
               PROVE  /\ served[r] \notin {"interpreting", "prepared"}
                      /\ \A c \in calls : c.id = r => c.kind = "lookup" \/ c.state = "back"
    BY DEF P!LastIsSettled
  <2>1. ASSUME NEW c \in calls, c.id = r
        PROVE  FALSE
    <3>1. P!Mine(c)
      BY <1>a, <2>1 DEF OthersAreLoose, P!Mine
    <3>2. c.kind \in Ops \/ c.kind \in Words
      BY <1>a DEF P!TypeOK, P!CallType, P!Kinds, Ops, Words
    <3>3. c.kind \in Words
      BY <1>a, <2>1, <3>2 DEF CallsFit, Fits, P!IdentifiersDiffer
    <3> QED BY <1>a, <2>1, <3>1, <3>3 DEF Awaited
  <2> QED BY <1>a, <2>1 DEF Given
<1> QED BY <1>a, <1>1, <1>2 DEF P!PageKnowsItsRequests

\* What a page of the tab tells its user, and what it keeps of a request on its way, is true of
\* the server, however often the page is left or reloaded, whatever goes on in a page that was left, and
\* whichever calls go astray.
THEOREM PageKnowsItsRequestsAlways == LanguageSpec => []PageKnowsItsRequests
<1>1. P!Init => PageInv
  BY PageAssumption, PageInit
<1>2. PageInv /\ [P!Next]_P!vars => PageInv'
  BY PageAssumption, PageStep
<1>3. PageInv => PageKnowsItsRequests
  BY PageAssumption, PageMeans DEF PageKnowsItsRequests
<1>4. LanguageInit => P!Init
  BY DEF LanguageInit
<1>5. [HandlersMove \/ PageMoves]_<<vars, page>> => [P!Next]_P!vars
  BY DEF HandlersMove, PageMoves, page, P!vars
<1> QED BY <1>1, <1>2, <1>3, <1>4, <1>5, PTL DEF LanguageSpec
=============================================================================
