----------------------------- MODULE ProjectPage -----------------------------
(***************************************************************************)
(* The page of a project in one browser tab: its operations                *)
(* (api/useProjectOperation.ts) and its requests in words                  *)
(* (api/useLanguageRequest.ts).  What the user asked for is kept in the    *)
(* session storage of the tab, because the page may be left and entered    *)
(* again, or reloaded, while its calls are out; calls and answers may be   *)
(* lost, and a call the page gave up may still reach the server.           *)
(*                                                                         *)
(* The server is external here: Operations and LanguageRequests model it.  *)
(* It commits a request identifier at most once and answers a repeated one *)
(* from its record.  The session storage is there (useLanguageRequest      *)
(* refuses to send when it is not; useProjectOperation goes on without).   *)
(***************************************************************************)
EXTENDS Naturals, FiniteSets

CONSTANTS Intents,    \* request identifiers of operations
          Requests,   \* request identifiers of requests in words
          None,
          MaxVisits,  \* bound: how often the page is mounted
          MaxLosses   \* bound: identifiers a call of which goes astray

VARIABLES visit,      \* which mounting of the page the user sees
          stored,     \* sessionStorage: the pending intent, the language session
          command,    \* useProjectOperation of this visit
          checking,   \* revalidateRecoveryAction is waiting for fresh views
          abandoned,  \* visits that were left while it was waiting
          language,   \* useLanguageRequest of this visit
          calls,      \* HTTP calls that are out
          committed,  \* operations the server committed
          record,     \* language requests at the server
          told,       \* what the user was told of each intent
          answered,   \* intents with a definite answer, whoever got it
          loose,      \* identifiers with a call the page the user sees does not wait for
          crossed     \* intents a page sent after it was left, and what was stored then

pageVars == <<visit, stored, command, checking, language>>
leftVars == <<abandoned, crossed>>
serverVars == <<committed, record>>
vars == <<visit, stored, command, checking, abandoned, language, calls, committed, record, told,
          answered, loose, crossed>>

Statuses == {"interpreting", "prepared", "needs_input", "ready", "done", "closed"}

\* "prepared" is ready without a confirmation: the server stopped before it committed.
Settled == Statuses \ {"interpreting", "prepared"}

NoSession == [id |-> None, action |-> "lookup"]
Idle == [pending |-> None, sending |-> FALSE]
Quiet(session) == [session |-> session, response |-> None, flight |-> FALSE,
                   issue |-> FALSE, rejected |-> FALSE]

Call(kind, id) == [kind |-> kind, id |-> id, from |-> visit, state |-> "out", answer |-> "none"]

Init ==
  /\ visit = 1 /\ stored = [op |-> None, language |-> NoSession]
  /\ command = Idle /\ checking = FALSE /\ language = Quiet(NoSession)
  /\ calls = {} /\ committed = {} /\ record = [r \in Requests |-> "absent"]
  /\ told = [i \in Intents |-> "unasked"] /\ answered = {} /\ loose = {}
  /\ abandoned = {} /\ crossed = {}

Mine(call) == call.from = visit

-----------------------------------------------------------------------------
(* useProjectOperation.                                                    *)

CommandLocked == command.sending \/ command.pending # None

\* What the page knows of the request in words is not final.
Uncertain ==
  /\ language.session.id # None /\ ~language.rejected
  /\ \/ language.response \in {None, "interpreting", "prepared"}
     \/ language.session.action = "confirm" /\ language.issue

LanguageLocked == language.flight \/ Uncertain

\* remember(intent) and the call.
SendIntent(i) ==
  /\ stored' = [stored EXCEPT !.op = i]
  /\ command' = [pending |-> i, sending |-> TRUE]
  /\ calls' = calls \cup {Call("operate", i)}

\* execute, from a button of the page.
Execute(i) ==
  /\ told[i] = "unasked" /\ ~CommandLocked /\ ~LanguageLocked /\ ~checking
  /\ SendIntent(i)
  /\ told' = [told EXCEPT ![i] = "none"]
  /\ UNCHANGED <<visit, checking, language, serverVars, answered, loose, leftVars>>

\* Retry and cancel wait for fresh views of the project and its history first.
Check ==
  /\ ~CommandLocked /\ ~LanguageLocked /\ ~checking /\ checking' = TRUE
  /\ \E i \in Intents : told[i] = "unasked"
  /\ UNCHANGED <<visit, stored, command, language, calls, serverVars, told, answered, loose, leftVars>>

\* Its fresh views are coherent and allow it, or not; the locks read here are the hook's own.
Checked(i) ==
  /\ checking /\ checking' = FALSE /\ told[i] = "unasked"
  /\ \/ ~CommandLocked /\ SendIntent(i) /\ told' = [told EXCEPT ![i] = "none"]
     \/ UNCHANGED <<stored, command, calls, told>>
  /\ UNCHANGED <<visit, language, serverVars, answered, loose, leftVars>>

\* The same where the page was left meanwhile: the hook that goes on is the one of that page,
\* which had no intent when it began to wait, and the next page knows nothing of what it sends.
CheckedLate(left, i) ==
  /\ left \in abandoned /\ abandoned' = abandoned \ {left} /\ told[i] = "unasked"
  /\ \/ /\ stored' = [stored EXCEPT !.op = i]
        /\ calls' = calls \cup {[Call("operate", i) EXCEPT !.from = left]}
        /\ told' = [told EXCEPT ![i] = "none"]
        /\ loose' = loose \cup {i} /\ crossed' = crossed \cup ({i, stored.op} \ {None})
     \/ UNCHANGED <<stored, calls, told, loose, crossed>>
  /\ UNCHANGED <<visit, command, checking, language, serverVars, answered>>

\* resend: the same request once more.
Resend ==
  /\ command.pending # None /\ ~command.sending
  /\ SendIntent(command.pending)
  /\ UNCHANGED <<visit, checking, language, serverVars, told, answered, loose, leftVars>>

\* discard: ask whether it was committed.
Discard ==
  /\ command.pending # None /\ ~command.sending
  /\ command' = [command EXCEPT !.sending = TRUE]
  /\ calls' = calls \cup {Call("discard", command.pending)}
  /\ UNCHANGED <<visit, stored, checking, language, serverVars, told, answered, loose, leftVars>>

\* Mutation of Forgotten: whatever is stored is removed.
ForgottenAny(id) == [stored EXCEPT !.op = None]

\* remember(null, id): a page that was left may finish after the next one stored its own.
Forgotten(id) == [stored EXCEPT !.op = IF @ = id THEN None ELSE @]

\* What an answer to an operation or to its withdrawal means; "none": it is still open.
Meaning(call) ==
  CASE call.answer = "ok" -> "accepted"
    [] call.answer = "refused" /\ call.kind = "operate" -> "refused"
    [] call.answer = "missing" /\ call.kind = "discard" -> "withdrawn"
    [] OTHER -> "none"

\* An answer reaches the page that asked, be it mounted or left (not reloaded).
CommandAnswer(call) ==
  /\ call.kind \in {"operate", "discard"} /\ call.state = "back"
  /\ calls' = calls \ {call}
  /\ IF Meaning(call) = "none" THEN UNCHANGED <<stored, told, answered>>
     ELSE /\ stored' = Forgotten(call.id) /\ answered' = answered \cup {call.id}
          /\ told' = IF Mine(call) THEN [told EXCEPT ![call.id] = Meaning(call)] ELSE told
  /\ command' = IF ~Mine(call) THEN command
                ELSE [command EXCEPT !.sending = FALSE,
                        !.pending = IF Meaning(call) = "none" THEN @ ELSE None]
  /\ UNCHANGED <<visit, checking, language, serverVars, loose, leftVars>>

-----------------------------------------------------------------------------
(* useLanguageRequest.                                                     *)

\* perform: one call at a time, for the session as it is kept; a session that is settled is
\* only looked up.
Performed(session, lookup, from) ==
  [Call(IF lookup THEN "lookup" ELSE session.action, session.id) EXCEPT !.from = from]
Perform(session, lookup) ==
  /\ ~language.flight
  /\ calls' = calls \cup {Performed(session, lookup, visit)}
  /\ language' = [language EXCEPT !.flight = TRUE, !.issue = FALSE, !.rejected = FALSE]

\* begin: kept first, then sent.
Begin(session) ==
  /\ ~language.flight
  /\ stored' = [stored EXCEPT !.language = session]
  /\ calls' = calls \cup {Performed(session, FALSE, visit)}
  /\ language' = [Quiet(session) EXCEPT !.flight = TRUE]

\* submit and continueRequest: a request of its own, once the last one is settled.
Submit(r) ==
  /\ record[r] = "absent" /\ r # language.session.id /\ r \notin loose
  /\ \A call \in calls : call.id # r
  /\ ~LanguageLocked /\ ~CommandLocked
  /\ Begin([id |-> r, action |-> "submit"])
  /\ UNCHANGED <<visit, command, checking, serverVars, told, answered, loose, leftVars>>

\* confirm: what the page shows.
Confirm ==
  /\ language.response = "ready" /\ ~CommandLocked
  /\ Begin([id |-> language.session.id, action |-> "confirm"])
  /\ UNCHANGED <<visit, command, checking, serverVars, told, answered, loose, leftVars>>

\* The buttons of an uncertain request, and the look every two seconds.
Again ==
  /\ Uncertain
  /\ \/ \E lookup \in BOOLEAN : Perform(language.session, lookup)
     \/ /\ language.response = "interpreting" /\ ~language.issue
        /\ Perform(language.session, TRUE)
  /\ UNCHANGED <<visit, stored, command, checking, serverVars, told, answered, loose, leftVars>>

\* Once settled, the session is only looked up; before, what was sent can be sent again.
Kept(session, status) ==
  IF status \in Settled THEN [session EXCEPT !.action = "lookup"] ELSE session

\* perform, after its await: an answer, or a refusal without one.
LanguageAnswer(call) ==
  /\ call.kind \in {"submit", "confirm", "lookup"} /\ call.state = "back"
  /\ calls' = calls \ {call}
  /\ LET session == language.session
         rejected == \/ call.kind = "lookup" /\ call.answer = "missing" /\ session.action = "lookup"
                     \/ call.kind # "lookup" /\ call.answer = "refused"
     IN IF ~Mine(call) THEN UNCHANGED <<language, stored>>
        ELSE IF call.answer \in Statuses
        THEN /\ language' = [language EXCEPT !.flight = FALSE, !.response = call.answer,
                               !.session = Kept(session, call.answer)]
             /\ stored' = [stored EXCEPT !.language = Kept(session, call.answer)]
        ELSE /\ language' = [language EXCEPT !.flight = FALSE, !.issue = TRUE,
                               !.rejected = rejected]
             /\ UNCHANGED stored
  /\ UNCHANGED <<visit, command, checking, serverVars, told, answered, loose, leftVars>>

-----------------------------------------------------------------------------
(* The tab.                                                                *)

\* Nobody waits for the call any more; it may arrive all the same.
Orphaned(some) == {[call EXCEPT !.from = 0] : call \in {c \in some : c.state # "back"}}

\* The page is mounted again: both hooks read the storage, and a session is looked up.
Mount(others) ==
  /\ visit < MaxVisits /\ visit' = visit + 1
  /\ loose' = loose \cup {call.id : call \in calls}
  /\ command' = [Idle EXCEPT !.pending = stored.op] /\ checking' = FALSE
  /\ language' = [Quiet(stored.language) EXCEPT !.flight = stored.language.id # None]
  /\ calls' = others \cup (IF stored.language.id = None THEN {}
                           ELSE {Performed(stored.language, TRUE, visit + 1)})
  /\ UNCHANGED <<stored, serverVars, told, answered, crossed>>

\* The calls of a page that was left go on, and so does what waits for fresh views; a reload
\* ends them.
Leave == Mount(calls) /\ abandoned' = abandoned \cup (IF checking THEN {visit} ELSE {})
Reload == Mount(Orphaned(calls)) /\ abandoned' = {}

\* The network fails, the page's own clock aborts the call, or the server answers 5xx.
GiveUp(call) ==
  /\ call.from # 0 /\ Cardinality(loose \cup {call.id}) <= MaxLosses
  /\ loose' = loose \cup {call.id}
  /\ calls' = (calls \ {call}) \cup Orphaned({call})
  /\ IF ~Mine(call) THEN UNCHANGED <<command, language>>
     ELSE IF call.kind \in {"operate", "discard"}
     THEN command' = [command EXCEPT !.sending = FALSE] /\ UNCHANGED language
     ELSE language' = [language EXCEPT !.flight = FALSE, !.issue = TRUE] /\ UNCHANGED command
  /\ UNCHANGED <<visit, stored, checking, serverVars, told, answered, leftVars>>

-----------------------------------------------------------------------------
(* The server.                                                             *)

Back(call, answer) ==
  calls' = (calls \ {call}) \cup
             (IF call.from = 0 THEN {} ELSE {[call EXCEPT !.state = "back", !.answer = answer]})

ServeCommand(call) ==
  /\ call.state = "out"
  /\ \/ /\ call.kind = "operate" /\ committed' = committed \cup {call.id} /\ Back(call, "ok")
     \/ /\ call.kind = "operate" /\ call.id \notin committed
        /\ Back(call, "refused") /\ UNCHANGED committed
     \/ /\ call.kind = "discard" /\ UNCHANGED committed
        /\ Back(call, IF call.id \in committed THEN "ok" ELSE "missing")
  /\ UNCHANGED <<pageVars, record, told, answered, loose, leftVars>>

\* A request in words is interpreted while its call is held; others see that.
Hold(call) ==
  /\ call.kind = "submit" /\ call.state = "out" /\ record[call.id] \in {"absent", "interpreting"}
  /\ \A other \in calls : ~(other.id = call.id /\ other.state = "held")
  /\ record' = [record EXCEPT ![call.id] = "interpreting"]
  /\ calls' = (calls \ {call}) \cup {[call EXCEPT !.state = "held"]}
  /\ UNCHANGED <<pageVars, committed, told, answered, loose, leftVars>>

Interpret(call) ==
  /\ call.state = "held" /\ record[call.id] = "interpreting"
  /\ \E status \in Statuses \ {"interpreting"} :
       record' = [record EXCEPT ![call.id] = status] /\ Back(call, status)
  /\ UNCHANGED <<pageVars, committed, told, answered, loose, leftVars>>

\* What is recorded is answered; a prepared request is carried out when it is sent again, a
\* ready one when it is confirmed.
ServeLanguage(call) ==
  /\ call.state = "out"
  /\ \/ /\ call.kind = "submit" /\ record[call.id] = "absent"
        /\ Back(call, "refused") /\ UNCHANGED record
     \/ /\ call.kind = "submit" /\ record[call.id] = "prepared"
        /\ record' = [record EXCEPT ![call.id] = "done"] /\ Back(call, "done")
     \/ /\ call.kind = "submit" /\ record[call.id] \notin {"absent", "prepared"}
        /\ Back(call, record[call.id]) /\ UNCHANGED record
     \/ /\ call.kind = "confirm" /\ record[call.id] = "ready"
        /\ record' = [record EXCEPT ![call.id] = "done"] /\ Back(call, "done")
     \/ /\ call.kind = "confirm"
        /\ Back(call, IF record[call.id] = "done" THEN "done" ELSE "refused") /\ UNCHANGED record
     \/ /\ call.kind = "lookup" /\ UNCHANGED record
        /\ Back(call, IF record[call.id] = "absent" THEN "missing" ELSE record[call.id])
  /\ UNCHANGED <<pageVars, committed, told, answered, loose, leftVars>>

Next ==
  \/ \E i \in Intents : Execute(i) \/ Checked(i) \/ \E left \in abandoned : CheckedLate(left, i)
  \/ Check \/ Resend \/ Discard
  \/ \E r \in Requests : Submit(r)
  \/ Confirm \/ Again \/ Leave \/ Reload
  \/ \E call \in calls :
       \/ CommandAnswer(call) \/ LanguageAnswer(call) \/ GiveUp(call)
       \/ ServeCommand(call) \/ Hold(call) \/ Interpret(call) \/ ServeLanguage(call)

Spec == Init /\ [][Next]_vars

-----------------------------------------------------------------------------
(* Properties.                                                             *)

\* Identifiers of operations and of requests in words differ, and None is none of them and no
\* status.
IdentifiersDiffer ==
  /\ None \notin Intents \cup Requests \cup Statuses
  /\ Intents \cap Requests = {}

\* What a call is, which session is kept, and what goes over the network.
Kinds == {"operate", "discard", "submit", "confirm", "lookup"}
Sessions == [id : Requests \cup {None}, action : Kinds]
CallType == [kind : Kinds, id : Intents \cup Requests, from : Nat, state : {"out", "held", "back"},
             answer : Statuses \cup {"none", "ok", "refused", "missing"}]

\* What the tab keeps, the calls that are out and the server's records have their types.
TypeOK ==
  /\ visit \in Nat \ {0} /\ checking \in BOOLEAN /\ abandoned \subseteq 1 .. visit - 1
  /\ stored \in [op : Intents \cup {None}, language : Sessions]
  /\ command \in [pending : Intents \cup {None}, sending : BOOLEAN]
  /\ language \in [session : Sessions, response : Statuses \cup {None}, flight : BOOLEAN,
                   issue : BOOLEAN, rejected : BOOLEAN]
  /\ calls \subseteq CallType
  /\ committed \subseteq Intents /\ answered \subseteq Intents
  /\ record \in [Requests -> Statuses \cup {"absent"}]
  /\ told \in [Intents -> {"unasked", "none", "accepted", "refused", "withdrawn"}]
  /\ loose \subseteq Intents \cup Requests /\ crossed \subseteq Intents

\* "One user intent has one durable request ID": an intent nobody has an answer to is in the
\* storage, whatever page of the tab sent it.  It may be lost in one way: a page that was left
\* while it waited for fresh views sends its own, which takes the place of the one stored then,
\* and the page the user sees, which does not know of it, may send and store the next.
NothingIsForgotten ==
  \A i \in Intents \ crossed : told[i] = "none" /\ i \notin answered => stored.op = i

\* "A rejected 4xx has no committed effect", and a withdrawn request was not carried out:
\* unless another call of it was given up or left behind.
ToldIsTrue ==
  \A i \in Intents :
    /\ told[i] = "accepted" => i \in committed
    /\ told[i] \in {"refused", "withdrawn"} /\ i \in committed =>
         i \in loose

\* "Fenced responses": what the page shows as the end of a request is its end at the server,
\* and the session it would read again is the one it shows.
ResponseIsOfTheSession ==
  /\ language.response # None => record[language.session.id] # "absent"
  /\ language.response \in Settled \ {"ready"} => record[language.session.id] = language.response
  /\ stored.language = language.session

\* A request in words is given up for another only when the server is done with it, or waits
\* for the user.
LastIsSettled ==
  \A r \in Requests \ {language.session.id, stored.language.id} : r \notin loose =>
    /\ record[r] \notin {"interpreting", "prepared"}
    /\ \A call \in calls : call.id = r => call.kind = "lookup" \/ call.state = "back"

\* What a page of the tab may rely on.
PageKnowsItsRequests ==
  TypeOK /\ NothingIsForgotten /\ ToldIsTrue /\ ResponseIsOfTheSession /\ LastIsSettled
=============================================================================
