---------------------- MODULE OwnedProcessesProofs ----------------------
(***************************************************************************)
(* Proofs about OwnedProcesses, for any set of commands and any number of  *)
(* mishaps: what a scope reports is true (ReportsAreTrue), a failure that  *)
(* was latched on a command stays one (LatchedFailureSticks) and a failure *)
(* reaches every command that runs beside it (FailureReachesTheOthers).    *)
(*                                                                         *)
(* The invariant adds what the reports rest on: a command has no process   *)
(* before its launch is over, a session without a gate is empty, a launch  *)
(* that somebody stops belongs to a scope that is not open any more, a     *)
(* confirmed session stays empty, and a watcher that left its loop has a   *)
(* reason and no outcome yet.                                              *)
(***************************************************************************)
EXTENDS OwnedProcesses, TLAPS

\* Before its launch is over a command has no process, no watcher, no record.
NothingBeforeLaunch ==
  \A c \in Commands :
    start[c] # "up" => /\ gate[c] = "none"
                       /\ control[c] = "empty"
                       /\ watch[c] = "none"
                       /\ outcome[c] = "none"

\* A session that never had a gate never had a target.
GateComesFirst ==
  \A c \in Commands : gate[c] = "none" => target[c] = "none" /\ ~helper[c]

\* Only a registered command is stopped, and only by close() while it is launched.
StoppedAreRegistered ==
  \A c \in Commands :
    stop[c] # "none" \/ killed[c] # "no" =>
      /\ c \in Registered
      /\ start[c] = "launching" => phase # "open"

\* A confirmed termination has emptied the session for good.
ConfirmedIsGone ==
  \A c \in Commands : killed[c] = "confirmed" => ~Alive(c)

\* After a confirmed teardown no command has a gate that could start its target.
ClosedIsSilent ==
  phase = "closed" /\ confirmed => \A c \in Commands : ~Alive(c)

\* The watcher decides once, and for a reason.
WatcherDecidesOnce ==
  \A c \in Commands :
    /\ watch[c] \in {"ending", "resolving", "done"} => reason[c] # "none"
    /\ watch[c] \in {"watching", "draining", "ending"} => outcome[c] = "none"

Inv ==
  /\ TypeOK
  /\ NothingBeforeLaunch
  /\ GateComesFirst
  /\ StoppedAreRegistered
  /\ ConfirmedIsGone
  /\ ClosedIsSilent
  /\ WatcherDecidesOnce
  /\ CompletedIsClean
  /\ FailureHasCause

-----------------------------------------------------------------------------
(* What the operators of the model return.                                 *)

\* A latched reason is a reason.
LEMMA LatchedIsAReason ==
  ASSUME TypeOK, NEW S, NEW r \in OwnedOutcome
  PROVE  Latched(S, r) \in [Commands -> OwnedOutcome \cup {"none"}]
  BY DEF TypeOK, Latched, OwnedOutcome, Failures

\* A latched reason never replaces a failure by less.
LEMMA LatchedGivesWay ==
  ASSUME TypeOK, NEW S, NEW r \in OwnedOutcome, NEW d \in Commands
  PROVE  /\ stopReason[d] \in Failures => Latched(S, r)[d] \in Failures
         /\ r \in Failures /\ d \in S /\ outcome[d] = "none" /\ ~Recorded(d)
              => Latched(S, r)[d] \in Failures
  BY DEF TypeOK, Latched, Priority, OwnedOutcome, Failures

\* The reason of a watcher is an outcome.
LEMMA SeenIsAnOutcome ==
  ASSUME TypeOK, NEW c \in Commands
  PROVE  Seen(c) \in OwnedOutcome \cup {"none"}
  BY DEF TypeOK, Seen, OwnedOutcome, Failures

\* The verdict is an outcome; it is a failure when one was latched, and a
\* completion only for a recorded end, confirmed and within the output limit.
LEMMA VerdictIsAnOutcome ==
  ASSUME TypeOK, NEW c \in Commands, Ended(c), reason[c] # "none"
  PROVE  /\ Verdict(c) \in OwnedOutcome
         /\ stopReason[c] \in Failures => Verdict(c) \in Failures
         /\ Verdict(c) = "completed" => Exited(c) /\ ~overflow[c] /\ killed[c] = "confirmed"
<1> DEFINE left == IF killed[c] = "failed" THEN "teardown_failed" ELSE reason[c]
           latched == {left, stopReason[c]}
           late == CASE "teardown_failed" \in latched -> "teardown_failed"
                     [] "teardown_failed" \notin latched
                          /\ (memoryLost \/ "memory_limit" \in latched) -> "memory_limit"
                     [] OTHER -> IF overflow[c] \/ "output_limit" \in latched THEN "output_limit"
                                 ELSE IF "timeout" \in latched THEN "timeout"
                                 ELSE IF stopReason[c] # "none" THEN stopReason[c]
                                 ELSE left
<1>1. /\ left \in OwnedOutcome
      /\ stopReason[c] \in OwnedOutcome \cup {"none"}
      /\ killed[c] = "failed" => left = "teardown_failed"
      /\ killed[c] \in {"confirmed", "failed"}
  BY DEF TypeOK, Ended, OwnedOutcome, Failures
<1>2. /\ late \in OwnedOutcome
      /\ stopReason[c] \in Failures => late \in Failures
      /\ late = "completed" => ~overflow[c] /\ left # "teardown_failed"
  BY <1>1 DEF OwnedOutcome, Failures
<1>3. Verdict(c) = IF late = "completed" /\ ~Exited(c)
                   THEN IF control[c] = "launch_failed" THEN "launch_failed" ELSE "teardown_failed"
                   ELSE late
  BY DEF Verdict
<1> HIDE DEF left, late
<1> QED BY <1>1, <1>2, <1>3 DEF OwnedOutcome, Failures

\* A command that was not launched for good keeps a failure that was latched on
\* it, and it is released only into an open scope.
LEMMA ReasonAtLaunchIsJust ==
  ASSUME Inv, NEW c \in Commands, start[c] = "launching"
  PROVE  /\ ReasonAtLaunch(c) \in OwnedOutcome \cup {"none"}
         /\ stopReason[c] \in Failures => ReasonAtLaunch(c) \in Failures
         /\ ReasonAtLaunch(c) = "none" => phase = "open"
<1>1. TypeOK /\ outcome[c] = "none" /\ ~Recorded(c)
  BY DEF Inv, NothingBeforeLaunch, Recorded, Exited
<1>2. "launch_failed" \in OwnedOutcome /\ "launch_failed" \in Failures
  BY DEF OwnedOutcome, Failures
<1>3. /\ Latched({c}, "launch_failed") \in [Commands -> OwnedOutcome \cup {"none"}]
      /\ Latched({c}, "launch_failed")[c] \in Failures
  BY <1>1, <1>2, LatchedIsAReason, LatchedGivesWay
<1> QED BY <1>1, <1>3 DEF ReasonAtLaunch, TypeOK, OwnedOutcome, Failures

\* A kill leaves every variable in its range and every record as it was.  A session
\* of S has no gate left, and no process at all unless one was forked too late.
LEMMA KillEmpties ==
  ASSUME Inv, NEW S \in SUBSET Commands, NEW late \in SUBSET Forking(S), Kill(S, late)
  PROVE  /\ gate' \in [Commands -> {"none", "waiting", "released", "gone"}]
         /\ target' \in [Commands -> {"none", "alive", "ok", "bad", "killed"}]
         /\ helper' \in [Commands -> BOOLEAN]
         /\ UNCHANGED <<control, overflow, due>>
         /\ \A d \in Commands : /\ (gate[d] = "none") <=> (gate'[d] = "none")
                                /\ gate[d] = "none" => target'[d] = "none" /\ ~helper'[d]
                                /\ ~Alive(d) => ~Alive(d)'
                                /\ d \in S \ late => ~Alive(d)'
<1>1. gate' \in [Commands -> {"none", "waiting", "released", "gone"}]
  BY DEF Inv, TypeOK, Kill
<1>2. target' \in [Commands -> {"none", "alive", "ok", "bad", "killed"}]
  BY DEF Inv, TypeOK, Kill
<1>3. helper' \in [Commands -> BOOLEAN]
  <2>1. helper \in [Commands -> BOOLEAN]
    BY DEF Inv, TypeOK
  <2>2. helper' = [d \in Commands |-> IF d \in S THEN d \in late ELSE helper[d]]
    BY DEF Kill
  <2>3. ASSUME NEW d \in Commands
        PROVE  (IF d \in S THEN d \in late ELSE helper[d]) \in BOOLEAN
    <3>1. helper[d] \in BOOLEAN
      BY <2>1
    <3>2. (d \in late) \in BOOLEAN
      OBVIOUS
    <3> QED BY <3>1, <3>2
  <2> QED BY <2>2, <2>3
<1>4. UNCHANGED <<control, overflow, due>>
  BY DEF Kill
<1>5. ASSUME NEW d \in Commands
      PROVE  /\ gate'[d] = IF d \in S /\ gate[d] # "none" THEN "gone" ELSE gate[d]
             /\ target'[d] = IF d \in S /\ target[d] = "alive" THEN "killed" ELSE target[d]
             /\ helper'[d] = IF d \in S THEN d \in late ELSE helper[d]
             /\ d \in late => d \in S /\ (target[d] = "alive" \/ helper[d])
  BY DEF Kill, Forking
<1>6. \A d \in Commands : gate[d] = "none" => target[d] = "none" /\ ~helper[d]
  BY DEF Inv, GateComesFirst
<1> QED BY <1>1, <1>2, <1>3, <1>4, <1>5, <1>6 DEF Alive

-----------------------------------------------------------------------------
(* One lemma per action: it keeps the invariant.                           *)

\* A command that asks to be started has no process yet.
LEMMA StartKeeps ==
  ASSUME Inv, NEW c \in Commands, Start(c)
  PROVE  Inv'
<1>1. TypeOK'
  BY NoCommandAssumption, MaxMishapsAssumption DEF Inv, Start, TypeOK, scopeVars, processVars, childVars, Mishap, Inside
<1>2. QED
  BY <1>1 DEF Inv, Start, TypeOK, NothingBeforeLaunch, GateComesFirst, StoppedAreRegistered, ConfirmedIsGone,
            ClosedIsSilent, WatcherDecidesOnce, CompletedIsClean, FailureHasCause,
            scopeVars, processVars, childVars, Registered, Alive, Exited, Failures, Inside, Ended,
            SessionIsGone

\* Whoever gets the lock is the only one who launches, whatever the scope has become.
LEMMA RegisterKeeps ==
  ASSUME Inv, NEW c \in Commands, Register(c)
  PROVE  Inv'
<1>1. TypeOK'
  BY NoCommandAssumption, MaxMishapsAssumption DEF Inv, Register, TypeOK, scopeVars, processVars, childVars, Mishap, Inside
<1>2. QED
  BY <1>1 DEF Inv, Register, TypeOK, NothingBeforeLaunch, GateComesFirst, StoppedAreRegistered, ConfirmedIsGone,
            ClosedIsSilent, WatcherDecidesOnce, CompletedIsClean, FailureHasCause,
            scopeVars, processVars, childVars, Registered, Alive, Exited, Failures, Inside, Ended,
            SessionIsGone

\* Only a released gate starts a target, and no confirmed session has one.
LEMMA GateStartsKeeps ==
  ASSUME Inv, NEW c \in Commands, GateStarts(c)
  PROVE  Inv'
<1>1. TypeOK'
  BY NoCommandAssumption, MaxMishapsAssumption DEF Inv, GateStarts, TypeOK, scopeVars, processVars, childVars, Mishap, Inside
<1>2. QED
  BY <1>1 DEF Inv, GateStarts, TypeOK, NothingBeforeLaunch, GateComesFirst, StoppedAreRegistered, ConfirmedIsGone,
            ClosedIsSilent, WatcherDecidesOnce, CompletedIsClean, FailureHasCause,
            scopeVars, processVars, childVars, Registered, Alive, Exited, Failures, Inside, Ended,
            SessionIsGone

\* A target that ends by itself leaves everything else as it was.
LEMMA TargetEndsKeeps ==
  ASSUME Inv, NEW c \in Commands, TargetEnds(c)
  PROVE  Inv'
<1>1. TypeOK'
  BY NoCommandAssumption, MaxMishapsAssumption DEF Inv, TargetEnds, TypeOK, scopeVars, processVars, childVars, Mishap, Inside
<1>2. QED
  BY <1>1 DEF Inv, TargetEnds, TypeOK, NothingBeforeLaunch, GateComesFirst, StoppedAreRegistered, ConfirmedIsGone,
            ClosedIsSilent, WatcherDecidesOnce, CompletedIsClean, FailureHasCause,
            scopeVars, processVars, childVars, Registered, Alive, Exited, Failures, Inside, Ended,
            SessionIsGone

\* The gate records an end before it leaves; a completed command has no gate left.
LEMMA GateRecordsKeeps ==
  ASSUME Inv, NEW c \in Commands, GateRecords(c)
  PROVE  Inv'
<1>1. TypeOK'
  BY NoCommandAssumption, MaxMishapsAssumption DEF Inv, GateRecords, TypeOK, scopeVars, processVars, childVars, Mishap, Inside
<1>2. QED
  BY <1>1 DEF Inv, GateRecords, TypeOK, NothingBeforeLaunch, GateComesFirst, StoppedAreRegistered, ConfirmedIsGone,
            ClosedIsSilent, WatcherDecidesOnce, CompletedIsClean, FailureHasCause,
            scopeVars, processVars, childVars, Registered, Alive, Exited, Failures, Inside, Ended,
            SessionIsGone

\* A gate that kills its target on request records that it did.
LEMMA GateStopsKeeps ==
  ASSUME Inv, NEW c \in Commands, GateStops(c)
  PROVE  Inv'
<1>1. TypeOK'
  BY NoCommandAssumption, MaxMishapsAssumption DEF Inv, GateStops, TypeOK, scopeVars, processVars, childVars, Mishap, Inside
<1>2. QED
  BY <1>1 DEF Inv, GateStops, TypeOK, NothingBeforeLaunch, GateComesFirst, StoppedAreRegistered, ConfirmedIsGone,
            ClosedIsSilent, WatcherDecidesOnce, CompletedIsClean, FailureHasCause,
            scopeVars, processVars, childVars, Registered, Alive, Exited, Failures, Inside, Ended,
            SessionIsGone

\* A helper is forked by a living target only, so by no confirmed session.
LEMMA ForkKeeps ==
  ASSUME Inv, NEW c \in Commands, Fork(c)
  PROVE  Inv'
<1>1. TypeOK'
  BY NoCommandAssumption, MaxMishapsAssumption DEF Inv, Fork, TypeOK, scopeVars, processVars, childVars, Mishap, Inside
<1>2. QED
  BY <1>1 DEF Inv, Fork, TypeOK, NothingBeforeLaunch, GateComesFirst, StoppedAreRegistered, ConfirmedIsGone,
            ClosedIsSilent, WatcherDecidesOnce, CompletedIsClean, FailureHasCause,
            scopeVars, processVars, childVars, Registered, Alive, Exited, Failures, Inside, Ended,
            SessionIsGone

\* The output of a decided command is not counted any more.
LEMMA OverflowKeeps ==
  ASSUME Inv, NEW c \in Commands, Overflow(c)
  PROVE  Inv'
<1>1. TypeOK'
  BY NoCommandAssumption, MaxMishapsAssumption DEF Inv, Overflow, TypeOK, scopeVars, processVars, childVars, Mishap, Inside
<1>2. QED
  BY <1>1 DEF Inv, Overflow, TypeOK, NothingBeforeLaunch, GateComesFirst, StoppedAreRegistered, ConfirmedIsGone,
            ClosedIsSilent, WatcherDecidesOnce, CompletedIsClean, FailureHasCause,
            scopeVars, processVars, childVars, Registered, Alive, Exited, Failures, Inside, Ended,
            SessionIsGone

\* A deadline that passes changes no report.
LEMMA DeadlineKeeps ==
  ASSUME Inv, NEW c \in Commands, Deadline(c)
  PROVE  Inv'
<1>1. TypeOK'
  BY NoCommandAssumption, MaxMishapsAssumption DEF Inv, Deadline, TypeOK, scopeVars, processVars, childVars, Mishap, Inside
<1>2. QED
  BY <1>1 DEF Inv, Deadline, TypeOK, NothingBeforeLaunch, GateComesFirst, StoppedAreRegistered, ConfirmedIsGone,
            ClosedIsSilent, WatcherDecidesOnce, CompletedIsClean, FailureHasCause,
            scopeVars, processVars, childVars, Registered, Alive, Exited, Failures, Inside, Ended,
            SessionIsGone

\* A termination is confirmed when the session is empty.
LEMMA ConfirmKeeps ==
  ASSUME Inv, NEW c \in Commands, Confirm(c)
  PROVE  Inv'
<1>1. TypeOK'
  BY NoCommandAssumption, MaxMishapsAssumption DEF Inv, Confirm, TypeOK, scopeVars, processVars, childVars, Mishap, Inside
<1>2. QED
  BY <1>1 DEF Inv, Confirm, TypeOK, NothingBeforeLaunch, GateComesFirst, StoppedAreRegistered, ConfirmedIsGone,
            ClosedIsSilent, WatcherDecidesOnce, CompletedIsClean, FailureHasCause,
            scopeVars, processVars, childVars, Registered, Alive, Exited, Failures, Inside, Ended,
            SessionIsGone

\* A termination that is given up confirms nothing.
LEMMA GiveUpKeeps ==
  ASSUME Inv, NEW c \in Commands, GiveUp(c)
  PROVE  Inv'
<1>1. TypeOK'
  BY NoCommandAssumption, MaxMishapsAssumption DEF Inv, GiveUp, TypeOK, scopeVars, processVars, childVars, Mishap, Inside
<1>2. QED
  BY <1>1 DEF Inv, GiveUp, TypeOK, NothingBeforeLaunch, GateComesFirst, StoppedAreRegistered, ConfirmedIsGone,
            ClosedIsSilent, WatcherDecidesOnce, CompletedIsClean, FailureHasCause,
            scopeVars, processVars, childVars, Registered, Alive, Exited, Failures, Inside, Ended,
            SessionIsGone

\* stop() waits or raises without deciding anything itself.
LEMMA StopWaitsKeeps ==
  ASSUME Inv, NEW c \in Commands, StopWaits(c)
  PROVE  Inv'
<1>1. TypeOK'
  BY NoCommandAssumption, MaxMishapsAssumption DEF Inv, StopWaits, TypeOK, scopeVars, processVars, childVars, Mishap, Inside
<1>2. QED
  BY <1>1 DEF Inv, StopWaits, TypeOK, NothingBeforeLaunch, GateComesFirst, StoppedAreRegistered, ConfirmedIsGone,
            ClosedIsSilent, WatcherDecidesOnce, CompletedIsClean, FailureHasCause,
            scopeVars, processVars, childVars, Registered, Alive, Exited, Failures, Inside, Ended,
            SessionIsGone

\* stop() returns without deciding anything itself.
LEMMA StopReturnsKeeps ==
  ASSUME Inv, NEW c \in Commands, StopReturns(c)
  PROVE  Inv'
<1>1. TypeOK'
  BY NoCommandAssumption, MaxMishapsAssumption DEF Inv, StopReturns, TypeOK, scopeVars, processVars, childVars, Mishap, Inside
<1>2. QED
  BY <1>1 DEF Inv, StopReturns, TypeOK, NothingBeforeLaunch, GateComesFirst, StoppedAreRegistered, ConfirmedIsGone,
            ClosedIsSilent, WatcherDecidesOnce, CompletedIsClean, FailureHasCause,
            scopeVars, processVars, childVars, Registered, Alive, Exited, Failures, Inside, Ended,
            SessionIsGone

\* The watcher leaves its loop with a reason, or with a gate that has left.
LEMMA WatchSeesKeeps ==
  ASSUME Inv, NEW c \in Commands, WatchSees(c)
  PROVE  Inv'
<1>1. TypeOK'
  <2>1. reason' \in [Commands -> OwnedOutcome \cup {"none"}]
    BY SeenIsAnOutcome DEF Inv, WatchSees, TypeOK
  <2> QED BY <2>1 DEF Inv, WatchSees, TypeOK, scopeVars, processVars
<1>2. QED
  BY <1>1 DEF Inv, WatchSees, TypeOK, NothingBeforeLaunch, GateComesFirst, StoppedAreRegistered, ConfirmedIsGone,
            ClosedIsSilent, WatcherDecidesOnce, CompletedIsClean, FailureHasCause,
            scopeVars, processVars, childVars, Registered, Alive, Exited, Failures, Inside, Ended,
            SessionIsGone

\* A watcher whose pipes are drained has a reason.
LEMMA DrainedKeeps ==
  ASSUME Inv, NEW c \in Commands, Drained(c)
  PROVE  Inv'
<1>1. TypeOK'
  <2>1. reason' \in [Commands -> OwnedOutcome \cup {"none"}]
    BY DEF Inv, Drained, TypeOK, OwnedOutcome, Failures
  <2> QED BY <2>1 DEF Inv, Drained, TypeOK, scopeVars, processVars
<1>2. QED
  BY <1>1 DEF Inv, Drained, TypeOK, NothingBeforeLaunch, GateComesFirst, StoppedAreRegistered, ConfirmedIsGone,
            ClosedIsSilent, WatcherDecidesOnce, CompletedIsClean, FailureHasCause,
            scopeVars, processVars, childVars, Registered, Alive, Exited, Failures, Inside, Ended,
            SessionIsGone

\* A command whose launch meets a deadline, a lost memory or a scope that is not
\* open does not get its byte: its gate leaves without a target.
LEMMA SpawnKeeps ==
  ASSUME Inv, NEW c \in Commands, Spawn(c)
  PROVE  Inv'
<1>1. /\ start[c] = "launching" /\ lock = c
      /\ gate[c] = "none" /\ target[c] = "none" /\ ~helper[c] /\ outcome[c] = "none"
      /\ killed[c] # "no" => phase # "open"
  BY DEF Inv, Spawn, TypeOK, NothingBeforeLaunch, GateComesFirst, StoppedAreRegistered
<1>2. /\ ReasonAtLaunch(c) \in OwnedOutcome \cup {"none"}
      /\ ReasonAtLaunch(c) = "none" => phase = "open"
  BY <1>1, ReasonAtLaunchIsJust
<1>3. /\ gate'[c] \in {"released", "gone"}
      /\ gate'[c] = "released" => phase = "open"
      /\ \A d \in Commands \ {c} : gate'[d] = gate[d]
      /\ gate' \in [Commands -> {"none", "waiting", "released", "gone"}]
  BY <1>2 DEF Spawn, Inv, TypeOK
<1>4. stopReason' \in [Commands -> OwnedOutcome \cup {"none"}]
  BY <1>2 DEF Spawn, Inv, TypeOK
<1>5. TypeOK'
  BY <1>1, <1>3, <1>4, NoCommandAssumption DEF Spawn, Inv, TypeOK
<1>6. /\ start' = [start EXCEPT ![c] = "up"]
      /\ watch' = [watch EXCEPT ![c] = "watching"]
      /\ UNCHANGED <<phase, failed, memoryLost, confirmed, target, helper, control, overflow,
                     reason, stop, killed, outcome>>
  BY DEF Spawn
<1>7. ConfirmedIsGone' /\ ClosedIsSilent' /\ GateComesFirst'
  BY <1>1, <1>3, <1>6 DEF Inv, TypeOK, ConfirmedIsGone, ClosedIsSilent, GateComesFirst, Alive
<1>8. NothingBeforeLaunch' /\ StoppedAreRegistered' /\ WatcherDecidesOnce'
  BY <1>1, <1>3, <1>6 DEF Inv, TypeOK, NothingBeforeLaunch, StoppedAreRegistered,
                          WatcherDecidesOnce, Registered
<1>9. CompletedIsClean' /\ FailureHasCause'
  BY <1>1, <1>3, <1>6 DEF Inv, TypeOK, CompletedIsClean, FailureHasCause, Alive, Exited, Failures
<1> QED BY <1>5, <1>7, <1>8, <1>9 DEF Inv

\* A launch that fails has left no process, and it is a cause of the scope's failure.
LEMMA SpawnFailsKeeps ==
  ASSUME Inv, NEW c \in Commands, SpawnFails(c)
  PROVE  Inv'
<1>1. /\ start[c] = "launching" /\ lock = c
      /\ gate[c] = "none" /\ target[c] = "none" /\ ~helper[c] /\ watch[c] = "none"
  BY DEF Inv, SpawnFails, TypeOK, NothingBeforeLaunch, GateComesFirst
<1>2. outcome' \in [Commands -> OwnedOutcome \cup {"none"}]
  BY DEF SpawnFails, Inv, TypeOK, OwnedOutcome, Failures
<1>3. TypeOK'
  BY <1>1, <1>2, NoCommandAssumption, MaxMishapsAssumption
     DEF SpawnFails, Inv, TypeOK, processVars, Mishap
<1>4. /\ start' = [start EXCEPT ![c] = "up"]
      /\ killed' = [killed EXCEPT ![c] = "confirmed"]
      /\ outcome' = [outcome EXCEPT ![c] = "launch_failed"]
      /\ UNCHANGED <<phase, memoryLost, confirmed, gate, target, helper, control, overflow,
                     watch, reason, stop>>
  BY DEF SpawnFails, processVars
<1>5. NothingBeforeLaunch' /\ GateComesFirst' /\ ConfirmedIsGone' /\ ClosedIsSilent'
  BY <1>1, <1>4 DEF Inv, TypeOK, NothingBeforeLaunch, GateComesFirst, ConfirmedIsGone,
                    ClosedIsSilent, Alive
<1>6. StoppedAreRegistered' /\ WatcherDecidesOnce'
  BY <1>1, <1>4 DEF Inv, TypeOK, StoppedAreRegistered, WatcherDecidesOnce, Registered
<1>7. CompletedIsClean' /\ FailureHasCause'
  BY <1>1, <1>4 DEF Inv, TypeOK, CompletedIsClean, FailureHasCause, Alive, Exited, Failures
<1> QED BY <1>3, <1>5, <1>6, <1>7 DEF Inv

\* A kill keeps the invariant when nothing but the processes and the progress of
\* their termination, which it does not confirm, changes with it.
LEMMA KillKeeps ==
  ASSUME Inv, NEW S \in SUBSET Commands, NEW late \in SUBSET Forking(S), Kill(S, late),
         TypeOK',
         UNCHANGED <<phase, failed, memoryLost, confirmed, start, watch, reason, stop, outcome>>,
         \A d \in Commands : \/ killed'[d] = killed[d]
                             \/ /\ killed'[d] \in {"watch", "stop"} /\ killed[d] = "no"
                                /\ start[d] = "up"
  PROVE  Inv'
<1>1. /\ UNCHANGED <<control, overflow, due>>
      /\ \A d \in Commands : /\ (gate[d] = "none") <=> (gate'[d] = "none")
                             /\ gate[d] = "none" => target'[d] = "none" /\ ~helper'[d]
                             /\ ~Alive(d) => ~Alive(d)'
  BY KillEmpties
<1>2. NothingBeforeLaunch' /\ GateComesFirst'
  BY <1>1 DEF Inv, NothingBeforeLaunch, GateComesFirst
<1>3. StoppedAreRegistered' /\ WatcherDecidesOnce'
  BY DEF Inv, StoppedAreRegistered, WatcherDecidesOnce, Registered
<1>4. ConfirmedIsGone' /\ ClosedIsSilent'
  BY <1>1 DEF Inv, ConfirmedIsGone, ClosedIsSilent
<1>5. CompletedIsClean' /\ FailureHasCause'
  <2>1. \A d \in Commands : killed[d] = "confirmed" => killed'[d] = "confirmed"
    OBVIOUS
  <2>2. \A d \in Commands : Exited(d)' = Exited(d)
    BY <1>1 DEF Exited
  <2> QED BY <1>1, <2>1, <2>2 DEF Inv, CompletedIsClean, FailureHasCause
<1> QED BY <1>2, <1>3, <1>4, <1>5 DEF Inv

\* A termination begins: it confirms at once what was never spawned, and kills
\* the session of a command that is up.
LEMMA TerminateKeeps ==
  ASSUME Inv, NEW c \in Commands, NEW who \in {"watch", "stop"}, Terminate(c, who)
  PROVE  Inv'
<1>1. /\ killed[c] = "no"
      /\ watch[c] = "ending" \/ stop[c] = "ending"
      /\ start[c] \in {"launching", "up"}
      /\ start[c] = "launching" => phase # "open" /\ gate[c] = "none"
      /\ UNCHANGED <<mishaps, scopeVars, start, asked, stopReason, watch, reason, stop, outcome>>
  BY DEF Terminate, Inv, TypeOK, NothingBeforeLaunch, StoppedAreRegistered, Registered
<1>2. CASE start[c] = "launching"
  <2>1. killed' = [killed EXCEPT ![c] = "confirmed"] /\ UNCHANGED processVars
    BY <1>2 DEF Terminate
  <2>2. TypeOK'
    BY <1>1, <2>1 DEF Inv, TypeOK, scopeVars, processVars
  <2> QED BY <1>1, <1>2, <2>1, <2>2
             DEF Inv, TypeOK, NothingBeforeLaunch, GateComesFirst, StoppedAreRegistered,
                 ConfirmedIsGone, ClosedIsSilent, WatcherDecidesOnce, CompletedIsClean,
                 FailureHasCause, scopeVars, processVars, Registered, Alive, Exited, Failures
<1>3. CASE start[c] = "up"
  <2>1. /\ killed' = [killed EXCEPT ![c] = who]
        /\ Kill({c}, {}) \/ (Forking({c}) # {} /\ Kill({c}, {c}))
    BY <1>3 DEF Terminate
  <2>2. PICK late \in SUBSET Forking({c}) : Kill({c}, late)
    BY <2>1 DEF Forking
  <2>3. /\ gate' \in [Commands -> {"none", "waiting", "released", "gone"}]
        /\ target' \in [Commands -> {"none", "alive", "ok", "bad", "killed"}]
        /\ helper' \in [Commands -> BOOLEAN]
        /\ UNCHANGED <<control, overflow, due>>
    BY <2>2, KillEmpties
  <2>4. TypeOK'
    BY <1>1, <2>1, <2>3 DEF Inv, TypeOK, scopeVars
  <2>5. \A d \in Commands : \/ killed'[d] = killed[d]
                            \/ /\ killed'[d] \in {"watch", "stop"} /\ killed[d] = "no"
                               /\ start[d] = "up"
    BY <1>1, <1>3, <2>1 DEF Inv, TypeOK
  <2> QED BY <1>1, <2>2, <2>4, <2>5, KillKeeps DEF scopeVars
<1> QED BY <1>1, <1>2, <1>3

\* The kill is repeated.
LEMMA KillAgainKeeps ==
  ASSUME Inv, NEW c \in Commands, KillAgain(c)
  PROVE  Inv'
<1>1. Kill({c}, {}) /\ UNCHANGED <<mishaps, scopeVars, childVars>>
  BY DEF KillAgain
<1>2. /\ gate' \in [Commands -> {"none", "waiting", "released", "gone"}]
      /\ target' \in [Commands -> {"none", "alive", "ok", "bad", "killed"}]
      /\ helper' \in [Commands -> BOOLEAN]
      /\ UNCHANGED <<control, overflow, due>>
  BY <1>1, KillEmpties
<1>3. TypeOK'
  BY <1>1, <1>2 DEF Inv, TypeOK, scopeVars, childVars
<1> QED BY <1>1, <1>3, KillKeeps DEF scopeVars, childVars

\* The watcher decides: a completion has a recorded end and an empty session, and
\* a verdict that fails the scope is its cause, unless the scope had one before.
LEMMA ResolveKeeps ==
  ASSUME Inv, NEW c \in Commands, Resolve(c)
  PROVE  Inv'
<1>1. /\ watch[c] = "ending" /\ Ended(c) /\ reason[c] # "none" /\ outcome[c] = "none"
      /\ start[c] = "up"
      /\ outcome' = [outcome EXCEPT ![c] = Verdict(c)]
      /\ watch' = [watch EXCEPT ![c] = "done"]
      /\ failed' = (failed \/ Poisons(c))
      /\ UNCHANGED <<mishaps, phase, memoryLost, confirmed, members, lock, processVars,
                     start, asked, reason, stop, killed>>
  BY DEF Resolve, Inv, WatcherDecidesOnce, NothingBeforeLaunch
<1>2. /\ Verdict(c) \in OwnedOutcome
      /\ Verdict(c) = "completed" => Exited(c) /\ ~overflow[c] /\ killed[c] = "confirmed"
  BY <1>1, VerdictIsAnOutcome DEF Inv
<1>3. stopReason' \in [Commands -> OwnedOutcome \cup {"none"}]
  <2>1. (IF Verdict(c) # "completed" THEN Verdict(c) ELSE "teardown_failed") \in OwnedOutcome
    BY <1>2 DEF OwnedOutcome, Failures
  <2> QED BY <2>1, LatchedIsAReason DEF Resolve, Inv, TypeOK
<1>4. failed' \in BOOLEAN
  BY <1>1
<1>5. TypeOK'
  BY <1>1, <1>2, <1>3, <1>4 DEF Inv, TypeOK, processVars
<1>6. NothingBeforeLaunch' /\ GateComesFirst' /\ StoppedAreRegistered' /\ ConfirmedIsGone'
        /\ ClosedIsSilent' /\ WatcherDecidesOnce'
  BY <1>1 DEF Inv, TypeOK, NothingBeforeLaunch, GateComesFirst, StoppedAreRegistered,
              ConfirmedIsGone, ClosedIsSilent, WatcherDecidesOnce, processVars, Registered, Alive
<1>7. CompletedIsClean'
  BY <1>1, <1>2 DEF Inv, TypeOK, CompletedIsClean, ConfirmedIsGone, processVars, Alive, Exited
<1>8. FailureHasCause'
  <2>1. /\ outcome'[c] = Verdict(c)
        /\ \A d \in Commands \ {c} : outcome'[d] = outcome[d]
        /\ UNCHANGED <<memoryLost, control>>
    BY <1>1 DEF Inv, TypeOK, processVars
  <2>2. CASE failed
    BY <1>1, <2>1, <2>2 DEF Inv, FailureHasCause, Failures
  <2>3. CASE ~failed /\ failed'
    <3>1. Verdict(c) # "completed" \/ (control[c] # "ok" /\ control[c] # "stopped")
      BY <1>1, <2>3 DEF Poisons, Administrative
    <3>2. Verdict(c) \in Failures \/ (Verdict(c) = "completed" /\ control[c] = "bad")
      BY <1>2, <3>1 DEF OwnedOutcome, Exited
    <3> QED BY <2>1, <3>2 DEF FailureHasCause
  <2> QED BY <2>2, <2>3 DEF FailureHasCause
<1> QED BY <1>5, <1>6, <1>7, <1>8 DEF Inv

\* The first step of stop() asks, or times out, commands that are registered.
LEMMA AskingKeeps ==
  ASSUME Inv, NEW S \in SUBSET Registered, Asking(S),
         phase' \in {"open", "closing"}, members' \in SUBSET Commands,
         \/ phase' = "closing"
         \/ phase' = phase /\ \A d \in S : start[d] = "up",
         UNCHANGED <<mishaps, failed, memoryLost, confirmed, lock, processVars,
                     start, watch, reason, killed, outcome>>
  PROVE  Inv'
<1>1. /\ stop' \in [Commands -> {"none", "asked", "ending", "waiting", "done", "raised"}]
      /\ asked' \in [Commands -> BOOLEAN]
      /\ stopReason' \in [Commands -> OwnedOutcome \cup {"none"}]
  <2>1. stop' \in [Commands -> {"none", "asked", "ending", "waiting", "done", "raised"}]
    BY DEF Asking, Inv, TypeOK
  <2>2. asked' \in [Commands -> BOOLEAN]
    BY DEF Asking, Inv, TypeOK
  <2>3. stopReason' \in [Commands -> OwnedOutcome \cup {"none"}]
    BY DEF Asking, Inv, TypeOK, OwnedOutcome, Failures
  <2> QED BY <2>1, <2>2, <2>3
<1>2. TypeOK'
  BY <1>1 DEF Inv, TypeOK, processVars
<1>3. \A d \in Commands : d \notin S => stop'[d] = stop[d]
  BY DEF Asking
<1>4. StoppedAreRegistered'
  BY <1>3 DEF Inv, StoppedAreRegistered, Registered
<1>5. phase' = "closed" => phase = "closed"
  OBVIOUS
<1> QED BY <1>2, <1>4, <1>5
           DEF Inv, NothingBeforeLaunch, GateComesFirst, ConfirmedIsGone, ClosedIsSilent,
               WatcherDecidesOnce, CompletedIsClean, FailureHasCause, processVars, Alive, Exited

\* The owner of a running command stops it.
LEMMA CallStopKeeps ==
  ASSUME Inv, NEW c \in Commands, CallStop(c)
  PROVE  Inv'
<1>1. /\ {c} \in SUBSET Registered /\ Asking({c}) /\ start[c] = "up" /\ phase = "open"
      /\ UNCHANGED <<mishaps, scopeVars, processVars, start, watch, reason, killed, outcome>>
  BY DEF CallStop, Registered
<1>2. members \in SUBSET Commands
  BY DEF Inv, TypeOK
<1> QED BY <1>1, <1>2, AskingKeeps DEF scopeVars

\* close() stops what is registered, commands that are being launched included.
LEMMA CloseBeginsKeeps ==
  ASSUME Inv, CloseBegins
  PROVE  Inv'
<1>1. Registered \in SUBSET Commands
  BY DEF Registered
<1> QED BY <1>1, AskingKeeps DEF CloseBegins

\* A stop is latched.
LEMMA StopLatchesKeeps ==
  ASSUME Inv, NEW c \in Commands, StopLatches(c)
  PROVE  Inv'
<1>1. stopReason' \in [Commands -> OwnedOutcome \cup {"none"}]
  BY LatchedIsAReason DEF StopLatches, Inv, OwnedOutcome
<1>2. TypeOK'
  BY <1>1 DEF StopLatches, Inv, TypeOK, scopeVars, processVars
<1>3. /\ stop[c] = "asked" /\ stop' = [stop EXCEPT ![c] = "ending"]
      /\ UNCHANGED <<scopeVars, processVars, start, watch, reason, killed, outcome>>
  BY DEF StopLatches
<1>4. StoppedAreRegistered'
  BY <1>3 DEF Inv, TypeOK, StoppedAreRegistered, scopeVars, Registered
<1> QED BY <1>2, <1>3, <1>4
           DEF Inv, NothingBeforeLaunch, GateComesFirst, ConfirmedIsGone, ClosedIsSilent,
               WatcherDecidesOnce, CompletedIsClean, FailureHasCause, scopeVars, processVars,
               Alive, Exited

\* The memory that is lost kills every session and is itself the cause of the failure.
LEMMA MemoryIsLostKeeps ==
  ASSUME Inv, MemoryIsLost
  PROVE  Inv'
<1>1. PICK late \in SUBSET Forking(Sessions) : Kill(Sessions, late)
  BY DEF MemoryIsLost
<1>2. /\ phase = "open" /\ memoryLost' /\ failed' = TRUE /\ mishaps' \in 0..MaxMishaps
      /\ UNCHANGED <<phase, confirmed, members, lock, start, asked, watch, reason, stop,
                     killed, outcome>>
  BY MaxMishapsAssumption DEF MemoryIsLost, Mishap, Inv, TypeOK
<1>3. Sessions \in SUBSET Commands
  BY DEF Sessions
<1>4. /\ gate' \in [Commands -> {"none", "waiting", "released", "gone"}]
      /\ target' \in [Commands -> {"none", "alive", "ok", "bad", "killed"}]
      /\ helper' \in [Commands -> BOOLEAN]
      /\ UNCHANGED <<control, overflow, due>>
      /\ \A d \in Commands : /\ (gate[d] = "none") <=> (gate'[d] = "none")
                             /\ gate[d] = "none" => target'[d] = "none" /\ ~helper'[d]
                             /\ ~Alive(d) => ~Alive(d)'
  BY <1>1, <1>3, KillEmpties
<1>5. stopReason' \in [Commands -> OwnedOutcome \cup {"none"}]
  BY LatchedIsAReason DEF MemoryIsLost, Inv, OwnedOutcome, Failures
<1>6. TypeOK'
  BY <1>2, <1>4, <1>5 DEF Inv, TypeOK
<1>7. FailureHasCause'
  BY <1>2 DEF FailureHasCause
<1>8. CompletedIsClean'
  <2>1. \A d \in Commands : Exited(d)' = Exited(d)
    BY <1>4 DEF Exited
  <2> QED BY <1>2, <1>4, <2>1 DEF Inv, CompletedIsClean
<1> QED BY <1>2, <1>4, <1>6, <1>7, <1>8
           DEF Inv, NothingBeforeLaunch, GateComesFirst, StoppedAreRegistered, ConfirmedIsGone,
               ClosedIsSilent, WatcherDecidesOnce, Registered

\* close() confirms the teardown only after it emptied every session that was not
\* known to be empty: the others never had a gate or were confirmed before.
LEMMA CloseEndsKeeps ==
  ASSUME Inv, CloseEnds
  PROVE  Inv'
<1>1. PICK emptied \in BOOLEAN :
        /\ confirmed' = (emptied /\ ChildrenConfirmed)
        /\ IF emptied THEN Kill(Sessions, {})
           ELSE \E late \in SUBSET Forking(Sessions) : Kill(Sessions, late)
  BY DEF CloseEnds
<1>2. PICK late \in SUBSET Forking(Sessions) : Kill(Sessions, late) /\ (emptied => late = {})
  BY <1>1
<1>3. /\ phase' = "closed"
      /\ UNCHANGED <<mishaps, failed, memoryLost, members, lock, childVars>>
  BY DEF CloseEnds
<1>4. Sessions \in SUBSET Commands
  BY DEF Sessions
<1>5. /\ gate' \in [Commands -> {"none", "waiting", "released", "gone"}]
      /\ target' \in [Commands -> {"none", "alive", "ok", "bad", "killed"}]
      /\ helper' \in [Commands -> BOOLEAN]
      /\ UNCHANGED <<control, overflow, due>>
      /\ \A d \in Commands : /\ (gate[d] = "none") <=> (gate'[d] = "none")
                             /\ gate[d] = "none" => target'[d] = "none" /\ ~helper'[d]
                             /\ ~Alive(d) => ~Alive(d)'
                             /\ d \in Sessions \ late => ~Alive(d)'
  BY <1>2, <1>4, KillEmpties
<1>6. confirmed' \in BOOLEAN
  BY <1>1
<1>7. TypeOK'
  BY <1>3, <1>5, <1>6 DEF Inv, TypeOK, childVars
<1>8. ClosedIsSilent'
  <2>1. SUFFICES ASSUME confirmed', NEW d \in Commands
                 PROVE  ~Alive(d)'
    BY DEF ClosedIsSilent
  <2>2. late = {}
    BY <1>1, <1>2, <2>1
  <2>3. CASE d \in Sessions
    BY <1>5, <2>2, <2>3
  <2>4. CASE gate[d] = "none"
    BY <1>5, <2>4 DEF Alive
  <2>5. CASE killed[d] = "confirmed"
    BY <1>5, <2>5 DEF Inv, ConfirmedIsGone
  <2> QED BY <2>3, <2>4, <2>5 DEF Sessions, Inv, NothingBeforeLaunch
<1>9. CompletedIsClean'
  <2>1. \A d \in Commands : Exited(d)' = Exited(d)
    BY <1>5 DEF Exited
  <2> QED BY <1>3, <1>5, <2>1 DEF Inv, CompletedIsClean, childVars
<1> QED BY <1>3, <1>5, <1>7, <1>8, <1>9
           DEF Inv, NothingBeforeLaunch, GateComesFirst, StoppedAreRegistered, ConfirmedIsGone,
               WatcherDecidesOnce, FailureHasCause, childVars, Registered

-----------------------------------------------------------------------------
(* The theorems.                                                           *)

\* The invariant holds at the start.
LEMMA InitInv == Init => Inv
<1> SUFFICES ASSUME Init
             PROVE  Inv
  OBVIOUS
<1>1. TypeOK
  <2>1. failed \in BOOLEAN /\ memoryLost \in BOOLEAN /\ confirmed \in BOOLEAN
    BY DEF Init
  <2>2. mishaps \in 0..MaxMishaps
    BY MaxMishapsAssumption DEF Init
  <2>3. helper \in [Commands -> BOOLEAN] /\ asked \in [Commands -> BOOLEAN]
    BY DEF Init
  <2>4. overflow \in [Commands -> BOOLEAN] /\ due \in [Commands -> BOOLEAN]
    BY DEF Init
  <2>5. \A c \in Commands : (lock = c) <=> (start[c] = "launching")
    BY NoCommandAssumption DEF Init
  <2> QED BY <2>1, <2>2, <2>3, <2>4, <2>5 DEF Init, TypeOK
<1>2. NothingBeforeLaunch /\ GateComesFirst /\ StoppedAreRegistered /\ ConfirmedIsGone
  BY DEF Init, NothingBeforeLaunch, GateComesFirst, StoppedAreRegistered, ConfirmedIsGone
<1>3. ClosedIsSilent /\ WatcherDecidesOnce /\ CompletedIsClean /\ FailureHasCause
  BY DEF Init, ClosedIsSilent, WatcherDecidesOnce, CompletedIsClean, FailureHasCause
<1> QED BY <1>1, <1>2, <1>3 DEF Inv

\* Every step keeps it.
LEMMA NextInv == Inv /\ [Next]_vars => Inv'
<1> SUFFICES ASSUME Inv, [Next]_vars
             PROVE  Inv'
  OBVIOUS
<1>1. CASE \E c \in Commands : Start(c) \/ Launch(c)
  BY <1>1, StartKeeps, RegisterKeeps, SpawnKeeps, SpawnFailsKeeps DEF Launch
<1>2. CASE \E c \in Commands : Gate(c)
  BY <1>2, GateStartsKeeps, GateRecordsKeeps, GateStopsKeeps DEF Gate
<1>3. CASE \E c \in Commands : World(c)
  BY <1>3, TargetEndsKeeps, ForkKeeps, OverflowKeeps, DeadlineKeeps DEF World
<1>4. CASE \E c \in Commands : Watch(c)
  BY <1>4, WatchSeesKeeps, DrainedKeeps, ResolveKeeps DEF Watch
<1>5. CASE \E c \in Commands : Terminating(c) \/ GiveUp(c)
  BY <1>5, TerminateKeeps, KillAgainKeeps, ConfirmKeeps, GiveUpKeeps DEF Terminating
<1>6. CASE \E c \in Commands : CallStop(c) \/ Stop(c)
  BY <1>6, CallStopKeeps, StopLatchesKeeps, StopWaitsKeeps, StopReturnsKeeps DEF Stop
<1>7. CASE MemoryIsLost \/ CloseBegins \/ CloseEnds
  BY <1>7, MemoryIsLostKeeps, CloseBeginsKeeps, CloseEndsKeeps
<1>8. CASE UNCHANGED vars
  BY <1>8 DEF vars, scopeVars, processVars, childVars, Inv, TypeOK, NothingBeforeLaunch,
              GateComesFirst, StoppedAreRegistered, ConfirmedIsGone, ClosedIsSilent,
              WatcherDecidesOnce, CompletedIsClean, FailureHasCause, Registered, Alive, Exited
<1> QED BY <1>1, <1>2, <1>3, <1>4, <1>5, <1>6, <1>7, <1>8 DEF Next

\* It holds always.
THEOREM InvAlways == Spec => []Inv
<1>1. Init => Inv
  BY InitInv
<1>2. Inv /\ [Next]_vars => Inv'
  BY NextInv
<1> QED BY <1>1, <1>2, PTL DEF Spec

\* What a scope reports is true: a confirmed teardown has left no process, a
\* completed command ended as its gate recorded and is gone, and the scope refuses
\* further commands only because one of its commands or its memory failed.
THEOREM ReportsAreTrueAlways == Spec => []ReportsAreTrue
<1>1. Inv => ReportsAreTrue
  BY DEF Inv, ReportsAreTrue, ClosedIsSilent, ClosedMeansGone, Alive
<1> QED BY <1>1, InvAlways, PTL

\* A step changes a stop reason or an outcome only where one of these actions says so.
LEMMA WhoDecides ==
  ASSUME [Next]_vars
  PROVE  \/ UNCHANGED <<stopReason, outcome>>
         \/ \E c \in Commands : Spawn(c) \/ SpawnFails(c) \/ Resolve(c) \/ CallStop(c) \/ StopLatches(c)
         \/ MemoryIsLost \/ CloseBegins
<1>1. CASE \E c \in Commands : Start(c) \/ Register(c) \/ Gate(c)
  BY <1>1 DEF Start, Register, Gate, GateStarts, GateRecords, GateStops, childVars
<1>2. CASE \E c \in Commands : World(c)
  BY <1>2 DEF World, TargetEnds, Fork, Overflow, Deadline, childVars
<1>3. CASE \E c \in Commands : WatchSees(c) \/ Drained(c) \/ StopWaits(c) \/ StopReturns(c)
  BY <1>3 DEF WatchSees, Drained, StopWaits, StopReturns
<1>4. CASE \E c \in Commands : Terminating(c) \/ GiveUp(c)
  BY <1>4 DEF Terminating, Terminate, KillAgain, Confirm, GiveUp, childVars
<1>5. CASE CloseEnds \/ UNCHANGED vars
  BY <1>5 DEF CloseEnds, vars, childVars
<1> QED BY <1>1, <1>2, <1>3, <1>4, <1>5 DEF Next, Launch, Watch, Stop

\* A latched failure is never turned into a completion, nor taken back.
LEMMA StepStaysFailed == Inv /\ [Next]_vars => StaysFailed
<1> SUFFICES ASSUME Inv, [Next]_vars, NEW c \in Commands, stopReason[c] \in Failures
             PROVE  /\ stopReason'[c] \in Failures
                    /\ outcome[c] = "none" => outcome'[c] \in Failures \cup {"none"}
  BY DEF StaysFailed
<1>1. TypeOK
  BY DEF Inv
<1>2. "completed" \in OwnedOutcome /\ "memory_limit" \in OwnedOutcome
        /\ "teardown_failed" \in OwnedOutcome
  BY DEF OwnedOutcome, Failures
<1>3. CASE UNCHANGED <<stopReason, outcome>>
  BY <1>3
<1>4. ASSUME NEW d \in Commands, Spawn(d)
      PROVE  stopReason'[c] \in Failures /\ outcome' = outcome
  <2>1. start[d] = "launching" /\ outcome' = outcome
          /\ stopReason' = [stopReason EXCEPT ![d] = ReasonAtLaunch(d)]
    BY <1>4 DEF Spawn
  <2> QED BY <1>1, <2>1, ReasonAtLaunchIsJust DEF TypeOK
<1>5. ASSUME NEW d \in Commands, SpawnFails(d)
      PROVE  stopReason' = stopReason /\ (outcome'[c] = outcome[c] \/ outcome'[c] \in Failures)
  BY <1>1, <1>5 DEF SpawnFails, TypeOK, Failures
<1>6. ASSUME NEW d \in Commands, Resolve(d)
      PROVE  /\ stopReason'[c] \in Failures
             /\ outcome'[c] = outcome[c] \/ outcome'[c] \in Failures
  <2>1. watch[d] = "ending" /\ Ended(d) /\ reason[d] # "none"
    BY <1>6 DEF Resolve, Inv, WatcherDecidesOnce
  <2>2. Verdict(d) \in OwnedOutcome /\ (stopReason[d] \in Failures => Verdict(d) \in Failures)
    BY <1>1, <2>1, VerdictIsAnOutcome
  <2>3. stopReason'[c] \in Failures
    <3>1. (IF Verdict(d) # "completed" THEN Verdict(d) ELSE "teardown_failed") \in OwnedOutcome
      BY <1>2, <2>2
    <3> QED BY <1>1, <1>6, <3>1, LatchedGivesWay DEF Resolve
  <2>4. outcome' = [outcome EXCEPT ![d] = Verdict(d)]
    BY <1>6 DEF Resolve
  <2> QED BY <1>1, <2>2, <2>3, <2>4 DEF TypeOK
<1>7. ASSUME NEW S, Asking(S)
      PROVE  stopReason'[c] = stopReason[c]
  BY <1>7 DEF Asking, Failures
<1>8. ASSUME NEW d \in Commands, StopLatches(d)
      PROVE  stopReason'[c] \in Failures /\ outcome' = outcome
  BY <1>1, <1>2, <1>8, LatchedGivesWay DEF StopLatches
<1>9. ASSUME MemoryIsLost
      PROVE  stopReason'[c] \in Failures /\ outcome' = outcome
  BY <1>1, <1>2, <1>9, LatchedGivesWay DEF MemoryIsLost
<1>10. ASSUME CloseBegins \/ \E d \in Commands : CallStop(d)
       PROVE  stopReason'[c] = stopReason[c] /\ outcome' = outcome
  BY <1>7, <1>10 DEF CloseBegins, CallStop
<1> QED BY <1>3, <1>4, <1>5, <1>6, <1>8, <1>9, <1>10, WhoDecides

\* Neither a stop request nor a late exit turns a latched failure into a completion.
THEOREM LatchedFailureSticksAlways == Spec => LatchedFailureSticks
<1>1. Inv /\ [Next]_vars => StaysFailed
  BY StepStaysFailed
<1> QED BY <1>1, InvAlways, PTL DEF Spec, LatchedFailureSticks

\* A command that ends as a failure latches it on all that run beside it.
LEMMA StepTakesAlong == Inv /\ [Next]_vars => TakesAlong
<1> SUFFICES ASSUME Inv, [Next]_vars, NEW c \in Commands,
                    outcome[c] = "none", outcome'[c] \in Failures, watch[c] # "none",
                    NEW d \in Commands \ {c}, d \in Registered, outcome[d] = "none", ~Recorded(d)
             PROVE  stopReason'[d] \in Failures
  BY DEF TakesAlong, Registered
<1>1. TypeOK /\ outcome'[c] # outcome[c]
  BY DEF Inv, Failures
<1>2. Resolve(c)
  <2>1. PICK e \in Commands : SpawnFails(e) \/ Resolve(e)
    BY <1>1, WhoDecides DEF Spawn, CallStop, StopLatches, MemoryIsLost, CloseBegins
  <2>2. e = c
    BY <1>1, <2>1 DEF SpawnFails, Resolve, TypeOK
  <2>3. start[c] = "up"
    BY DEF Inv, NothingBeforeLaunch
  <2> QED BY <2>1, <2>2, <2>3 DEF SpawnFails
<1>3. Verdict(c) \in Failures
  BY <1>1, <1>2 DEF Resolve, TypeOK
<1>4. Verdict(c) \in OwnedOutcome /\ Verdict(c) # "completed"
  BY <1>3 DEF OwnedOutcome, Failures
<1>5. stopReason' = Latched(Registered \ {c}, Verdict(c))
  BY <1>2, <1>4 DEF Resolve, Poisons
<1> QED BY <1>1, <1>3, <1>4, <1>5, LatchedGivesWay

\* No command runs on towards a completion beside one whose failure was decided.
THEOREM FailureReachesTheOthersAlways == Spec => FailureReachesTheOthers
<1>1. Inv /\ [Next]_vars => TakesAlong
  BY StepTakesAlong
<1> QED BY <1>1, InvAlways, PTL DEF Spec, FailureReachesTheOthers
=============================================================================
