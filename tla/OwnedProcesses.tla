--------------------------- MODULE OwnedProcesses ---------------------------
(***************************************************************************)
(* The commands that the release tools run under one OwnedProcessScope     *)
(* (src/backend/evaluation/blinded_runtime.py).  A command is a gate, a    *)
(* small process that waits for a byte before it starts its target, in a   *)
(* session of its own; the target may leave helpers behind.  Coroutines of *)
(* one event loop watch every command, stop it on request, watch the       *)
(* memory of all and close the scope; their steps, the gates and the       *)
(* targets interleave.  An action runs from one await to the next.         *)
(*                                                                         *)
(* The model is of a POSIX host: a session stands for the Job that plays   *)
(* its part on Windows.  Clocks are choices: a deadline may pass, a        *)
(* bounded wait may end and a memory sample may be too high at any time.   *)
(***************************************************************************)
EXTENDS Integers, FiniteSets

CONSTANTS Commands,   \* the commands of the scope, each started at most once
          NoCommand,  \* nobody holds the launch lock
          MaxMishaps  \* bound: how often the world does what it need not do

ASSUME NoCommandAssumption == NoCommand \notin Commands
ASSUME MaxMishapsAssumption == MaxMishaps \in Nat

VARIABLES
  phase,      \* of the scope: open, closing, closed
  failed,     \* scope._failed: no further command is started
  memoryLost, \* scope._memory_lost
  confirmed,  \* scope.teardown_confirmed
  members,    \* the commands close() found in scope._children
  lock,       \* who holds scope._launch_lock
  start,      \* none, queued for the lock, launching, up, refused
  gate,       \* none, waiting for its byte, released, gone
  target,     \* none, alive, or how it ended: ok, bad, killed
  helper,     \* a descendant of the target is alive
  control,    \* the gate's record: empty, running, launch_failed, ok, bad, stopped
  asked,      \* stop() has sent its byte to the gate
  stopReason, \* _stop_reason
  watch,      \* where _watch is: none, watching, draining, ending, resolving, done
  reason,     \* the reason for which _watch left its loop
  stop,       \* where stop() is: none, asked, ending, waiting, done, raised
  killed,     \* _terminate: no, the coroutine inside it, confirmed, failed
  overflow,   \* the output exceeded its limit
  due,        \* the deadline has passed
  outcome,    \* the recorded outcome
  mishaps     \* counts the mishaps so far

scopeVars == <<phase, failed, memoryLost, confirmed, members, lock>>
processVars == <<gate, target, helper, control, overflow, due>>
childVars == <<start, asked, stopReason, watch, reason, stop, killed, outcome>>
vars == <<scopeVars, processVars, childVars, mishaps>>

Failures == {"launch_failed", "timeout", "output_limit", "memory_limit", "teardown_failed"}
OwnedOutcome == Failures \cup {"completed"}

TypeOK ==
  /\ phase \in {"open", "closing", "closed"}
  /\ {failed, memoryLost, confirmed} \subseteq BOOLEAN
  /\ members \subseteq Commands
  /\ lock \in Commands \cup {NoCommand}
  /\ start \in [Commands -> {"none", "queued", "launching", "up", "refused"}]
  /\ gate \in [Commands -> {"none", "waiting", "released", "gone"}]
  /\ target \in [Commands -> {"none", "alive", "ok", "bad", "killed"}]
  /\ helper \in [Commands -> BOOLEAN]
  /\ control \in [Commands -> {"empty", "running", "launch_failed", "ok", "bad", "stopped"}]
  /\ asked \in [Commands -> BOOLEAN]
  /\ stopReason \in [Commands -> OwnedOutcome \cup {"none"}]
  /\ watch \in [Commands -> {"none", "watching", "draining", "ending", "resolving", "done"}]
  /\ reason \in [Commands -> OwnedOutcome \cup {"none"}]
  /\ stop \in [Commands -> {"none", "asked", "ending", "waiting", "done", "raised"}]
  /\ killed \in [Commands -> {"no", "watch", "stop", "confirmed", "failed"}]
  /\ overflow \in [Commands -> BOOLEAN]
  /\ due \in [Commands -> BOOLEAN]
  /\ outcome \in [Commands -> OwnedOutcome \cup {"none"}]
  /\ mishaps \in 0..MaxMishaps
  /\ \A c \in Commands : (lock = c) <=> (start[c] = "launching")

Init ==
  /\ phase = "open" /\ failed = FALSE /\ memoryLost = FALSE /\ confirmed = FALSE
  /\ members = {} /\ lock = NoCommand
  /\ start = [c \in Commands |-> "none"]
  /\ gate = [c \in Commands |-> "none"]
  /\ target = [c \in Commands |-> "none"]
  /\ helper = [c \in Commands |-> FALSE]
  /\ control = [c \in Commands |-> "empty"]
  /\ asked = [c \in Commands |-> FALSE]
  /\ stopReason = [c \in Commands |-> "none"]
  /\ watch = [c \in Commands |-> "none"]
  /\ reason = [c \in Commands |-> "none"]
  /\ stop = [c \in Commands |-> "none"]
  /\ killed = [c \in Commands |-> "no"]
  /\ overflow = [c \in Commands |-> FALSE]
  /\ due = [c \in Commands |-> FALSE]
  /\ outcome = [c \in Commands |-> "none"]
  /\ mishaps = 0

\* A step that takes one of the mishaps the bound allows.
Mishap == mishaps < MaxMishaps /\ mishaps' = mishaps + 1

-----------------------------------------------------------------------------
(* What the coroutines read.                                               *)

\* Mutation: a command joins the scope when its gate is up.
RegisteredLate == {c \in Commands : start[c] = "up"}

\* The children of the scope: a command joins them before it is spawned.
Registered == {c \in Commands : start[c] \in {"launching", "up"}}

\* The command's session holds a process that runs or may run its target.
Alive(c) == gate[c] \in {"waiting", "released"} \/ target[c] = "alive" \/ helper[c]

Exited(c) == control[c] \in {"ok", "bad", "stopped"}
Recorded(c) == Exited(c) \/ control[c] = "launch_failed"

Priority(r) ==
  CASE r = "none" -> -1
    [] r = "completed" -> 0
    [] r = "launch_failed" -> 1
    [] r = "timeout" -> 2
    [] r = "output_limit" -> 3
    [] r = "memory_limit" -> 4
    [] r = "teardown_failed" -> 5

\* Mutation: the last reason counts, whatever its weight.
LatchedLast(S, r) ==
  [c \in Commands |-> IF c \in S /\ outcome[c] = "none" /\ ~Recorded(c) THEN r ELSE stopReason[c]]

\* _latch: the stop reasons after r was latched on the commands of S.  A command
\* whose end is recorded keeps its own, and a reason only gives way to a graver one.
Latched(S, r) ==
  [c \in Commands |->
     IF /\ c \in S
        /\ outcome[c] = "none"
        /\ ~Recorded(c)
        /\ Priority(r) > Priority(stopReason[c])
     THEN r ELSE stopReason[c]]

\* _kill_owned_session on the sessions of S: the processes of the table are
\* killed; a process that was forked while the table was read (late) survives.
Kill(S, late) ==
  /\ gate' = [c \in Commands |-> IF c \in S /\ gate[c] # "none" THEN "gone" ELSE gate[c]]
  /\ target' = [c \in Commands |->
                  IF c \in S /\ target[c] = "alive" THEN "killed" ELSE target[c]]
  /\ helper' = [c \in Commands |-> IF c \in S THEN c \in late ELSE helper[c]]
  /\ UNCHANGED <<control, overflow, due>>

Forking(S) == {c \in S : target[c] = "alive" \/ helper[c]}

-----------------------------------------------------------------------------
(* Starting a command: start_owned_process.                                *)

Start(c) ==
  /\ start[c] = "none"
  /\ phase = "open" /\ ~failed
  /\ start' = [start EXCEPT ![c] = "queued"]
  /\ UNCHANGED <<mishaps, scopeVars, processVars, asked, stopReason, watch, reason, stop, killed, outcome>>

\* Mutation: the launch lock is not waited for.
RegisterUnlocked(c) ==
  /\ start[c] = "queued" /\ ~memoryLost
  /\ start' = [start EXCEPT ![c] = "launching"]
  /\ lock' = c
  /\ UNCHANGED <<mishaps, phase, failed, memoryLost, confirmed, members, processVars,
                 asked, stopReason, watch, reason, stop, killed, outcome>>

\* The lock is free again.  What was checked before the wait may no longer hold;
\* only the memory is looked at once more (headroom is what the sample says).
Register(c) ==
  /\ start[c] = "queued"
  /\ lock = NoCommand
  /\ \E headroom \in BOOLEAN :
       /\ IF headroom THEN UNCHANGED mishaps ELSE Mishap
       /\ IF headroom /\ ~memoryLost
          THEN start' = [start EXCEPT ![c] = "launching"] /\ lock' = c
          ELSE start' = [start EXCEPT ![c] = "refused"] /\ UNCHANGED lock
  /\ UNCHANGED <<phase, failed, memoryLost, confirmed, members, processVars,
                 asked, stopReason, watch, reason, stop, killed, outcome>>

\* Mutation: the scope was found open before the lock, and that is enough.
ReasonAtLaunchUnchecked(c) ==
  CASE due[c] -> "timeout"
    [] ~due[c] /\ memoryLost -> "memory_limit"
    [] OTHER -> stopReason[c]

\* The stop reason of a command whose gate has just come up.
ReasonAtLaunch(c) ==
  CASE due[c] -> "timeout"
    [] ~due[c] /\ memoryLost -> "memory_limit"
    [] OTHER -> IF failed \/ phase # "open" \/ stopReason[c] # "none"
                THEN Latched({c}, "launch_failed")[c]
                ELSE "none"

\* The gate is up and its session is registered: it gets its byte, or its
\* input is closed and it leaves without having started anything.
Spawn(c) ==
  /\ start[c] = "launching"
  /\ stopReason' = [stopReason EXCEPT ![c] = ReasonAtLaunch(c)]
  /\ gate' = [gate EXCEPT ![c] = IF ReasonAtLaunch(c) = "none" THEN "released" ELSE "gone"]
  /\ start' = [start EXCEPT ![c] = "up"]
  /\ watch' = [watch EXCEPT ![c] = "watching"]
  /\ lock' = NoCommand
  /\ UNCHANGED <<mishaps, phase, failed, memoryLost, confirmed, members,
                 target, helper, control, overflow, due, asked, reason, stop, killed, outcome>>

\* The process cannot be created: the error becomes the command's outcome.
SpawnFails(c) ==
  /\ start[c] = "launching"
  /\ start' = [start EXCEPT ![c] = "up"]
  /\ lock' = NoCommand
  /\ killed' = [killed EXCEPT ![c] = "confirmed"]
  /\ outcome' = [outcome EXCEPT ![c] = "launch_failed"]
  /\ failed' = TRUE
  /\ UNCHANGED <<phase, memoryLost, confirmed, members, processVars,
                 asked, stopReason, watch, reason, stop>>
  /\ Mishap

-----------------------------------------------------------------------------
(* The processes: the gate (_OWNED_GATE), its target and their clock.      *)

GateStarts(c) ==
  /\ gate[c] = "released" /\ target[c] = "none"
  /\ \/ /\ target' = [target EXCEPT ![c] = "alive"]
        /\ control' = [control EXCEPT ![c] = "running"]
        /\ UNCHANGED <<gate, mishaps>>
     \/ /\ control' = [control EXCEPT ![c] = "launch_failed"]
        /\ gate' = [gate EXCEPT ![c] = "gone"]
        /\ Mishap /\ UNCHANGED target
  /\ UNCHANGED <<helper, overflow, due, scopeVars, childVars>>

TargetEnds(c) ==
  /\ target[c] = "alive"
  /\ \/ target' = [target EXCEPT ![c] = "ok"] /\ UNCHANGED mishaps
     \/ target' = [target EXCEPT ![c] = "bad"] /\ Mishap
  /\ UNCHANGED <<gate, helper, control, overflow, due, scopeVars, childVars>>

\* The gate sees that its target has ended, records how and leaves.
GateRecords(c) ==
  /\ gate[c] = "released" /\ target[c] \in {"ok", "bad"}
  /\ control' = [control EXCEPT ![c] = target[c]]
  /\ gate' = [gate EXCEPT ![c] = "gone"]
  /\ UNCHANGED <<mishaps, target, helper, overflow, due, scopeVars, childVars>>

\* The gate got stop()'s byte while its target runs: it kills it.
GateStops(c) ==
  /\ gate[c] = "released" /\ asked[c] /\ target[c] = "alive"
  /\ target' = [target EXCEPT ![c] = "killed"]
  /\ control' = [control EXCEPT ![c] = "stopped"]
  /\ gate' = [gate EXCEPT ![c] = "gone"]
  /\ UNCHANGED <<mishaps, helper, overflow, due, scopeVars, childVars>>

Fork(c) ==
  /\ target[c] = "alive" /\ ~helper[c]
  /\ helper' = [helper EXCEPT ![c] = TRUE]
  /\ UNCHANGED <<gate, target, control, overflow, due, scopeVars, childVars>>
  /\ Mishap

\* _read: more output than the limit arrives while somebody holds the pipe.
Overflow(c) ==
  /\ target[c] = "alive" \/ helper[c]
  /\ ~overflow[c] /\ outcome[c] = "none"
  /\ overflow' = [overflow EXCEPT ![c] = TRUE]
  /\ UNCHANGED <<gate, target, helper, control, due, scopeVars, childVars>>
  /\ Mishap

Deadline(c) ==
  /\ start[c] \in {"launching", "up"}
  /\ ~due[c] /\ outcome[c] = "none"
  /\ due' = [due EXCEPT ![c] = TRUE]
  /\ UNCHANGED <<gate, target, helper, control, overflow, scopeVars, childVars>>
  /\ Mishap

-----------------------------------------------------------------------------
(* _terminate, entered by _watch or by stop(): one coroutine at a time     *)
(* kills the session until it is empty or its budget is spent.             *)

\* The sessions that the scope still has to empty: _terminate drops one it emptied.
Sessions == {c \in Commands : start[c] = "up" /\ gate[c] # "none" /\ killed[c] # "confirmed"}

\* Mutation: a termination that could not be confirmed is not marked as over.
EndedConfirmed(c) == killed[c] = "confirmed"

Inside(c) == killed[c] \in {"watch", "stop"}
Ended(c) == killed[c] \in {"confirmed", "failed"}

\* who wants to terminate c.  There is nothing to kill before the spawn.
Terminate(c, who) ==
  /\ killed[c] = "no"
  /\ \/ who = "watch" /\ watch[c] = "ending"
     \/ who = "stop" /\ stop[c] = "ending"
  /\ IF start[c] = "launching"
     THEN killed' = [killed EXCEPT ![c] = "confirmed"] /\ UNCHANGED processVars
     ELSE /\ killed' = [killed EXCEPT ![c] = who]
          /\ Kill({c}, {}) \/ (Forking({c}) # {} /\ Kill({c}, {c}))
  /\ UNCHANGED <<mishaps, scopeVars, start, asked, stopReason, watch, reason, stop, outcome>>

KillAgain(c) ==
  /\ Inside(c) /\ Alive(c)
  /\ Kill({c}, {})
  /\ UNCHANGED <<mishaps, scopeVars, childVars>>

\* Mutation: the gate and its target are waited for, their helpers are not.
SessionTargetIsGone(c) == gate[c] # "released" /\ target[c] # "alive"

SessionIsGone(c) == ~Alive(c)

Confirm(c) ==
  /\ Inside(c) /\ SessionIsGone(c)
  /\ killed' = [killed EXCEPT ![c] = "confirmed"]
  /\ UNCHANGED <<mishaps, scopeVars, processVars, start, asked, stopReason, watch, reason, stop, outcome>>

\* The budget is spent, or a pipe does not end: the command cannot be confirmed.
GiveUp(c) ==
  /\ Inside(c)
  /\ killed' = [killed EXCEPT ![c] = "failed"]
  /\ UNCHANGED <<scopeVars, processVars, start, asked, stopReason, watch, reason, stop, outcome>>
  /\ Mishap

-----------------------------------------------------------------------------
(* The watcher of a command: _watch.                                       *)

\* What its loop sees, in the order in which it looks; none while it sleeps.
Seen(c) ==
  CASE memoryLost -> "memory_limit"
    [] ~memoryLost /\ overflow[c] -> "output_limit"
    [] ~memoryLost /\ ~overflow[c] /\ stopReason[c] # "none" -> stopReason[c]
    [] OTHER -> IF due[c] THEN "timeout" ELSE "none"

WatchSees(c) ==
  /\ watch[c] = "watching"
  /\ \/ /\ Seen(c) # "none"
        /\ reason' = [reason EXCEPT ![c] = Seen(c)]
        /\ watch' = [watch EXCEPT ![c] = "ending"]
     \/ /\ Seen(c) = "none" /\ gate[c] = "gone"
        /\ watch' = [watch EXCEPT ![c] = "draining"]
        /\ UNCHANGED reason
  /\ UNCHANGED <<mishaps, scopeVars, processVars, start, asked, stopReason, stop, killed, outcome>>

\* The gate has left; the readers get a moment to reach the end of the pipes.
Drained(c) ==
  /\ watch[c] = "draining"
  /\ reason' = [reason EXCEPT ![c] = IF overflow[c] THEN "output_limit" ELSE "completed"]
  /\ watch' = [watch EXCEPT ![c] = "ending"]
  /\ UNCHANGED <<mishaps, scopeVars, processVars, start, asked, stopReason, stop, killed, outcome>>

\* The verdict of _watch once the tree is down: what was latched meanwhile counts.
Verdict(c) ==
  LET left == IF killed[c] = "failed" THEN "teardown_failed" ELSE reason[c]
      latched == {left, stopReason[c]}
      late == CASE "teardown_failed" \in latched -> "teardown_failed"
                [] "teardown_failed" \notin latched
                     /\ (memoryLost \/ "memory_limit" \in latched) -> "memory_limit"
                [] OTHER -> IF overflow[c] \/ "output_limit" \in latched THEN "output_limit"
                            ELSE IF "timeout" \in latched THEN "timeout"
                            ELSE IF stopReason[c] # "none" THEN stopReason[c]
                            ELSE left
  IN IF late = "completed" /\ ~Exited(c)
     THEN IF control[c] = "launch_failed" THEN "launch_failed" ELSE "teardown_failed"
     ELSE late

\* Mutation: a stop counts only for a target that ended with code zero.
AdministrativeNever(c) == control[c] = "ok" /\ ~failed

\* _administrative_stop: the gate ended its target because stop() asked for it.
Administrative(c) == control[c] = "stopped" /\ ~failed

\* The command's end fails the scope, and the commands still running with it.
Poisons(c) == Verdict(c) # "completed" \/ (control[c] # "ok" /\ ~Administrative(c))

Resolve(c) ==
  /\ watch[c] = "ending" /\ Ended(c)
  /\ outcome' = [outcome EXCEPT ![c] = Verdict(c)]
  /\ watch' = [watch EXCEPT ![c] = "done"]
  /\ failed' = (failed \/ Poisons(c))
  /\ stopReason' = IF Poisons(c)
                   THEN Latched(Registered \ {c},
                                IF Verdict(c) # "completed" THEN Verdict(c) ELSE "teardown_failed")
                   ELSE stopReason
  /\ UNCHANGED <<mishaps, phase, memoryLost, confirmed, members, lock, processVars,
                 start, asked, reason, stop, killed>>

-----------------------------------------------------------------------------
(* stop(), called by the owner of the command or by close().               *)

\* The first step of stop() on the commands of S: one that has no reason to end
\* yet is asked to, or timed out when its deadline has passed.
Asking(S) ==
  LET undecided(c) == outcome[c] = "none" /\ stopReason[c] = "none"
      open(c) == start[c] = "up" /\ ~Ended(c)
  IN /\ stop' = [c \in Commands |->
                   CASE c \notin S \/ stop[c] # "none" -> stop[c]
                     [] c \in S /\ stop[c] = "none" /\ outcome[c] # "none" -> "done"
                     [] OTHER -> IF undecided(c) /\ ~due[c] THEN "asked" ELSE "ending"]
     /\ asked' = [c \in Commands |->
                    asked[c] \/ (c \in S /\ undecided(c) /\ ~due[c] /\ open(c))]
     /\ stopReason' = [c \in Commands |->
                         IF c \in S /\ undecided(c) /\ due[c] THEN "timeout" ELSE stopReason[c]]

CallStop(c) ==
  /\ start[c] = "up" /\ stop[c] = "none" /\ phase = "open"
  /\ Asking({c})
  /\ UNCHANGED <<mishaps, scopeVars, processVars, start, watch, reason, killed, outcome>>

\* The gate has recorded the end, or the wait is over: the stop is latched.
StopLatches(c) ==
  /\ stop[c] = "asked"
  /\ stopReason' = Latched({c}, "completed")
  /\ stop' = [stop EXCEPT ![c] = "ending"]
  /\ UNCHANGED <<mishaps, scopeVars, processVars, start, asked, watch, reason, killed, outcome>>

\* stop() is past _terminate: it raises, or waits for the watcher's outcome.
StopWaits(c) ==
  /\ stop[c] = "ending" /\ Ended(c)
  /\ stop' = [stop EXCEPT ![c] =
                IF killed[c] = "failed" \/ (outcome[c] = "none" /\ watch[c] = "none")
                THEN "raised" ELSE "waiting"]
  /\ UNCHANGED <<mishaps, scopeVars, processVars, start, asked, stopReason, watch, reason, killed, outcome>>

StopReturns(c) ==
  /\ stop[c] = "waiting" /\ outcome[c] # "none"
  /\ stop' = [stop EXCEPT ![c] = "done"]
  /\ UNCHANGED <<mishaps, scopeVars, processVars, start, asked, stopReason, watch, reason, killed, outcome>>

-----------------------------------------------------------------------------
(* The scope: its memory monitor and close().                              *)

\* _monitor_memory: a sample is too high or cannot be taken.  Every session is
\* killed and every command that has not ended is latched.
MemoryIsLost ==
  /\ phase = "open" /\ ~memoryLost
  /\ memoryLost' = TRUE /\ failed' = TRUE
  /\ \E late \in SUBSET Forking(Sessions) : Kill(Sessions, late)
  /\ stopReason' = Latched(Registered, "memory_limit")
  /\ UNCHANGED <<phase, confirmed, members, lock, start, asked, watch, reason, stop, killed, outcome>>
  /\ Mishap

\* close() cancels the monitor and stops the children it finds, all at once.
CloseBegins ==
  /\ phase = "open"
  /\ phase' = "closing"
  /\ members' = Registered
  /\ Asking(Registered)
  /\ UNCHANGED <<mishaps, failed, memoryLost, confirmed, lock, processVars,
                 start, watch, reason, killed, outcome>>

Stopped == \A c \in members : stop[c] \in {"done", "raised"}

\* What close() may report of the children it stopped.
ChildrenConfirmed ==
  \A c \in members : stop[c] = "done" /\ outcome[c] # "teardown_failed"

\* The sessions that are left are emptied, or the budget ends before they are.
CloseEnds ==
  /\ phase = "closing" /\ Stopped
  /\ \E emptied \in BOOLEAN :
       /\ confirmed' = (emptied /\ ChildrenConfirmed)
       /\ IF emptied THEN Kill(Sessions, {})
          ELSE \E late \in SUBSET Forking(Sessions) : Kill(Sessions, late)
  /\ phase' = "closed"
  /\ UNCHANGED <<mishaps, failed, memoryLost, members, lock, childVars>>

-----------------------------------------------------------------------------

Gate(c) == GateStarts(c) \/ GateRecords(c) \/ GateStops(c)
World(c) == TargetEnds(c) \/ Fork(c) \/ Overflow(c) \/ Deadline(c)
Launch(c) == Register(c) \/ Spawn(c) \/ SpawnFails(c)
Terminating(c) == \/ \E who \in {"watch", "stop"} : Terminate(c, who)
                  \/ KillAgain(c) \/ Confirm(c)
Watch(c) == WatchSees(c) \/ Drained(c) \/ Resolve(c)
Stop(c) == StopLatches(c) \/ StopWaits(c) \/ StopReturns(c)

Next ==
  \/ \E c \in Commands : Start(c) \/ Launch(c) \/ Gate(c) \/ World(c) \/ Watch(c)
                         \/ Terminating(c) \/ GiveUp(c) \/ CallStop(c) \/ Stop(c)
  \/ MemoryIsLost \/ CloseBegins \/ CloseEnds

Spec == Init /\ [][Next]_vars

\* The event loop runs every coroutine that can go on.  No process has to end by
\* itself, no deadline has to pass and nobody has to call stop() or close().
Fairness ==
  /\ \A c \in Commands : /\ WF_vars(Launch(c)) /\ WF_vars(Watch(c))
                         /\ WF_vars(Terminating(c)) /\ WF_vars(Stop(c))
  /\ WF_vars(CloseEnds)

FairSpec == Spec /\ Fairness

-----------------------------------------------------------------------------
(* Properties.                                                             *)

\* A scope that reports a confirmed teardown has left no target and no helper
\* behind, also when a command was being launched while it closed: the callers
\* of close() go on to measure and to delete what those processes would use.
ClosedMeansGone ==
  phase = "closed" /\ confirmed => \A c \in Commands : target[c] # "alive" /\ ~helper[c]

\* A command reported as completed ended as its gate recorded, within its output
\* limit and in a scope with enough memory at that time, and its tree is gone.
CompletedIsClean ==
  \A c \in Commands :
    outcome[c] = "completed" =>
      Exited(c) /\ ~overflow[c] /\ ~Alive(c) /\ killed[c] = "confirmed"

\* The scope is failed only for a reason that its commands or its memory show:
\* stopping a server on request does not refuse the commands that follow, whether
\* the stop meets a running target, a late one or one that has just ended.
FailureHasCause ==
  failed =>
    \/ memoryLost
    \/ \E c \in Commands : \/ outcome[c] \in Failures
                           \/ outcome[c] = "completed" /\ control[c] = "bad"

\* What a scope reports is what became of its processes: gone, ended as recorded, failed
\* for a reason.
ReportsAreTrue == TypeOK /\ ClosedMeansGone /\ CompletedIsClean /\ FailureHasCause

\* Once a failure is latched on a command it stays a failure: neither a stop
\* request nor an exit that comes late turns its outcome into a completion.
StaysFailed ==
  \A c \in Commands :
    stopReason[c] \in Failures =>
      /\ stopReason'[c] \in Failures
      /\ outcome[c] = "none" => outcome'[c] \in Failures \cup {"none"}
LatchedFailureSticks == [][StaysFailed]_vars

\* A command whose end fails the scope takes every command along whose own end
\* is not on record: none of them runs on towards a completion.
TakesAlong ==
  \A c \in Commands :
    outcome[c] = "none" /\ outcome'[c] \in Failures /\ watch[c] # "none"
      => \A d \in Commands \ {c} :
           \/ start[d] \notin {"launching", "up"}
           \/ outcome[d] # "none" \/ Recorded(d)
           \/ stopReason'[d] \in Failures
FailureReachesTheOthers == [][TakesAlong]_vars

MustEnd(c) ==
  /\ c \in Registered
  /\ due[c] \/ stopReason[c] # "none" \/ stop[c] \notin {"none", "done"} \/ memoryLost

\* A command that runs late, that gets a stop reason, that somebody stops or whose
\* scope loses its memory gets its outcome: no order of the watcher, the request
\* and the death of its processes leaves it undecided.
EveryCommandEnds ==
  \A c \in Commands : MustEnd(c) ~> outcome[c] # "none"

\* close() always returns.
CloseReturns == phase = "closing" ~> phase = "closed"
=============================================================================
