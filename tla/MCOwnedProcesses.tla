-------------------------- MODULE MCOwnedProcesses --------------------------
(***************************************************************************)
(* OwnedProcesses for TLC, two scopes side by side: one with the commands  *)
(* and the mishaps of the .cfg, and one with a single command and more of  *)
(* the mishaps (O), the instance whose liveness is checked.  "at" says in  *)
(* the first state which of them the behaviour is about; the other stays   *)
(* in an initial state.                                                    *)
(***************************************************************************)
EXTENDS OwnedProcesses, TLC

CONSTANT Only   \* the one command of the second scope

VARIABLE at
VARIABLES o_phase, o_failed, o_memoryLost, o_confirmed, o_members, o_lock, o_start,
    o_gate, o_target, o_helper, o_control, o_asked, o_stopReason, o_watch, o_reason,
    o_stop, o_killed, o_overflow, o_due, o_outcome, o_mishaps
o_vars == <<o_phase, o_failed, o_memoryLost, o_confirmed, o_members, o_lock, o_start,
    o_gate, o_target, o_helper, o_control, o_asked, o_stopReason, o_watch, o_reason,
    o_stop, o_killed, o_overflow, o_due, o_outcome, o_mishaps>>

O == INSTANCE OwnedProcesses WITH Commands <- {Only}, MaxMishaps <- 3, phase <- o_phase,
    failed <- o_failed, memoryLost <- o_memoryLost, confirmed <- o_confirmed, members <-
    o_members, lock <- o_lock, start <- o_start, gate <- o_gate, target <- o_target,
    helper <- o_helper, control <- o_control, asked <- o_asked, stopReason <-
    o_stopReason, watch <- o_watch, reason <- o_reason, stop <- o_stop, killed <-
    o_killed, overflow <- o_overflow, due <- o_due, outcome <- o_outcome, mishaps <-
    o_mishaps

SideBySideInit == at \in {"scope", "one command"} /\ Init /\ O!Init

SideBySideNext ==
  \/ at = "scope" /\ Next /\ UNCHANGED <<at, o_vars>>
  \/ at = "one command" /\ O!Next /\ UNCHANGED <<at, vars>>

FairSideBySide ==
  /\ SideBySideInit /\ [][SideBySideNext]_<<at, vars, o_vars>>
  /\ at = "one command" => O!Fairness

-----------------------------------------------------------------------------
(* Properties.                                                             *)

\* Every command that runs late, is stopped or loses its scope's memory gets its
\* outcome, and close() returns (OwnedProcesses).
EverythingEnds == at = "one command" => O!EveryCommandEnds /\ O!CloseReturns
=============================================================================
