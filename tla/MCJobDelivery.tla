---------------------------- MODULE MCJobDelivery ----------------------------
(***************************************************************************)
(* JobLifecycle for TLC, two instances over the same variables: with the   *)
(* constants of the .cfg, where every project may be deleted and all jobs  *)
(* come from operations; and with the projects Delivered, which stay, both *)
(* entry points, two stops and fairness (L).  "at" says in the first state *)
(* which of them the behaviour is of.                                      *)
(***************************************************************************)
EXTENDS JobLifecycle

CONSTANT Delivered

VARIABLE at

L == INSTANCE JobLifecycle WITH Projects <- Delivered, Deletable <- {},
       Entries <- {"route", "operation"}, MaxStops <- 2

SideBySideInit ==
  \/ at = "deletion" /\ Init
  \/ at = "delivery" /\ L!Init

SideBySideNext ==
  \/ at = "deletion" /\ Next /\ UNCHANGED at
  \/ at = "delivery" /\ L!Next /\ UNCHANGED at

FairSideBySide ==
  SideBySideInit /\ [][SideBySideNext]_<<at, vars>> /\ (at = "delivery" => L!Fairness)

-----------------------------------------------------------------------------
(* Properties.                                                             *)

\* Every accepted job ends, through two stops and resumptions (JobLifecycle).
EveryJobIsDelivered == at = "delivery" => L!EveryJobEnds
=============================================================================
