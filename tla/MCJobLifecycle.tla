--------------------------- MODULE MCJobLifecycle ---------------------------
(***************************************************************************)
(* JobLifecycle for TLC, two instances over the same variables: with the   *)
(* constants of the .cfg, where both entry points are in use and projects  *)
(* stay; and one whose projects may all be deleted, where every job comes  *)
(* from an operation and inputs are not edited (D).  "at" says in the      *)
(* first state which of them the behaviour is of.                          *)
(***************************************************************************)
EXTENDS JobLifecycle, TLC

VARIABLE at

D == INSTANCE JobLifecycle WITH Deletable <- Projects, Entries <- {"operation"},
       MaxRevision <- 1

SideBySideInit ==
  \/ at = "entries" /\ Init
  \/ at = "deletion" /\ D!Init

SideBySideNext ==
  \/ at = "entries" /\ Next /\ UNCHANGED at
  \/ at = "deletion" /\ D!Next /\ UNCHANGED at

SideBySide == SideBySideInit /\ [][SideBySideNext]_<<at, vars>>

ProjectSymmetry == Permutations(Projects)
=============================================================================
