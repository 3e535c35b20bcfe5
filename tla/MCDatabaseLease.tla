--------------------------- MODULE MCDatabaseLease ---------------------------
(***************************************************************************)
(* DatabaseLease for TLC.  Processes are interchangeable; inodes are not,  *)
(* because NewFile chooses one.                                            *)
(***************************************************************************)
EXTENDS DatabaseLease, TLC

LeaseSymmetry == Permutations(Procs)
=============================================================================
