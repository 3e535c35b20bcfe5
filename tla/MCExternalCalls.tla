--------------------------- MODULE MCExternalCalls ---------------------------
(***************************************************************************)
(* Small instances of ExternalCalls for TLC.                               *)
(***************************************************************************)
EXTENDS ExternalCalls, TLC

\* Workers are interchangeable, and so are remote calls.
CallSymmetry == Permutations(Workers) \union Permutations(Remote)
=============================================================================
