---------------------------- MODULE MCOperations ----------------------------
(***************************************************************************)
(* Operations for TLC, in two slices: one project with all revisions and   *)
(* sizes, and two identities with the revisions of SmallRevisions and one  *)
(* size.  "at" says in the first state which of them the behaviour is of.  *)
(* Request identifiers are interchangeable.                                *)
(***************************************************************************)
EXTENDS Operations, TLC

CONSTANT SmallRevisions   \* bound on the revisions where identities are many

VARIABLE at

RequestSymmetry == Permutations(RequestIds)

SliceInit == at \in {"core", "identities"} /\ Init

\* The bounds of the slices, on the state that a step leads to.
OneProject == \A p \in ProjectIds \ {1} : project'[p] = Unborn
FewSettings ==
  /\ \A p \in ProjectIds : project'[p].revision \in SmallRevisions /\ project'[p].size = 1
  /\ \A q \in issued' : q.arg \in {0, 1} \union (IF q.op = "restore" THEN SmallRevisions ELSE {})

SliceNext ==
  \/ at = "core" /\ Next /\ OneProject /\ UNCHANGED at
  \/ at = "identities" /\ Next /\ FewSettings /\ UNCHANGED at

Slices == SliceInit /\ [][SliceNext]_<<at, vars>>
=============================================================================
