------------------------- MODULE MCLanguageRequests -------------------------
(***************************************************************************)
(* LanguagePage for TLC, in slices: "at" says in the first state which of  *)
(* these the behaviour is about.                                           *)
(*                                                                         *)
(*   requests    all kinds of proposals, on a project that changes little  *)
(*   films       proposals of one kind only, on one that changes more      *)
(*   operations  the page while its user commands operations               *)
(*   words       the page while its user asks in words                     *)
(*                                                                         *)
(* One request is attended and one is not, so only the handlers are        *)
(* interchangeable.                                                        *)
(***************************************************************************)
EXTENDS LanguagePage, TLC

CONSTANTS
    FewRevisions,   \* bound on the revisions where proposals are of all kinds
    Filmed,         \* the kinds of proposals where revisions are many
    FewVisits       \* bound on the visits of a page that asks in words

VARIABLE at

HandlerSymmetry == Permutations(Handlers)

SliceInit == at \in {"requests", "films", "operations", "words"} /\ LanguageInit

\* The bounds of the slices, on the state that a step leads to.
ChangesLittle == revision' \in FewRevisions
OneKind == \A r \in Requests : record'[r].kind \in Filmed
NoWords == language'.session.id = NoRequest
FewMountings == visit' \in FewVisits
NoOperations == ~checking' /\ \A i \in Intents : told'[i] = "unasked"

SliceNext ==
  \/ at = "requests" /\ HandlersMove /\ ChangesLittle /\ UNCHANGED at
  \/ at = "films" /\ HandlersMove /\ OneKind /\ UNCHANGED at
  \/ at = "operations" /\ PageMoves /\ NoWords /\ UNCHANGED at
  \/ at = "words" /\ PageMoves /\ NoOperations /\ FewMountings /\ UNCHANGED at

Slices == SliceInit /\ [][SliceNext]_<<at, vars, page>>
=============================================================================
