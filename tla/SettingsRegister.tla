-------------------------- MODULE SettingsRegister --------------------------
(***************************************************************************)
(* What the operation core promises about the settings of projects: a      *)
(* register per project with a revision that tells every two states apart, *)
(* and requests that are applied at most once, to the state they were made *)
(* for, and keep their answer for ever.                                    *)
(***************************************************************************)
EXTENDS Naturals

CONSTANTS ProjectIds, RequestIds, Sizes, NoAnswer

VARIABLES life, revision, size, answers

register == <<life, revision, size>>
vars == <<life, revision, size, answers>>

Init ==
    /\ life \in [ProjectIds -> {"unborn", "live"}]
    /\ revision \in [ProjectIds -> Nat]
    /\ size \in [ProjectIds -> Sizes]
    /\ answers = [id \in RequestIds |-> NoAnswer]

\* The project is at a revision, with a size, afterwards.
Becomes(p, rev, value) ==
    /\ revision' = [revision EXCEPT ![p] = rev]
    /\ size' = [size EXCEPT ![p] = value]

\* An identity is used for one project.
Create(p) ==
    /\ life[p] = "unborn"
    /\ life' = [life EXCEPT ![p] = "live"]
    /\ \E value \in Sizes : Becomes(p, 1, value)
    /\ UNCHANGED answers

\* Whatever changes the settings raises the revision.
Write(p) ==
    /\ life[p] = "live"
    /\ \E value \in Sizes : Becomes(p, revision[p] + 1, value)
    /\ UNCHANGED <<life, answers>>

Delete(p) ==
    /\ life[p] = "live"
    /\ life' = [life EXCEPT ![p] = "deleted"]
    /\ UNCHANGED <<revision, size, answers>>

\* A request is answered once.  It was made for the revision it finds, and its
\* answer names the state it leaves.
Answer(p, id) ==
    /\ life[p] = "live"
    /\ answers[id] = NoAnswer
    /\ \/ UNCHANGED <<revision, size>>
       \/ \E value \in Sizes : Becomes(p, revision[p] + 1, value)
    /\ answers' = [answers EXCEPT ![id] =
         [project |-> p, base |-> revision[p], revision |-> revision'[p], size |-> size'[p]]]
    /\ UNCHANGED life

Next ==
    \E p \in ProjectIds :
        \/ Create(p) \/ Write(p) \/ Delete(p)
        \/ \E id \in RequestIds : Answer(p, id)

Spec == Init /\ [][Next]_vars
=============================================================================
