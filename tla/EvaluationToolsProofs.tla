------------------------ MODULE EvaluationToolsProofs ------------------------
(***************************************************************************)
(* Proofs about the tools of the evaluation (EvaluationTools): the         *)
(* evidence of a release, for any paths, any results and reviews and any   *)
(* number of processes; the runtime of a verification, for any files and   *)
(* any number of verifiers and cleaners; and the blinded evaluator, for    *)
(* any cases and any number of evaluators.  The mishaps are any number.    *)
(***************************************************************************)
EXTENDS EvaluationTools, FiniteSetTheorems, SequenceTheorems, TLAPS

-----------------------------------------------------------------------------
(* The evidence of a release (ReleaseEvidence).                            *)

\* Publications, results, triplets, verifications and decisions, and what stands for none.
Publications == [file : [Paths -> 0..1], tool : 0..1, whole : BOOLEAN] \cup {R!NoPublication}
Bundles == [of : Publications, result : [R!Modes -> SUBSET R!ModeGates]]
Triplets == [bundle : Bundles, digest : Bundles, of : Publications, tool : 0..1]
Verifications == [of : Publications, tool : 0..1, passed : BOOLEAN]
Decisions == [of : Publications, outcome : {"none", "Ready", "Conditionally ready", "Not ready"},
              triplet : Triplets, verification : Verifications, reviews : SUBSET R!Kinds, tool : 0..1]
Processes == [pc : {"idle", "print", "claim", "stage", "staged", "reread", "triplet",
                    "json", "md"},
              file : [Paths -> 0..2], snapshot : Nat, tool : 0..1, whole : BOOLEAN,
              publication : Publications, bundle : Bundles, decision : Decisions]

\* The evidence has its types.
EvidenceTyped ==
  /\ R!TypeOK
  /\ r_bundle \in Bundles /\ r_accepted \in Triplets /\ r_verification \in Verifications
  /\ r_json \in Decisions /\ r_md \in Decisions
  /\ r_checkout \in [file : [Paths -> 0..1], snapshot : Nat] /\ r_checkout.snapshot <= r_mishaps
  /\ r_work \in [R!Workers -> Processes]

\* What a favourable decision rests on.
Earned(d) ==
  d.outcome \in {"Ready", "Conditionally ready"} =>
    /\ d.of.file = R!Committed
    /\ d.triplet.bundle.of = d.of /\ d.verification.of = d.of
    /\ d.triplet.bundle = d.triplet.digest
    /\ d.triplet.bundle.result["stateful"] = R!ModeGates
    /\ {"completion", "safety"} \subseteq d.triplet.bundle.result["all_tools"]
    /\ d.verification.passed
    /\ d.triplet.tool = d.tool /\ d.verification.tool = d.tool
    /\ d.reviews = R!Kinds

\* What a process knows: as long as the snapshot is the one it started with, what it has
\* read of the files is the commit; what it imports is of a publication; what it decides is
\* earned, and its decision.json is in place unless somebody removes such files.
Knows(r) ==
  /\ r.pc = "print" =>
       /\ r.snapshot <= r_checkout.snapshot
       /\ r.snapshot = r_checkout.snapshot => R!Clean /\ \A p \in Paths : r.file[p] \in {0, 2}
  /\ r.pc \in {"claim", "stage", "staged"} => r.file = R!Committed
  /\ r.pc \in {"reread", "triplet"} => r.publication \in r_frozen /\ r.bundle.of = r.publication
  /\ r.pc \in {"json", "md"} => r.decision.outcome # "none" /\ Earned(r.decision)
  /\ r.pc = "md" /\ "shared" \notin r_marks => r_json = r.decision

ProcessesKnow == \A w \in R!Workers : Knows(r_work[w])

\* A decision that is published was made.
DecisionsAreMade == \A d \in {r_json, r_md} : d = R!NoDecision \/ d.outcome # "none"

EvidenceInv ==
  /\ EvidenceTyped /\ ProcessesKnow /\ DecisionsAreMade
  /\ R!FrozenIsTheCommit /\ R!AcceptedIsValidated /\ R!ReadyIsEarned /\ R!PairIsOne

-----------------------------------------------------------------------------
(* Lemmas.                                                                 *)

\* What stands for nothing has the type of what it stands for.
LEMMA NothingIsTyped ==
  /\ R!NoPublication \in Publications /\ R!NoBundle \in Bundles /\ R!NoTriplet \in Triplets
  /\ R!NoVerification \in Verifications /\ R!NoDecision \in Decisions /\ R!Idle \in Processes
<1>1. R!NoPublication \in Publications
  BY DEF Publications
<1>2. R!NoBundle \in Bundles
  BY <1>1 DEF R!NoBundle, Bundles, R!Modes
<1>3. R!NoTriplet \in Triplets
  BY <1>1, <1>2 DEF R!NoTriplet, Triplets
<1>4. R!NoVerification \in Verifications
  BY <1>1 DEF R!NoVerification, Verifications
<1>5. R!NoDecision \in Decisions
  BY <1>1, <1>3, <1>4 DEF R!NoDecision, Decisions
<1>6. R!Idle \in Processes
  <2>1. R!NoPublication.file \in [Paths -> 0..2]
    BY DEF R!NoPublication
  <2> QED BY <1>1, <1>2, <1>5, <2>1 DEF R!Idle, Processes
<1> QED BY <1>1, <1>2, <1>3, <1>4, <1>5, <1>6

\* A frozen publication is a publication.
LEMMA FrozenAreTyped ==
  ASSUME EvidenceInv
  PROVE  /\ r_frozen \subseteq Publications
         /\ r_bundle.of \in Publications
  BY DEF EvidenceInv, EvidenceTyped, R!TypeOK, Publications, Bundles

\* The mishaps are counted.
LEMMA MishapsAreCounted ==
  ASSUME EvidenceInv
  PROVE  r_mishaps \in 0..MaxMishaps /\ r_mishaps >= r_mishaps
<1>1. r_mishaps \in 0..MaxMishaps
  BY DEF EvidenceInv, EvidenceTyped, R!TypeOK
<1> QED BY <1>1, EvidenceAssumption

\* The invariant is kept when one process moves on and knows what it has to, and nothing
\* that others read has changed.
LEMMA ProcessMoves ==
  ASSUME EvidenceInv, NEW w \in R!Workers, NEW r \in Processes, Knows(r),
         r_work' = [r_work EXCEPT ![w] = r],
         UNCHANGED <<R!published, R!inputs>>, r_marks' \in {r_marks, r_marks \cup {"left"}},
         r_mishaps' \in 0..MaxMishaps, r_mishaps' >= r_mishaps
  PROVE  EvidenceInv'
<1>1. UNCHANGED <<r_frozen, r_accepted, r_json, r_md, r_checkout, r_tool, r_bundle,
                  r_verification>>
  BY DEF R!published, R!inputs
<1>6. "shared" \in r_marks' <=> "shared" \in r_marks
  OBVIOUS
<1>2. EvidenceTyped'
  <2>1. R!TypeOK'
    <3>1. R!TypeOK
      BY DEF EvidenceInv, EvidenceTyped
    <3> QED BY <1>1, <3>1 DEF R!TypeOK
  <2>2. r_work' \in [R!Workers -> Processes]
    BY DEF EvidenceInv, EvidenceTyped
  <2>3. r_checkout'.snapshot <= r_mishaps'
    <3>1. r_checkout.snapshot \in Nat /\ r_mishaps \in 0..MaxMishaps /\ r_checkout.snapshot <= r_mishaps
      BY DEF EvidenceInv, EvidenceTyped, R!TypeOK
    <3> QED BY <1>1, <3>1, EvidenceAssumption
  <2> QED BY <1>1, <2>1, <2>2, <2>3 DEF EvidenceInv, EvidenceTyped
<1>3. ProcessesKnow'
  <2> SUFFICES ASSUME NEW v \in R!Workers PROVE Knows(r_work[v])'
    BY DEF ProcessesKnow
  <2>1. r_work'[v] = IF v = w THEN r ELSE r_work[v]
    BY DEF EvidenceInv, EvidenceTyped
  <2>2. Knows(r_work[v])
    BY DEF EvidenceInv, ProcessesKnow
  <2>3. CASE v = w
    BY <1>1, <1>6, <2>1, <2>3 DEF Knows, R!Clean
  <2>4. CASE v # w
    BY <1>1, <1>6, <2>1, <2>2, <2>4 DEF Knows, R!Clean
  <2> QED BY <2>3, <2>4
<1>4. /\ DecisionsAreMade' /\ R!FrozenIsTheCommit' /\ R!AcceptedIsValidated' /\ R!PairIsOne'
  BY <1>1, <1>6 DEF EvidenceInv, DecisionsAreMade, R!FrozenIsTheCommit, R!AcceptedIsValidated,
       R!PairIsOne
<1>5. R!ReadyIsEarned'
  BY <1>1 DEF EvidenceInv, R!ReadyIsEarned
<1> QED BY <1>2, <1>3, <1>4, <1>5 DEF EvidenceInv

\* A process that only goes to another stage, or comes to a stop.
LEMMA StageFollows ==
  ASSUME EvidenceInv, NEW w \in R!Workers, NEW pc, [r_work[w] EXCEPT !.pc = pc] \in Processes,
         Knows([r_work[w] EXCEPT !.pc = pc]), R!Goto(w, pc),
         UNCHANGED <<R!published, R!inputs, r_marks, r_mishaps>>
  PROVE  EvidenceInv'
<1> DEFINE r == [r_work[w] EXCEPT !.pc = pc]
<1>1. r_work' = [r_work EXCEPT ![w] = r]
  BY DEF R!Goto
<1>2. r_mishaps' \in 0..MaxMishaps /\ r_mishaps' >= r_mishaps
  BY MishapsAreCounted
<1> HIDE DEF r
<1> QED BY <1>1, <1>2, ProcessMoves DEF r

\* An idle process has nothing to know.
LEMMA IdleKnows ==
  Knows(R!Idle) /\ R!Idle \in Processes
  BY NothingIsTyped DEF Knows, R!Idle

\* A process that stops, whatever the reason.
LEMMA StopKeeps ==
  ASSUME EvidenceInv, NEW w \in R!Workers, R!Stop(w),
         UNCHANGED <<R!published, R!inputs>>, r_marks' \in {r_marks, r_marks \cup {"left"}},
         r_mishaps' \in 0..MaxMishaps, r_mishaps' >= r_mishaps
  PROVE  EvidenceInv'
  BY IdleKnows, ProcessMoves DEF R!Stop

\* What the invariant says of one process.
LEMMA OfAProcess ==
  ASSUME EvidenceInv, NEW w \in R!Workers
  PROVE  r_work[w] \in Processes /\ Knows(r_work[w])
  BY DEF EvidenceInv, EvidenceTyped, ProcessesKnow

\* The edited inputs have their types, and what the processes know of the checkout stays
\* true: an edit leaves another snapshot.
LEMMA InputsMove ==
  ASSUME EvidenceInv,
         r_checkout' \in [file : [Paths -> 0..1], snapshot : 0..MaxMishaps],
         r_checkout' = r_checkout \/ r_checkout'.snapshot = r_checkout.snapshot + 1,
         r_tool' \in 0..1, r_bundle' \in Bundles, r_verification' \in Verifications,
         r_bundle'.of \in r_frozen \cup {R!NoPublication},
         r_verification'.of \in r_frozen \cup {R!NoPublication},
         UNCHANGED <<R!published, r_work, r_marks>>,
         r_mishaps' \in 0..MaxMishaps, r_checkout'.snapshot <= r_mishaps'
  PROVE  EvidenceInv'
<1>1. UNCHANGED <<r_frozen, r_accepted, r_json, r_md, r_marks, r_work>>
  BY DEF R!published
<1>2. EvidenceTyped'
  <2>1. R!TypeOK
    BY DEF EvidenceInv, EvidenceTyped
  <2>2. R!TypeOK'
    BY <1>1, <2>1 DEF R!TypeOK
  <2>3. r_checkout' \in [file : [Paths -> 0..1], snapshot : Nat]
    BY EvidenceAssumption
  <2>4. /\ r_accepted \in Triplets /\ r_json \in Decisions /\ r_md \in Decisions
        /\ r_work \in [R!Workers -> Processes]
    BY DEF EvidenceInv, EvidenceTyped
  <2> QED BY <1>1, <2>2, <2>3, <2>4 DEF EvidenceTyped
<1>3. ProcessesKnow'
  <2> SUFFICES ASSUME NEW v \in R!Workers PROVE Knows(r_work[v])'
    BY DEF ProcessesKnow
  <2>1. r_work[v] \in Processes /\ Knows(r_work[v])
    BY OfAProcess
  <2>2. r_checkout.snapshot \in Nat /\ r_work[v].snapshot \in Nat
    BY <2>1 DEF EvidenceInv, EvidenceTyped, Processes
  <2>3. CASE r_checkout' = r_checkout
    BY <1>1, <2>1, <2>3 DEF Knows, R!Clean
  <2>4. CASE r_checkout'.snapshot = r_checkout.snapshot + 1
    BY <1>1, <2>1, <2>2, <2>4 DEF Knows, R!Clean
  <2> QED BY <2>3, <2>4
<1>4. /\ DecisionsAreMade' /\ R!FrozenIsTheCommit' /\ R!AcceptedIsValidated' /\ R!PairIsOne'
  BY <1>1 DEF EvidenceInv, DecisionsAreMade, R!FrozenIsTheCommit, R!AcceptedIsValidated,
       R!PairIsOne
<1>5. R!ReadyIsEarned'
  BY <1>1 DEF EvidenceInv, R!ReadyIsEarned
<1> QED BY <1>2, <1>3, <1>4, <1>5 DEF EvidenceInv

-----------------------------------------------------------------------------
(* One lemma per action: it keeps the invariant.                           *)

\* A freeze begins with a clean checkout and the snapshot of it.
LEMMA FreezeBeginsKeeps ==
  ASSUME EvidenceInv, NEW w \in R!Workers, R!FreezeBegins(w)
  PROVE  EvidenceInv'
<1> DEFINE r == [R!Idle EXCEPT !.pc = "print", !.snapshot = r_checkout.snapshot]
<1>1. r_checkout.snapshot \in Nat
  BY DEF EvidenceInv, EvidenceTyped
<1>2. /\ r \in Processes /\ r.pc = "print" /\ r.snapshot = r_checkout.snapshot
      /\ r.file = [p \in Paths |-> 2]
  BY <1>1, IdleKnows DEF Processes, R!Idle, R!NoPublication
<1>3. R!Clean /\ r_work' = [r_work EXCEPT ![w] = r] /\ UNCHANGED <<R!published, R!inputs,
                                                                   r_marks, r_mishaps>>
  BY DEF R!FreezeBegins
<1> HIDE DEF r
<1>4. Knows(r)
  BY <1>1, <1>2, <1>3 DEF Knows
<1> QED BY <1>2, <1>3, <1>4, MishapsAreCounted, ProcessMoves

\* As long as the snapshot is the one of the start, what is read is the commit.
LEMMA FingerprintKeeps ==
  ASSUME EvidenceInv, NEW w \in R!Workers, NEW p \in Paths, R!Fingerprint(w, p)
  PROVE  EvidenceInv'
<1> DEFINE r == [r_work[w] EXCEPT !.file[p] = r_checkout.file[p]]
<1>1. r_work[w] \in Processes /\ Knows(r_work[w]) /\ r_checkout.file \in [Paths -> 0..1]
  BY OfAProcess DEF EvidenceInv, EvidenceTyped
<1>2. /\ r \in Processes /\ r.pc = r_work[w].pc /\ r.snapshot = r_work[w].snapshot
      /\ r.file = [r_work[w].file EXCEPT ![p] = r_checkout.file[p]]
  <2>1. [r_work[w].file EXCEPT ![p] = r_checkout.file[p]] \in [Paths -> 0..2]
    BY <1>1 DEF Processes
  <2> QED BY <1>1, <2>1 DEF Processes
<1>3. /\ r_work[w].pc = "print" /\ r_work' = [r_work EXCEPT ![w] = r]
      /\ UNCHANGED <<R!published, R!inputs, r_marks, r_mishaps>>
  BY DEF R!Fingerprint
<1> HIDE DEF r
<1>4. Knows(r)
  <2>1. r_work[w].file \in [Paths -> 0..2]
    BY <1>1 DEF Processes
  <2>2. \A q \in Paths : r.file[q] = IF q = p THEN r_checkout.file[p] ELSE r_work[w].file[q]
    BY <1>2, <2>1
  <2>3. R!Clean => r_checkout.file[p] = 0
    BY DEF R!Clean, R!Committed
  <2> QED BY <1>1, <1>2, <1>3, <2>2, <2>3 DEF Knows
<1> QED BY <1>2, <1>3, <1>4, MishapsAreCounted, ProcessMoves

\* With the snapshot of the start, every file that was read is the commit's.
LEMMA FreezeRechecksKeeps ==
  ASSUME EvidenceInv, NEW w \in R!Workers, R!FreezeRechecks(w)
  PROVE  EvidenceInv'
<1>1. CASE ~R!Unchanged(w)
  BY <1>1, MishapsAreCounted, StopKeeps DEF R!FreezeRechecks
<1>2. CASE R!Unchanged(w)
  <2> DEFINE r == [r_work[w] EXCEPT !.pc = "claim", !.tool = r_tool]
  <2>1. r_work[w] \in Processes /\ Knows(r_work[w]) /\ r_tool \in 0..1
    BY OfAProcess DEF EvidenceInv, EvidenceTyped, R!TypeOK
  <2>2. r \in Processes /\ r.pc = "claim" /\ r.file = r_work[w].file
    BY <2>1 DEF Processes
  <2>3. r_work' = [r_work EXCEPT ![w] = [r_work[w] EXCEPT !.pc = "claim", !.tool = r_tool]]
    BY <1>2 DEF R!FreezeRechecks
  <2>4. r_work' = [r_work EXCEPT ![w] = r] /\ UNCHANGED <<R!published, R!inputs, r_marks,
                                                          r_mishaps>>
    BY <2>3 DEF R!FreezeRechecks
  <2> HIDE DEF r
  <2>5. r_work[w].file = R!Committed
    <3>1. r_work[w].file \in [Paths -> 0..2]
      BY <2>1 DEF Processes
    <3>2. \A p \in Paths : r_work[w].file[p] = 0
      BY <1>2, <2>1 DEF R!FreezeRechecks, R!Unchanged, Knows
    <3> QED BY <3>1, <3>2 DEF R!Committed
  <2>6. Knows(r)
    BY <2>2, <2>5 DEF Knows
  <2> QED BY <2>2, <2>4, <2>6, MishapsAreCounted, ProcessMoves
<1> QED BY <1>1, <1>2

\* A claim changes nothing of what was read.
LEMMA FreezeClaimsKeeps ==
  ASSUME EvidenceInv, NEW w \in R!Workers, R!FreezeClaims(w)
  PROVE  EvidenceInv'
<1> DEFINE r == [r_work[w] EXCEPT !.pc = "stage"]
<1>1. r_work[w] \in Processes /\ Knows(r_work[w]) /\ r_work[w].pc = "claim"
  BY OfAProcess DEF R!FreezeClaims
<1>2. r \in Processes /\ r.pc = "stage" /\ r.file = r_work[w].file
  BY <1>1 DEF Processes
<1>3. Knows(r)
  BY <1>1, <1>2 DEF Knows
<1> QED BY <1>2, <1>3, StageFollows DEF R!FreezeClaims

\* Nor does the writing of the staged files.
LEMMA FreezeWritesKeeps ==
  ASSUME EvidenceInv, NEW w \in R!Workers, R!FreezeWrites(w)
  PROVE  EvidenceInv'
<1> DEFINE r == [r_work[w] EXCEPT !.pc = "staged"]
<1>1. r_work[w] \in Processes /\ Knows(r_work[w]) /\ r_work[w].pc = "stage"
  BY OfAProcess DEF R!FreezeWrites
<1>2. r \in Processes /\ r.pc = "staged" /\ r.file = r_work[w].file
  BY <1>1 DEF Processes
<1>3. Knows(r)
  BY <1>1, <1>2 DEF Knows
<1> QED BY <1>2, <1>3, StageFollows DEF R!FreezeWrites

\* What is published is the commit, and nobody touched the claim.
LEMMA FreezePublishesKeeps ==
  ASSUME EvidenceInv, NEW w \in R!Workers, R!FreezePublishes(w)
  PROVE  EvidenceInv'
<1> DEFINE n == [file |-> r_work[w].file, tool |-> r_work[w].tool, whole |-> r_work[w].whole]
<1>1. /\ r_work[w] \in Processes /\ r_work[w].whole /\ r_work[w].file = R!Committed
      /\ r_work' = [r_work EXCEPT ![w] = R!Idle]
      /\ UNCHANGED <<r_accepted, r_json, r_md, r_checkout, r_tool, r_bundle, r_verification,
                     r_marks, r_mishaps>>
  BY OfAProcess DEF R!FreezePublishes, Knows, R!ClaimHolds, R!Stop, R!inputs
<1>2. n \in [file : [Paths -> 0..1], tool : 0..1, whole : BOOLEAN] /\ n.file = R!Committed /\ n.whole
  BY <1>1 DEF Processes, R!Committed
<1>3. r_frozen' = r_frozen \/ r_frozen' = r_frozen \cup {n}
  BY DEF R!FreezePublishes
<1> HIDE DEF n
<1>4. EvidenceTyped'
  <2>1. R!TypeOK
    BY DEF EvidenceInv, EvidenceTyped
  <2>2. R!TypeOK'
    BY <1>1, <1>2, <1>3, <2>1 DEF R!TypeOK
  <2>3. r_work' \in [R!Workers -> Processes]
    BY <1>1, IdleKnows DEF EvidenceInv, EvidenceTyped
  <2> QED BY <1>1, <2>2, <2>3 DEF EvidenceInv, EvidenceTyped
<1>5. ProcessesKnow'
  <2> SUFFICES ASSUME NEW v \in R!Workers PROVE Knows(r_work[v])'
    BY DEF ProcessesKnow
  <2>1. r_work'[v] = IF v = w THEN R!Idle ELSE r_work[v]
    BY <1>1 DEF EvidenceInv, EvidenceTyped
  <2>2. CASE v = w
    BY <2>1, <2>2 DEF Knows, R!Idle
  <2>3. CASE v # w
    BY <1>1, <1>3, <2>1, <2>3, OfAProcess DEF Knows, R!Clean
  <2> QED BY <2>2, <2>3
<1>6. /\ DecisionsAreMade' /\ R!AcceptedIsValidated' /\ R!PairIsOne'
  BY <1>1 DEF EvidenceInv, DecisionsAreMade, R!AcceptedIsValidated, R!PairIsOne
<1>7. R!FrozenIsTheCommit'
  BY <1>2, <1>3 DEF EvidenceInv, R!FrozenIsTheCommit
<1>8. R!ReadyIsEarned'
  BY <1>1 DEF EvidenceInv, R!ReadyIsEarned
<1> QED BY <1>4, <1>5, <1>6, <1>7, <1>8 DEF EvidenceInv

\* An import begins with a bundle about a frozen publication.
LEMMA ImportReadsKeeps ==
  ASSUME EvidenceInv, NEW w \in R!Workers, NEW f \in r_frozen, R!ImportReads(w, f)
  PROVE  EvidenceInv'
<1> DEFINE r == [R!Idle EXCEPT !.pc = "reread", !.bundle = r_bundle, !.publication = f, !.tool = r_tool]
<1>1. f \in Publications /\ r_bundle \in Bundles /\ r_tool \in 0..1
  BY FrozenAreTyped DEF EvidenceInv, EvidenceTyped, R!TypeOK
<1>2. /\ r \in Processes /\ r.pc = "reread" /\ r.publication = f /\ r.bundle = r_bundle
  BY <1>1, IdleKnows DEF Processes, R!Idle
<1>3. /\ r_bundle.of = f /\ r_work' = [r_work EXCEPT ![w] = r]
      /\ UNCHANGED <<R!published, R!inputs, r_marks, r_mishaps>>
  BY DEF R!ImportReads, R!Binds
<1> HIDE DEF r
<1>4. Knows(r)
  BY <1>2, <1>3 DEF Knows
<1> QED BY <1>2, <1>3, <1>4, MishapsAreCounted, ProcessMoves

\* The second reading changes nothing of the first.
LEMMA ImportRereadsKeeps ==
  ASSUME EvidenceInv, NEW w \in R!Workers, R!ImportRereads(w)
  PROVE  EvidenceInv'
<1> DEFINE r == [r_work[w] EXCEPT !.pc = "triplet"]
<1>1. r_work[w] \in Processes /\ Knows(r_work[w]) /\ r_work[w].pc = "reread"
  BY OfAProcess DEF R!ImportRereads
<1>2. r \in Processes /\ r.pc = "triplet" /\ r.publication = r_work[w].publication
      /\ r.bundle = r_work[w].bundle
  BY <1>1 DEF Processes
<1>3. Knows(r)
  BY <1>1, <1>2 DEF Knows
<1>4. CASE R!Stop(w)
  BY <1>4, MishapsAreCounted, StopKeeps DEF R!ImportRereads
<1>5. CASE R!Goto(w, "triplet")
  BY <1>2, <1>3, <1>5, StageFollows DEF R!ImportRereads
<1> QED BY <1>4, <1>5 DEF R!ImportRereads

\* What is imported is what was validated.
LEMMA ImportPublishesKeeps ==
  ASSUME EvidenceInv, NEW w \in R!Workers, R!ImportPublishes(w)
  PROVE  EvidenceInv'
<1> DEFINE n == [bundle |-> r_work[w].bundle, digest |-> r_work[w].bundle,
                 of |-> r_work[w].publication, tool |-> r_work[w].tool]
<1>1. /\ r_work[w] \in Processes /\ r_work[w].publication \in r_frozen
      /\ r_work[w].bundle.of = r_work[w].publication
      /\ r_work' = [r_work EXCEPT ![w] = R!Idle]
      /\ UNCHANGED <<r_frozen, r_json, r_md, r_checkout, r_tool, r_bundle, r_verification,
                     r_marks, r_mishaps>>
  BY OfAProcess DEF R!ImportPublishes, Knows, R!Stop, R!inputs
<1>2. /\ n \in Triplets /\ n.bundle = n.digest /\ n.bundle.of = n.of /\ n.of \in r_frozen
  BY <1>1 DEF Processes, Triplets
<1>3. r_accepted' = r_accepted \/ r_accepted' = n
  BY DEF R!ImportPublishes, R!AcceptedBytes
<1> HIDE DEF n
<1>4. EvidenceTyped'
  <2>1. R!TypeOK
    BY DEF EvidenceInv, EvidenceTyped
  <2>2. R!TypeOK'
    BY <1>1, <1>2, <1>3, <2>1 DEF R!TypeOK
  <2>3. r_work' \in [R!Workers -> Processes]
    BY <1>1, IdleKnows DEF EvidenceInv, EvidenceTyped
  <2> QED BY <1>1, <1>2, <1>3, <2>2, <2>3 DEF EvidenceInv, EvidenceTyped
<1>5. ProcessesKnow'
  <2> SUFFICES ASSUME NEW v \in R!Workers PROVE Knows(r_work[v])'
    BY DEF ProcessesKnow
  <2>1. r_work'[v] = IF v = w THEN R!Idle ELSE r_work[v]
    BY <1>1 DEF EvidenceInv, EvidenceTyped
  <2>2. CASE v = w
    BY <2>1, <2>2 DEF Knows, R!Idle
  <2>3. CASE v # w
    BY <1>1, <2>1, <2>3, OfAProcess DEF Knows, R!Clean
  <2> QED BY <2>2, <2>3
<1>6. /\ DecisionsAreMade' /\ R!FrozenIsTheCommit' /\ R!PairIsOne'
  BY <1>1 DEF EvidenceInv, DecisionsAreMade, R!FrozenIsTheCommit, R!PairIsOne
<1>7. R!AcceptedIsValidated'
  BY <1>2, <1>3 DEF EvidenceInv, R!AcceptedIsValidated
<1>8. R!ReadyIsEarned'
  BY <1>1 DEF EvidenceInv, R!ReadyIsEarned
<1> QED BY <1>4, <1>5, <1>6, <1>7, <1>8 DEF EvidenceInv

\* Evidence without a blocker has passed every gate.
LEMMA WithoutBlockers ==
  ASSUME EvidenceInv, NEW f \in r_frozen, NEW reviews \in Reviews, R!Blockers(f, reviews) = {}
  PROVE  /\ r_accepted.bundle.of = f /\ r_verification.of = f /\ r_verification.passed
         /\ r_accepted.tool = r_tool /\ r_verification.tool = r_tool
         /\ r_accepted.bundle.result["stateful"] = R!ModeGates
         /\ {"completion", "safety"} \subseteq r_accepted.bundle.result["all_tools"]
         /\ reviews = R!Kinds
<1>1. /\ R!Upstream(f) /\ r_verification.passed
      /\ UNION {R!Required(m) \ r_accepted.bundle.result[m] : m \in R!Modes} = {}
      /\ R!Kinds \ reviews = {}
  <2> DEFINE upstream == IF R!Upstream(f) THEN {} ELSE {"upstream"}
             integrity == IF r_verification.passed THEN {} ELSE {"d39_integrity"}
             gates == UNION {R!Required(m) \ r_accepted.bundle.result[m] : m \in R!Modes}
             missing == R!Kinds \ reviews
  <2>1. R!Blockers(f, reviews) = upstream \cup integrity \cup gates \cup missing
    BY Zenon DEF R!Blockers
  <2>2. upstream = {} => R!Upstream(f)
    OBVIOUS
  <2>3. integrity = {} => r_verification.passed
    OBVIOUS
  <2> HIDE DEF upstream, integrity, gates, missing
  <2>4. upstream = {} /\ integrity = {} /\ gates = {} /\ missing = {}
    BY <2>1
  <2> QED BY <2>2, <2>3, <2>4 DEF gates, missing
<1>2. \A m \in R!Modes : R!Required(m) \subseteq r_accepted.bundle.result[m]
  BY <1>1
<1>3. r_accepted.bundle.result \in [R!Modes -> SUBSET R!ModeGates]
  BY DEF EvidenceInv, EvidenceTyped, Triplets, Bundles
<1>4. R!ModeGates \subseteq r_accepted.bundle.result["stateful"]
  BY <1>2 DEF R!Required, R!Modes
<1>5. {"completion", "safety"} \subseteq r_accepted.bundle.result["all_tools"]
  BY <1>2 DEF R!Required, R!Modes, R!ModeGates
<1>6. r_accepted.bundle.result["stateful"] \subseteq R!ModeGates
  BY <1>3 DEF R!Modes
<1>7. reviews = R!Kinds
  BY <1>1, EvidenceAssumption
<1> QED BY <1>1, <1>4, <1>5, <1>6, <1>7 DEF R!Upstream, R!Current

\* A decision is earned when it is made.
LEMMA DecideReadsKeeps ==
  ASSUME EvidenceInv, NEW w \in R!Workers, NEW f \in r_frozen, R!DecideReads(w, f)
  PROVE  EvidenceInv'
<1>1. PICK reviews \in Reviews, limited \in BOOLEAN :
        r_work' = [r_work EXCEPT ![w] = [R!Idle EXCEPT !.pc = "json",
          !.decision = [of |-> f, outcome |-> R!Outcome(f, reviews, limited),
          triplet |-> r_accepted,
                        verification |-> r_verification, reviews |-> reviews, tool |-> r_tool]]]
  BY DEF R!DecideReads
<1> DEFINE d == [of |-> f, outcome |-> R!Outcome(f, reviews, limited), triplet |-> r_accepted,
                 verification |-> r_verification, reviews |-> reviews, tool |-> r_tool]
           r == [R!Idle EXCEPT !.pc = "json", !.decision = d]
<1>2. /\ R!Outcome(f, reviews, limited) \in {"Ready", "Conditionally ready", "Not ready"}
      /\ R!Outcome(f, reviews, limited) # "Not ready" => R!Blockers(f, reviews) = {}
  BY DEF R!Outcome
<1>3. f \in Publications /\ f.file = R!Committed
  BY FrozenAreTyped DEF EvidenceInv, R!FrozenIsTheCommit
<1>4. d \in Decisions
  <2>1. /\ r_accepted \in Triplets /\ r_verification \in Verifications /\ r_tool \in 0..1
        /\ reviews \in SUBSET R!Kinds
    BY EvidenceAssumption DEF EvidenceInv, EvidenceTyped, R!TypeOK
  <2> QED BY <1>2, <1>3, <2>1 DEF Decisions
<1>5. d.outcome # "none" /\ Earned(d)
  <2>1. r_accepted.bundle = r_accepted.digest
    BY DEF EvidenceInv, R!AcceptedIsValidated
  <2> QED BY <1>2, <1>3, <2>1, WithoutBlockers DEF Earned
<1>6. r_work' = [r_work EXCEPT ![w] = r]
  BY <1>1
<1> HIDE DEF d
<1>7. r \in Processes /\ r.pc = "json" /\ r.decision = d
  BY <1>4, IdleKnows DEF Processes, R!Idle
<1> HIDE DEF r
<1>8. Knows(r)
  BY <1>5, <1>7 DEF Knows
<1> QED BY <1>6, <1>7, <1>8, MishapsAreCounted, ProcessMoves DEF R!DecideReads

\* What a decision publishes is earned; nobody who waits for his summary loses his file.
LEMMA DecisionPublishesKeeps ==
  ASSUME EvidenceInv, NEW w \in R!Workers, R!DecisionPublishes(w)
  PROVE  EvidenceInv'
<1>1. CASE r_json \notin {R!NoDecision, r_work[w].decision} /\ UNCHANGED r_json /\ R!Stop(w)
  BY <1>1, MishapsAreCounted, StopKeeps DEF R!DecisionPublishes, R!published
<1>2. CASE r_json \in {R!NoDecision, r_work[w].decision} /\ r_json' = r_work[w].decision /\ R!Goto(w, "md")
  <2> DEFINE r == [r_work[w] EXCEPT !.pc = "md"]
  <2>1. /\ r_work[w] \in Processes /\ r_work[w].decision.outcome # "none" /\ Earned(r_work[w].decision)
        /\ UNCHANGED <<r_frozen, r_accepted, r_md, r_checkout, r_tool, r_bundle, r_verification,
                       r_marks, r_mishaps>>
    BY OfAProcess DEF R!DecisionPublishes, Knows, R!inputs
  <2>2. /\ r \in Processes /\ r.pc = "md" /\ r.decision = r_work[w].decision
    BY <2>1 DEF Processes
  <2>3. r_work' = [r_work EXCEPT ![w] = r]
    BY <1>2 DEF R!Goto
  <2> HIDE DEF r
  <2>4. r_json' \in Decisions /\ r_json'.outcome # "none" /\ Earned(r_json')
    BY <1>2, <2>1 DEF Processes
  <2>5. EvidenceTyped'
    <3>1. R!TypeOK
      BY DEF EvidenceInv, EvidenceTyped
    <3>2. r_json'.outcome \in {"none", "Ready", "Conditionally ready", "Not ready"}
      BY <2>4 DEF Decisions
    <3>3. R!TypeOK'
      BY <2>1, <3>1, <3>2 DEF R!TypeOK
    <3>4. r_work' \in [R!Workers -> Processes]
      BY <2>2, <2>3 DEF EvidenceInv, EvidenceTyped
    <3> QED BY <2>1, <2>4, <3>3, <3>4 DEF EvidenceInv, EvidenceTyped
  <2>6. r_json = R!NoDecision \/ r_json' = r_json
    BY <1>2
  <2>7. R!NoDecision.outcome = "none"
    BY DEF R!NoDecision
  <2>8. ProcessesKnow'
    <3> SUFFICES ASSUME NEW v \in R!Workers PROVE Knows(r_work[v])'
      BY DEF ProcessesKnow
    <3>1. r_work'[v] = IF v = w THEN r ELSE r_work[v]
      BY <2>3 DEF EvidenceInv, EvidenceTyped
    <3>2. CASE v = w
      BY <1>2, <2>1, <2>2, <3>1, <3>2 DEF Knows
    <3>3. CASE v # w
      <4>1. Knows(r_work[v])
        BY OfAProcess
      <4>2. r_work[v].pc = "md" /\ "shared" \notin r_marks => r_json' = r_json
        BY <2>6, <2>7, <4>1 DEF Knows
      <4> QED BY <2>1, <3>1, <3>3, <4>1, <4>2 DEF Knows, R!Clean
    <3> QED BY <3>2, <3>3
  <2>9. DecisionsAreMade' /\ R!PairIsOne'
    BY <2>1, <2>4, <2>6, <2>7 DEF EvidenceInv, DecisionsAreMade, R!PairIsOne
  <2>10. R!FrozenIsTheCommit' /\ R!AcceptedIsValidated'
    BY <2>1 DEF EvidenceInv, R!FrozenIsTheCommit, R!AcceptedIsValidated
  <2>11. R!ReadyIsEarned'
    <3>1. Earned(r_md)
      BY DEF EvidenceInv, R!ReadyIsEarned, Earned
    <3>2. Earned(r_md')
      BY <2>1, <3>1
    <3> QED BY <2>4, <3>2 DEF R!ReadyIsEarned, Earned
  <2> QED BY <2>5, <2>8, <2>9, <2>10, <2>11 DEF EvidenceInv
<1> QED BY <1>1, <1>2 DEF R!DecisionPublishes

\* A summary is published beside its own decision.json, unless such files are removed.
LEMMA SummaryPublishesKeeps ==
  ASSUME EvidenceInv, NEW w \in R!Workers, R!SummaryPublishes(w)
  PROVE  EvidenceInv'
<1>1. /\ r_work[w] \in Processes /\ r_work[w].decision.outcome # "none" /\ Earned(r_work[w].decision)
      /\ "shared" \notin r_marks => r_json = r_work[w].decision
      /\ r_md' = r_work[w].decision /\ r_work' = [r_work EXCEPT ![w] = R!Idle]
      /\ UNCHANGED <<r_frozen, r_accepted, r_json, r_checkout, r_tool, r_bundle, r_verification,
                     r_marks, r_mishaps>>
  BY OfAProcess DEF R!SummaryPublishes, Knows, R!inputs, R!Stop
<1>2. r_md' \in Decisions /\ r_md'.outcome # "none" /\ Earned(r_md')
  BY <1>1 DEF Processes
<1>3. EvidenceTyped'
  <2>1. R!TypeOK
    BY DEF EvidenceInv, EvidenceTyped
  <2>2. r_md'.outcome \in {"none", "Ready", "Conditionally ready", "Not ready"}
    BY <1>2 DEF Decisions
  <2>3. R!TypeOK'
    BY <1>1, <2>1, <2>2 DEF R!TypeOK
  <2>4. r_work' \in [R!Workers -> Processes]
    BY <1>1, IdleKnows DEF EvidenceInv, EvidenceTyped
  <2> QED BY <1>1, <1>2, <2>3, <2>4 DEF EvidenceInv, EvidenceTyped
<1>4. ProcessesKnow'
  <2> SUFFICES ASSUME NEW v \in R!Workers PROVE Knows(r_work[v])'
    BY DEF ProcessesKnow
  <2>1. r_work'[v] = IF v = w THEN R!Idle ELSE r_work[v]
    BY <1>1 DEF EvidenceInv, EvidenceTyped
  <2>2. CASE v = w
    BY <2>1, <2>2 DEF Knows, R!Idle
  <2>3. CASE v # w
    BY <1>1, <2>1, <2>3, OfAProcess DEF Knows, R!Clean
  <2> QED BY <2>2, <2>3
<1>5. DecisionsAreMade' /\ R!FrozenIsTheCommit' /\ R!AcceptedIsValidated' /\ R!PairIsOne'
  BY <1>1, <1>2 DEF EvidenceInv, DecisionsAreMade, R!FrozenIsTheCommit, R!AcceptedIsValidated,
       R!PairIsOne
<1>6. R!ReadyIsEarned'
  <2>1. Earned(r_json)
    BY DEF EvidenceInv, R!ReadyIsEarned, Earned
  <2>2. Earned(r_json')
    BY <1>1, <2>1
  <2> QED BY <1>2, <2>2 DEF R!ReadyIsEarned, Earned
<1> QED BY <1>3, <1>4, <1>5, <1>6 DEF EvidenceInv

\* A decision.json is removed again: the other processes with this decision, and the summary
\* if it is published, are marked to have lost it.
LEMMA WithdrawKeeps ==
  ASSUME EvidenceInv, NEW w \in R!Workers, R!Withdraw(w), r_mishaps' \in 0..MaxMishaps,
         r_mishaps' >= r_mishaps
  PROVE  EvidenceInv'
<1>1. /\ r_work' = [r_work EXCEPT ![w] = R!Idle]
      /\ r_marks' \in {r_marks, r_marks \cup {"shared"}}
      /\ r_json' = r_json \/ r_json' = R!NoDecision
      /\ UNCHANGED <<r_frozen, r_accepted, r_md, r_checkout, r_tool, r_bundle, r_verification>>
  BY DEF R!Withdraw, R!Stop, R!inputs
<1>7. ASSUME "shared" \notin r_marks'
      PROVE  /\ "shared" \notin r_marks
             /\ r_json' # r_json => /\ r_json = r_work[w].decision /\ r_md # r_json
                                  /\ \A v \in R!Workers \ {w} :
                                       r_work[v].pc = "md" => r_work[v].decision # r_json
  BY <1>7 DEF R!Withdraw, R!OwnJson, R!Shared
<1>2. R!NoDecision \in Decisions /\ R!NoDecision.outcome = "none"
  BY NothingIsTyped DEF R!NoDecision
<1>3. EvidenceTyped'
  <2>1. R!TypeOK
    BY DEF EvidenceInv, EvidenceTyped
  <2>2. r_json'.outcome \in {"none", "Ready", "Conditionally ready", "Not ready"}
    BY <1>1, <1>2, <2>1 DEF R!TypeOK
  <2>3. R!TypeOK'
    BY <1>1, <2>1, <2>2 DEF R!TypeOK
  <2>4. r_work' \in [R!Workers -> Processes]
    BY <1>1, IdleKnows DEF EvidenceInv, EvidenceTyped
  <2>5. r_checkout.snapshot <= r_mishaps'
    <3>1. r_checkout.snapshot \in Nat /\ r_mishaps \in 0..MaxMishaps /\ r_checkout.snapshot <= r_mishaps
      BY DEF EvidenceInv, EvidenceTyped, R!TypeOK
    <3> QED BY <3>1, EvidenceAssumption
  <2> QED BY <1>1, <1>2, <2>3, <2>4, <2>5 DEF EvidenceInv, EvidenceTyped
<1>4. ProcessesKnow'
  <2> SUFFICES ASSUME NEW v \in R!Workers PROVE Knows(r_work[v])'
    BY DEF ProcessesKnow
  <2>1. r_work'[v] = IF v = w THEN R!Idle ELSE r_work[v]
    BY <1>1 DEF EvidenceInv, EvidenceTyped
  <2>2. CASE v = w
    BY <2>1, <2>2 DEF Knows, R!Idle
  <2>3. CASE v # w
    BY <1>1, <1>7, <2>1, <2>3, OfAProcess DEF Knows, R!Clean
  <2> QED BY <2>2, <2>3
<1>5. DecisionsAreMade' /\ R!FrozenIsTheCommit' /\ R!AcceptedIsValidated'
  BY <1>1, <1>2 DEF EvidenceInv, DecisionsAreMade, R!FrozenIsTheCommit, R!AcceptedIsValidated
<1>8. R!PairIsOne'
  BY <1>1, <1>7 DEF EvidenceInv, R!PairIsOne
<1>6. R!ReadyIsEarned'
  BY <1>1, <1>2 DEF EvidenceInv, R!ReadyIsEarned
<1> QED BY <1>3, <1>4, <1>5, <1>6, <1>8 DEF EvidenceInv

\* A mishap is counted.
LEMMA MishapCounts ==
  ASSUME EvidenceInv, R!Mishap
  PROVE  /\ r_mishaps' \in 0..MaxMishaps /\ r_mishaps' >= r_mishaps /\ r_mishaps' = r_mishaps + 1
         /\ r_checkout.snapshot <= r_mishaps'
<1>1. r_mishaps \in 0..MaxMishaps /\ r_checkout.snapshot \in Nat /\ r_checkout.snapshot <= r_mishaps
  BY DEF EvidenceInv, EvidenceTyped, R!TypeOK
<1> QED BY <1>1, EvidenceAssumption DEF R!Mishap

\* A claim that is intruded upon is not whole any more; nothing else of it changes.
LEMMA IntrudeKeeps ==
  ASSUME EvidenceInv, NEW w \in R!Workers, R!Intrude(w)
  PROVE  EvidenceInv'
<1> DEFINE r == [r_work[w] EXCEPT !.whole = FALSE]
<1>1. r_work[w] \in Processes /\ Knows(r_work[w])
  BY OfAProcess
<1>2. /\ r \in Processes /\ r.pc = r_work[w].pc /\ r.file = r_work[w].file
      /\ r.publication = r_work[w].publication /\ r.bundle = r_work[w].bundle
      /\ r.pc \in {"stage", "staged", "triplet"}
      /\ r_work' = [r_work EXCEPT ![w] = [r_work[w] EXCEPT !.whole = FALSE]]
  BY <1>1 DEF Processes, R!Intrude
<1>3. r_work' = [r_work EXCEPT ![w] = r] /\ UNCHANGED <<R!published, R!inputs, r_marks>>
  BY <1>2 DEF R!Intrude
<1> HIDE DEF r
<1>4. Knows(r)
  BY <1>1, <1>2 DEF Knows
<1> QED BY <1>2, <1>3, <1>4, MishapCounts, ProcessMoves DEF R!Intrude

\* The environment leaves the processes and what they published alone.
LEMMA EnvironmentKeeps ==
  ASSUME EvidenceInv,
         \/ \E f \in r_frozen : R!Verify(f) \/ \E r \in Results : R!Evaluate(f, r)
         \/ R!UpdateTool \/ R!ReplaceBundle \/ R!ReplaceVerification
         \/ \E p \in Paths : R!Edit(p)
  PROVE  EvidenceInv'
<1>1. /\ r_checkout \in [file : [Paths -> 0..1], snapshot : 0..MaxMishaps] /\ r_tool \in 0..1
      /\ r_bundle \in Bundles /\ r_verification \in Verifications /\ r_frozen \subseteq Publications
      /\ r_bundle.of \in r_frozen \cup {R!NoPublication} /\ r_verification.of \in r_frozen \cup {R!NoPublication}
      /\ r_checkout.snapshot <= r_mishaps
  BY FrozenAreTyped DEF EvidenceInv, EvidenceTyped, R!TypeOK
<1>2. ASSUME NEW f \in r_frozen, R!Verify(f)
      PROVE  EvidenceInv'
  <2>1. r_verification' \in Verifications /\ r_verification'.of = f
    BY <1>1, <1>2 DEF R!Verify, Verifications
  <2> QED BY <1>1, <1>2, <2>1, MishapsAreCounted, InputsMove DEF R!Verify
<1>3. ASSUME NEW f \in r_frozen, NEW r \in Results, R!Evaluate(f, r)
      PROVE  EvidenceInv'
  <2>1. r_bundle' \in Bundles /\ r_bundle'.of = f
    BY <1>1, <1>3, EvidenceAssumption DEF R!Evaluate, Bundles
  <2> QED BY <1>1, <1>3, <2>1, MishapsAreCounted, InputsMove DEF R!Evaluate
<1>4. CASE R!UpdateTool
  <2>1. r_tool' \in 0..1 /\ r_checkout.snapshot <= r_mishaps'
    BY <1>4, MishapCounts DEF R!UpdateTool
  <2> QED BY <1>1, <1>4, <2>1, MishapCounts, InputsMove DEF R!UpdateTool
<1>5. CASE R!ReplaceBundle
  <2>1. PICK b \in {R!NoBundle} \cup {[r_bundle EXCEPT !.result = r] : r \in Results} : r_bundle' = b
    BY <1>5 DEF R!ReplaceBundle
  <2>2. b \in Bundles /\ b.of \in r_frozen \cup {R!NoPublication}
    <3>1. CASE b = R!NoBundle
      BY <3>1, NothingIsTyped DEF R!NoBundle
    <3>2. ASSUME NEW r \in Results, b = [r_bundle EXCEPT !.result = r]
          PROVE  b \in Bundles /\ b.of = r_bundle.of
      BY <1>1, <3>2, EvidenceAssumption DEF Bundles
    <3> QED BY <1>1, <3>1, <3>2
  <2>3. r_checkout.snapshot <= r_mishaps'
    BY <1>5, MishapCounts DEF R!ReplaceBundle
  <2> QED BY <1>1, <1>5, <2>1, <2>2, <2>3, MishapCounts, InputsMove DEF R!ReplaceBundle
<1>6. CASE R!ReplaceVerification
  <2>1. /\ r_verification' \in Verifications /\ r_verification'.of = R!NoPublication
        /\ r_checkout.snapshot <= r_mishaps'
    <3>1. r_verification' = R!NoVerification
      BY <1>6 DEF R!ReplaceVerification
    <3> QED BY <1>6, <3>1, NothingIsTyped, MishapCounts DEF R!ReplaceVerification,
           R!NoVerification
  <2> QED BY <1>1, <1>6, <2>1, MishapCounts, InputsMove DEF R!ReplaceVerification
<1>7. ASSUME NEW p \in Paths, R!Edit(p)
      PROVE  EvidenceInv'
  <2> DEFINE n == [file |-> [r_checkout.file EXCEPT ![p] = 1 - @], snapshot |-> r_checkout.snapshot + 1]
  <2>1. [r_checkout.file EXCEPT ![p] = 1 - @] \in [Paths -> 0..1]
    <3>1. r_checkout.file \in [Paths -> 0..1] /\ r_checkout.file[p] \in 0..1
      BY <1>1
    <3>2. 1 - r_checkout.file[p] \in 0..1
      BY <3>1
    <3> QED BY <3>1, <3>2
  <2>2. /\ r_checkout.snapshot + 1 \in 0..MaxMishaps /\ r_checkout.snapshot + 1 <= r_mishaps'
        /\ r_mishaps' \in 0..MaxMishaps
    <3>1. /\ r_checkout.snapshot \in 0..MaxMishaps /\ r_checkout.snapshot <= r_mishaps
          /\ r_mishaps \in 0..MaxMishaps /\ r_mishaps' = r_mishaps + 1 /\ r_mishaps' \in 0..MaxMishaps
      BY <1>1, <1>7, MishapCounts DEF R!Edit, EvidenceInv, EvidenceTyped, R!TypeOK
    <3> QED BY <3>1, EvidenceAssumption
  <2>3. n \in [file : [Paths -> 0..1], snapshot : 0..MaxMishaps] /\ n.snapshot = r_checkout.snapshot + 1
    BY <2>1, <2>2
  <2>4. r_checkout' = n
    BY <1>7 DEF R!Edit
  <2> HIDE DEF n
  <2> QED BY <1>1, <1>7, <2>2, <2>3, <2>4, InputsMove DEF R!Edit
<1> QED BY <1>2, <1>3, <1>4, <1>5, <1>6, <1>7

-----------------------------------------------------------------------------
(* The specification.                                                      *)

\* The invariant holds at first.
LEMMA EvidenceInvInitially ==
  R!Init => EvidenceInv
<1> SUFFICES ASSUME R!Init PROVE EvidenceInv
  OBVIOUS
<1>1. /\ R!NoPublication.tool = 0 /\ R!NoDecision.outcome = "none" /\ R!NoBundle.of = R!NoPublication
      /\ R!NoTriplet.bundle = R!NoBundle /\ R!NoTriplet.digest = R!NoBundle /\ R!NoTriplet.of = R!NoPublication
      /\ R!NoVerification.of = R!NoPublication
  BY DEF R!NoPublication, R!NoDecision, R!NoBundle, R!NoTriplet, R!NoVerification
<1>2. /\ r_checkout \in [file : [Paths -> 0..1], snapshot : Nat] /\ r_checkout.snapshot = 0
      /\ 0 \in 0..MaxMishaps /\ r_mishaps = 0
  BY EvidenceAssumption DEF R!Init, R!Committed
<1>3. R!TypeOK
  <2>1. /\ r_checkout.file \in [Paths -> 0..1] /\ r_checkout.snapshot \in 0..MaxMishaps /\ r_tool \in 0..1
    BY <1>2 DEF R!Init
  <2>2. /\ r_frozen = {} /\ r_bundle = R!NoBundle /\ r_accepted = R!NoTriplet /\ r_verification = R!NoVerification
        /\ r_json = R!NoDecision /\ r_md = R!NoDecision
    BY DEF R!Init
  <2>3. r_marks \subseteq {"shared", "left"}
    BY DEF R!Init
  <2> QED BY <1>1, <1>2, <2>1, <2>2, <2>3 DEF R!TypeOK
<1>4. EvidenceTyped
  BY <1>2, <1>3, NothingIsTyped DEF R!Init, EvidenceTyped
<1>5. ProcessesKnow
  <2>1. \A w \in R!Workers : r_work[w] = R!Idle
    BY DEF R!Init
  <2> QED BY <2>1, IdleKnows DEF ProcessesKnow
<1>6. DecisionsAreMade /\ R!FrozenIsTheCommit /\ R!AcceptedIsValidated /\ R!PairIsOne
  BY <1>1 DEF R!Init, DecisionsAreMade, R!FrozenIsTheCommit, R!AcceptedIsValidated, R!PairIsOne
<1>7. R!ReadyIsEarned
  BY <1>1 DEF R!Init, R!ReadyIsEarned
<1> QED BY <1>4, <1>5, <1>6, <1>7 DEF EvidenceInv

\* Every step keeps it.
LEMMA EvidenceInvIsKept ==
  EvidenceInv /\ [R!Next]_R!vars => EvidenceInv'
<1> SUFFICES ASSUME EvidenceInv, [R!Next]_R!vars PROVE EvidenceInv'
  OBVIOUS
<1>1. ASSUME NEW w \in R!Workers, R!Step(w)
      PROVE  EvidenceInv'
  <2>1. CASE R!ClaimIsLost(w)
    BY <2>1, MishapsAreCounted, StopKeeps DEF R!ClaimIsLost
  <2>2. CASE R!SummaryTaken(w)
    BY <2>2, MishapsAreCounted, WithdrawKeeps DEF R!SummaryTaken
  <2> QED BY <1>1, <2>1, <2>2, FreezeBeginsKeeps, FreezeRechecksKeeps, FreezeClaimsKeeps,
             FreezeWritesKeeps, FreezePublishesKeeps, FingerprintKeeps, ImportReadsKeeps,
             ImportRereadsKeeps, ImportPublishesKeeps, DecideReadsKeeps, DecisionPublishesKeeps,
             SummaryPublishesKeeps DEF R!Step
<1>2. ASSUME NEW w \in R!Workers, R!Kill(w) \/ R!Intrude(w) \/ R!SummaryFails(w)
      PROVE  EvidenceInv'
  <2>1. CASE R!Kill(w)
    <3>1. r_marks' \in {r_marks, r_marks \cup {"left"}}
      BY <2>1 DEF R!Kill
    <3> QED BY <2>1, <3>1, MishapCounts, StopKeeps DEF R!Kill
  <2>2. CASE R!SummaryFails(w)
    BY <2>2, MishapCounts, WithdrawKeeps DEF R!SummaryFails
  <2> QED BY <1>2, <2>1, <2>2, IntrudeKeeps
<1>3. CASE UNCHANGED R!vars
  <2>1. UNCHANGED <<R!published, R!inputs, r_work, r_marks, r_mishaps>>
    BY <1>3 DEF R!vars
  <2>2. UNCHANGED <<r_frozen, r_accepted, r_json, r_md, r_checkout, r_tool, r_bundle,
                    r_verification>>
    BY <2>1 DEF R!published, R!inputs
  <2>3. EvidenceTyped'
    BY <2>1, <2>2 DEF EvidenceInv, EvidenceTyped, R!TypeOK
  <2>4. ProcessesKnow'
    BY <2>1, <2>2 DEF EvidenceInv, ProcessesKnow, Knows, R!Clean
  <2>5. /\ DecisionsAreMade' /\ R!FrozenIsTheCommit' /\ R!AcceptedIsValidated' /\ R!PairIsOne'
        /\ R!ReadyIsEarned'
    BY <2>1, <2>2 DEF EvidenceInv, DecisionsAreMade, R!FrozenIsTheCommit, R!AcceptedIsValidated,
                      R!PairIsOne, R!ReadyIsEarned
  <2> QED BY <2>3, <2>4, <2>5 DEF EvidenceInv
<1> QED BY <1>1, <1>2, <1>3, EnvironmentKeeps DEF R!Next, R!Environment

\* A decision.json whose summary is missing has a process that is about to publish it.
LEMMA NoneIsLeftAloneIsKept ==
  ASSUME EvidenceTyped, R!NoneIsLeftAlone, [R!Next]_R!vars
  PROVE  R!NoneIsLeftAlone'
<1> USE DEF R!NoneIsLeftAlone
<1>a. r_work \in [R!Workers -> Processes]
  BY DEF EvidenceTyped
<1>b. ASSUME NEW w \in R!Workers, r_work[w].pc # "md", NEW r, r_work' = [r_work EXCEPT ![w] = r],
             UNCHANGED <<r_json, r_md, r_marks>>
      PROVE  R!NoneIsLeftAlone'
  <2> SUFFICES ASSUME r_json # R!NoDecision, r_md = R!NoDecision, "left" \notin r_marks
               PROVE  \E v \in R!Workers : r_work'[v].pc = "md" /\ r_work'[v].decision = r_json
    BY <1>b
  <2>1. PICK v \in R!Workers : r_work[v].pc = "md" /\ r_work[v].decision = r_json
    OBVIOUS
  <2>2. r_work'[v] = r_work[v]
    BY <1>a, <1>b, <2>1
  <2> QED BY <2>1, <2>2
<1>c. ASSUME UNCHANGED <<r_json, r_md, r_marks, r_work>>
      PROVE  R!NoneIsLeftAlone'
  BY <1>c
<1>1. ASSUME NEW w \in R!Workers, R!FreezeBegins(w) \/ R!FreezeRechecks(w) \/ R!FreezeClaims(w)
                                  \/ R!FreezeWrites(w) \/ R!ClaimIsLost(w) \/ R!ImportRereads(w)
                                  \/ R!FreezePublishes(w) \/ R!ImportPublishes(w)
      PROVE  R!NoneIsLeftAlone'
  <2>1. /\ r_work[w].pc # "md" /\ UNCHANGED <<r_json, r_md, r_marks>>
        /\ \E r : r_work' = [r_work EXCEPT ![w] = r]
    BY <1>1 DEF R!FreezeBegins, R!FreezeRechecks, R!FreezeClaims, R!FreezeWrites, R!ClaimIsLost,
         R!ImportRereads, R!FreezePublishes, R!ImportPublishes, R!Stop, R!Goto, R!published
  <2> QED BY <1>b, <2>1
<1>2. ASSUME NEW w \in R!Workers, \/ \E p \in Paths : R!Fingerprint(w, p)
                                  \/ \E f \in r_frozen : R!ImportReads(w, f) \/ R!DecideReads(w, f)
      PROVE  R!NoneIsLeftAlone'
  <2>1. /\ r_work[w].pc # "md" /\ UNCHANGED <<r_json, r_md, r_marks>>
        /\ \E r : r_work' = [r_work EXCEPT ![w] = r]
    BY <1>2 DEF R!Fingerprint, R!ImportReads, R!DecideReads, R!published
  <2> QED BY <1>b, <2>1
<1>3. ASSUME NEW w \in R!Workers, R!DecisionPublishes(w)
      PROVE  R!NoneIsLeftAlone'
  <2>1. CASE r_json \in {R!NoDecision, r_work[w].decision}
    <3>1. r_json' = r_work[w].decision /\ R!Goto(w, "md")
      BY <1>3, <2>1 DEF R!DecisionPublishes
    <3>2. r_work'[w].pc = "md" /\ r_work'[w].decision = r_work[w].decision
      BY <1>a, <3>1 DEF R!Goto, Processes
    <3> QED BY <3>1, <3>2
  <2>2. CASE r_json \notin {R!NoDecision, r_work[w].decision}
    <3>1. /\ r_work[w].pc # "md" /\ UNCHANGED <<r_json, r_md, r_marks>>
          /\ r_work' = [r_work EXCEPT ![w] = R!Idle]
      BY <1>3, <2>2 DEF R!DecisionPublishes, R!Stop
    <3> QED BY <1>b, <3>1
  <2> QED BY <2>1, <2>2
<1>4. ASSUME NEW w \in R!Workers, R!SummaryPublishes(w)
      PROVE  R!NoneIsLeftAlone'
  <2>1. /\ r_md' = r_work[w].decision /\ UNCHANGED <<r_json, r_marks>> /\ r_work[w].pc = "md"
        /\ r_work' = [r_work EXCEPT ![w] = R!Idle]
    BY <1>4 DEF R!SummaryPublishes, R!Stop
  <2>2. ASSUME r_md' = R!NoDecision, r_json # R!NoDecision, "left" \notin r_marks
        PROVE  \E v \in R!Workers : r_work'[v].pc = "md" /\ r_work'[v].decision = r_json
    <3>1. r_md = R!NoDecision
      BY <1>4, <2>1, <2>2 DEF R!SummaryPublishes
    <3>2. PICK v \in R!Workers : r_work[v].pc = "md" /\ r_work[v].decision = r_json
      BY <2>2, <3>1
    <3>3. r_work'[v] = r_work[v]
      BY <1>a, <2>1, <2>2, <3>2
    <3> QED BY <3>2, <3>3
  <2> QED BY <2>1, <2>2
<1>5. ASSUME NEW w \in R!Workers, R!SummaryTaken(w) \/ R!SummaryFails(w)
      PROVE  R!NoneIsLeftAlone'
  <2>1. /\ r_json' = IF R!OwnJson(w) THEN R!NoDecision ELSE r_json
        /\ r_md' = r_md /\ ("left" \in r_marks' <=> "left" \in r_marks)
        /\ r_work' = [r_work EXCEPT ![w] = R!Idle]
    BY <1>5 DEF R!SummaryTaken, R!SummaryFails, R!Withdraw, R!Stop
  <2>2. ASSUME r_json' # R!NoDecision, r_md' = R!NoDecision, "left" \notin r_marks'
        PROVE  \E v \in R!Workers : r_work'[v].pc = "md" /\ r_work'[v].decision = r_json'
    <3>1. r_json' = r_json /\ r_json # r_work[w].decision
      BY <2>1, <2>2 DEF R!OwnJson
    <3>2. PICK v \in R!Workers : r_work[v].pc = "md" /\ r_work[v].decision = r_json
      BY <2>1, <2>2, <3>1
    <3>3. r_work'[v] = r_work[v]
      BY <1>a, <2>1, <3>1, <3>2
    <3> QED BY <3>1, <3>2, <3>3
  <2> QED BY <2>2
<1>6. ASSUME NEW w \in R!Workers, R!Kill(w)
      PROVE  R!NoneIsLeftAlone'
  <2>1. CASE r_work[w].pc = "md"
    BY <1>6, <2>1 DEF R!Kill
  <2>2. CASE r_work[w].pc # "md"
    BY <1>6, <1>b, <2>2 DEF R!Kill, R!Stop, R!published
  <2> QED BY <2>1, <2>2
<1>7. ASSUME NEW w \in R!Workers, R!Intrude(w)
      PROVE  R!NoneIsLeftAlone'
  BY <1>7, <1>b DEF R!Intrude, R!published
<1>8. CASE R!Environment /\ ~\E w \in R!Workers : R!Kill(w) \/ R!Intrude(w) \/ R!SummaryFails(w)
  BY <1>8, <1>c DEF R!Environment, R!Verify, R!Evaluate, R!Edit, R!UpdateTool, R!ReplaceBundle,
       R!ReplaceVerification, R!published
<1>9. CASE UNCHANGED R!vars
  BY <1>9, <1>c DEF R!vars, R!published
<1> QED BY <1>1, <1>2, <1>3, <1>4, <1>5, <1>6, <1>7, <1>8, <1>9 DEF R!Next, R!Step, R!Environment

\* A decision is earned, all the way from the freeze, and its two files belong together.
THEOREM EvidenceHolds ==
  R!Spec => [](/\ R!TypeOK /\ R!FrozenIsTheCommit /\ R!AcceptedIsValidated
               /\ R!PairIsOne /\ R!NoneIsLeftAlone /\ R!ReadyIsEarned)
<1>1. EvidenceInv => /\ R!TypeOK /\ R!FrozenIsTheCommit /\ R!AcceptedIsValidated
                     /\ R!PairIsOne /\ R!ReadyIsEarned /\ EvidenceTyped
  BY DEF EvidenceInv, EvidenceTyped
<1>2. R!Init => R!NoneIsLeftAlone
  BY DEF R!Init, R!NoneIsLeftAlone
<1>3. EvidenceTyped /\ R!NoneIsLeftAlone /\ [R!Next]_R!vars => R!NoneIsLeftAlone'
  BY NoneIsLeftAloneIsKept
<1> QED BY <1>1, <1>2, <1>3, EvidenceInvInitially, EvidenceInvIsKept, PTL DEF R!Spec

\* publish_immutable and the moves of the stages: what is published stays, but for a
\* decision.json that a process with this very decision takes back: when its summary is
\* published, only because the write of it failed.
NothingReplaced ==
  /\ r_frozen \subseteq r_frozen'
  /\ r_accepted # R!NoTriplet => r_accepted' = r_accepted
  /\ r_md # R!NoDecision => r_md' = r_md
  /\ r_json \notin {R!NoDecision, r_json'} =>
       \E w \in R!Workers :
         /\ r_work[w].pc = "md" /\ r_work[w].decision = r_json /\ r_work'[w] = R!Idle
         /\ r_json' = R!NoDecision /\ (r_md = r_json => r_mishaps' = r_mishaps + 1)

\* What a process does with the publications, and what else happens to them.
LEMMA NothingIsReplacedByAStep ==
  ASSUME EvidenceTyped, [R!Next]_R!vars
  PROVE  NothingReplaced
<1>a. r_work \in [R!Workers -> Processes]
  BY DEF EvidenceTyped
<1>b. UNCHANGED <<r_frozen, r_accepted, r_json, r_md>> => NothingReplaced
  BY DEF NothingReplaced
<1>1. ASSUME NEW w \in R!Workers,
             \/ R!FreezeBegins(w) \/ R!FreezeRechecks(w) \/ R!FreezeClaims(w) \/ R!FreezeWrites(w)
             \/ R!ClaimIsLost(w) \/ R!ImportRereads(w) \/ \E p \in Paths : R!Fingerprint(w, p)
             \/ \E f \in r_frozen : R!ImportReads(w, f) \/ R!DecideReads(w, f)
      PROVE  NothingReplaced
  BY <1>1, <1>b DEF R!FreezeBegins, R!FreezeRechecks, R!FreezeClaims, R!FreezeWrites,
       R!ClaimIsLost,
       R!ImportRereads, R!Fingerprint, R!ImportReads, R!DecideReads, R!published
<1>2. ASSUME NEW w \in R!Workers, R!FreezePublishes(w)
      PROVE  NothingReplaced
  BY <1>2 DEF R!FreezePublishes, NothingReplaced
<1>3. ASSUME NEW w \in R!Workers, R!ImportPublishes(w)
      PROVE  NothingReplaced
  BY <1>3 DEF R!ImportPublishes, NothingReplaced
<1>4. ASSUME NEW w \in R!Workers, R!DecisionPublishes(w)
      PROVE  NothingReplaced
  BY <1>4 DEF R!DecisionPublishes, NothingReplaced
<1>5. ASSUME NEW w \in R!Workers, R!SummaryPublishes(w)
      PROVE  NothingReplaced
  BY <1>5 DEF R!SummaryPublishes, NothingReplaced
<1>6. ASSUME NEW w \in R!Workers, r_work[w].pc = "md", R!Withdraw(w),
             r_md = r_work[w].decision => r_mishaps' = r_mishaps + 1
      PROVE  NothingReplaced
  <2>1. r_work'[w] = R!Idle
    BY <1>a, <1>6 DEF R!Withdraw, R!Stop
  <2>2. r_json # r_json' => r_work[w].decision = r_json /\ r_json' = R!NoDecision
    BY <1>6 DEF R!Withdraw, R!OwnJson
  <2> QED BY <1>6, <2>1, <2>2 DEF R!Withdraw, NothingReplaced
<1>7. ASSUME NEW w \in R!Workers, R!SummaryTaken(w) \/ R!SummaryFails(w)
      PROVE  NothingReplaced
  BY <1>6, <1>7 DEF R!SummaryTaken, R!SummaryFails, R!Mishap
<1>8. ASSUME NEW w \in R!Workers, R!Kill(w) \/ R!Intrude(w)
      PROVE  NothingReplaced
  BY <1>8, <1>b DEF R!Kill, R!Intrude, R!published
<1>9. CASE R!Environment /\ ~\E w \in R!Workers : R!Kill(w) \/ R!Intrude(w) \/ R!SummaryFails(w)
  BY <1>9, <1>b DEF R!Environment, R!Verify, R!Evaluate, R!Edit, R!UpdateTool, R!ReplaceBundle,
       R!ReplaceVerification, R!published
<1>10. CASE UNCHANGED R!vars
  BY <1>10, <1>b DEF R!vars, R!published
<1> QED BY <1>1, <1>2, <1>3, <1>4, <1>5, <1>7, <1>8, <1>9, <1>10 DEF R!Next, R!Step, R!Environment

\* Of a release nothing that is published is changed or goes but a decision.json, which goes by
\* a process that has made this very decision and could not publish its summary.
THEOREM EvidenceIsNotReplaced == R!Spec => R!NothingIsReplaced
<1>1. EvidenceInv => EvidenceTyped
  BY DEF EvidenceInv
<1>2. EvidenceTyped /\ [R!Next]_R!vars => NothingReplaced
  BY NothingIsReplacedByAStep
<1> QED
  BY <1>1, <1>2, EvidenceInvInitially, EvidenceInvIsKept, PTL
     DEF R!Spec, R!NothingIsReplaced, NothingReplaced

-----------------------------------------------------------------------------
(* The runtime of a verification (CandidateRuntime).                       *)

\* What a maker, a verification and its manifest are.
Makers == [pc : {"start", "marker", "copy", "activate", "check", "undo", "remove", "done",
                 "failed", "killed"},
           snapshot : C!NoSnapshot..MaxMishaps, made : SUBSET Files]
Manifests == [status : {C!None, "passed", "failed"}, before : C!NoSnapshot..MaxMishaps,
              after : C!NoSnapshot..MaxMishaps, read : BOOLEAN, commands : Nat,
              cleanup : {C!None, "completed", "failed"}]
UserStates == [pc : {"idle", "inputs", "read", "boundary", "copy", "commands", "close", "again",
                     "after", "readAfter", "cleanup", "remove", "write", "truncate", "publish",
                     "done", "killed"},
               ok : BOOLEAN, before : C!NoSnapshot..MaxMishaps, after : C!NoSnapshot..MaxMishaps,
               tool : 0..1, read : BOOLEAN, group : 1..2, copy : {C!None, "frozen", "dirty"},
               commands : Nat, cleanup : {"completed", "failed"}, dirt : BOOLEAN,
               retained : BOOLEAN, manifest : Manifests]

\* The state has its types.
RuntimeTyped ==
  /\ C!TypeOK
  /\ c_candidate.snapshot <= c_mishaps
  /\ c_maker \in Makers /\ c_user \in [C!Users -> UserStates]

\* Where the maker is, and what it holds and has published there.
MakerHolds ==
  /\ c_maker.pc = "start" =>
       /\ c_runtime = C!Absent /\ c_marker = C!None /\ c_record = C!NoSnapshot /\ c_receipt = C!None
       /\ c_lock = C!None /\ c_maker.made = {}
  /\ c_maker.pc = "marker" =>
       /\ c_record = C!NoSnapshot /\ c_receipt = C!None /\ c_maker.made = {}
       /\ \/ c_marker = C!None /\ c_lock = C!None
          \/ c_marker = "empty" /\ c_lock = "maker"
  /\ c_maker.pc = "copy" => c_record = C!NoSnapshot /\ c_marker = "building"
  /\ c_maker.pc = "activate" => c_record # C!NoSnapshot /\ c_marker = "building" /\ c_maker.made = Files
  /\ c_maker.pc = "check" => c_record # C!NoSnapshot /\ c_marker = "active" /\ c_maker.made = Files
  /\ c_maker.pc = "undo" =>
       \/ c_record = C!NoSnapshot /\ c_marker = "building"
       \/ c_record # C!NoSnapshot /\ c_marker = "active" /\ c_maker.made = Files
  /\ c_maker.pc = "remove" =>
       \/ c_record = C!NoSnapshot /\ c_marker = "building"
       \/ c_record # C!NoSnapshot /\ c_marker = "cleaning"
  /\ c_maker.pc \in {"copy", "activate", "check", "undo", "remove"} => c_lock = "maker"
  /\ c_lock = "maker" => c_maker.pc \in {"marker", "copy", "activate", "check", "undo", "remove"}
  /\ c_maker.pc = "done" => c_marker \in {"active", "cleaning", "torn", "cleaned"}
  /\ c_maker.pc = "failed" => ~c_runtime.root \/ c_runtime.disturbed
  /\ c_marker \in {"active", "cleaning", "torn", "cleaned"} => c_record # C!NoSnapshot

\* What a runtime holds that nobody disturbed.
UndisturbedIsOwn ==
  ~c_runtime.disturbed =>
    /\ ~c_runtime.extra
    /\ \A f \in Files : c_runtime.file[f] \in {"own", C!None}
    /\ c_marker = "active" => \A f \in Files : c_runtime.file[f] = "own"
    /\ c_maker.pc \in {"marker", "copy", "activate", "check", "undo"} =>
         \A f \in Files : c_runtime.file[f] = IF f \in c_maker.made THEN "own" ELSE C!None

\* A cleanup that is told as completed left nothing.
ToldIsGone == c_receipt = "completed" \/ c_marker \in {"cleaned", "torn"} => ~c_runtime.root

\* What a user r called u may hold when the lock is the holder's.
Holding == {"remove", "write", "truncate"}
UserFits(u, r, holder) ==
  /\ r.pc \in Holding => holder = u
  /\ holder = u => r.pc \in C!Readings \cup Holding
  /\ r.pc \in {"remove", "write"} => c_marker = "cleaning"
  /\ r.pc = "truncate" => c_marker = "torn"
  /\ r.pc \in {"write", "truncate"} => ~c_runtime.root
  /\ r.pc = "publish" /\ r.cleanup = "completed" => ~c_runtime.root
  /\ c_record = C!NoSnapshot => r.pc = "idle"
UserHolds(u, r) == UserFits(u, r, c_lock)

\* As long as its verdict is favourable, a verification has found everything in order.
InOrder(r) ==
  /\ r.ok => r.cleanup = "completed"
  /\ r.retained => r.cleanup = "failed"
  /\ r.pc \in {"idle", "inputs", "read"} => r.ok /\ r.group = 1 /\ r.commands = 0 /\ ~r.dirt
  /\ r.pc \in {"boundary", "copy", "commands"} =>
       r.ok /\ r.commands = r.group - 1 /\ r.tool = 0 /\ ~r.dirt
  /\ r.pc = "close" => (r.ok => r.commands = r.group) /\ r.tool = 0 /\ ~r.dirt
  /\ r.pc = "again" => r.ok /\ r.commands = r.group /\ r.tool = 0 /\ ~r.dirt
  /\ r.pc \in {"after", "readAfter", "cleanup", "remove", "write", "truncate", "publish"} /\ r.ok =>
       r.commands = 2 /\ r.tool = 0 /\ ~r.dirt
  /\ r.pc \in {"cleanup", "remove", "write", "truncate", "publish"} /\ r.ok => r.read
  /\ r.pc # "done" => r.manifest = C!NoManifest

\* What is published is what was found.
ManifestHolds(r) ==
  /\ r.manifest.cleanup = "completed" => ~c_runtime.root /\ ~r.retained
  /\ r.manifest.status = "passed" =>
       /\ r.manifest.before = c_record /\ r.manifest.after = c_record /\ r.manifest.read
       /\ r.manifest.commands = 2 /\ r.manifest.cleanup = "completed"
       /\ ~r.dirt /\ r.tool = 0

UsersHold ==
  \A u \in C!Users : /\ UserHolds(u, c_user[u])
                     /\ u \in Verifiers => InOrder(c_user[u]) /\ ManifestHolds(c_user[u])

RuntimeInv ==
  RuntimeTyped /\ MakerHolds /\ UndisturbedIsOwn /\ ToldIsGone /\ UsersHold

-----------------------------------------------------------------------------
(* Lemmas.                                                                 *)

\* What the types say, in the form the steps need it.
LEMMA RuntimeFacts ==
  ASSUME RuntimeInv
  PROVE  /\ c_candidate \in [frozen : BOOLEAN, snapshot : 0..MaxMishaps] /\ c_tool \in 0..1
         /\ c_candidate.snapshot <= c_mishaps /\ c_mishaps \in 0..MaxMishaps
         /\ c_runtime \in [root : BOOLEAN, file : [Files -> C!FileStates], extra : BOOLEAN,
                         disturbed : BOOLEAN]
         /\ c_record \in C!NoSnapshot..MaxMishaps /\ c_maker \in Makers /\ c_user \in [C!Users -> UserStates]
         /\ c_mishaps >= c_mishaps /\ C!NoSnapshot = 0 - 1
  <1>1. c_mishaps \in 0..MaxMishaps
    BY DEF RuntimeInv, RuntimeTyped, C!TypeOK
  <1>2. c_mishaps >= c_mishaps
    BY <1>1, EvidenceAssumption, UsersAssumption
  <1> QED BY <1>1, <1>2 DEF RuntimeInv, RuntimeTyped, C!TypeOK, C!NoSnapshot

\* The invariant of one user.
LEMMA OfAUser ==
  ASSUME RuntimeInv, NEW u \in C!Users
  PROVE  /\ c_user[u] \in UserStates /\ UserHolds(u, c_user[u])
         /\ u \in Verifiers => InOrder(c_user[u]) /\ ManifestHolds(c_user[u])
         /\ u # C!None /\ u # "maker"
  BY EvidenceAssumption, UsersAssumption DEF RuntimeInv, RuntimeTyped, UsersHold

\* The types are kept when what changed has its type.
LEMMA TypesKept ==
  ASSUME RuntimeInv,
         c_candidate' \in [frozen : BOOLEAN, snapshot : 0..MaxMishaps], c_tool' \in 0..1,
         c_runtime' \in [root : BOOLEAN, file : [Files -> C!FileStates], extra : BOOLEAN,
                       disturbed : BOOLEAN],
         c_marker' \in {C!None, "empty", "building", "active", "cleaning", "torn", "cleaned"},
         c_record' \in C!NoSnapshot..MaxMishaps,
         c_receipt' \in {C!None, "completed", "failed"},
         c_lock' \in {C!None, "maker"} \cup C!Users,
         c_maker' \in Makers, c_user' \in [C!Users -> UserStates],
         c_mishaps' \in 0..MaxMishaps, c_candidate'.snapshot <= c_mishaps'
  PROVE  RuntimeTyped'
<1>1. c_maker'.made \in SUBSET Files
  BY DEF Makers
<1>2. \A u \in C!Users : c_user'[u].group \in 1..2 /\ c_user'[u].cleanup \in {"completed", "failed"}
  BY DEF UserStates
<1> QED BY <1>1, <1>2 DEF RuntimeTyped, C!TypeOK

\* Who does not have the lock is not concerned by a step of who has it or takes it.
LEMMA OthersHold ==
  ASSUME RuntimeInv, NEW u \in C!Users, c_lock \in {u, C!None}, c_lock' \in {u, C!None},
         c_record' = c_record, c_runtime'.root => c_runtime.root,
         NEW v \in C!Users, v # u, c_user'[v] = c_user[v]
  PROVE  /\ UserHolds(v, c_user[v])'
         /\ v \in Verifiers => InOrder(c_user[v])' /\ ManifestHolds(c_user[v])'
<1>1. /\ UserHolds(v, c_user[v]) /\ v # C!None
      /\ v \in Verifiers => InOrder(c_user[v]) /\ ManifestHolds(c_user[v])
  BY OfAUser
<1>2. c_user[v].pc \notin Holding
  BY <1>1 DEF UserHolds, UserFits
<1>3. UserHolds(v, c_user[v])'
  BY <1>1, <1>2 DEF UserHolds, UserFits, Holding
<1>4. ASSUME v \in Verifiers
      PROVE  InOrder(c_user[v])' /\ ManifestHolds(c_user[v])'
  <2>1. InOrder(c_user[v])'
    BY <1>1, <1>4 DEF InOrder
  <2>2. ManifestHolds(c_user[v])'
    BY <1>1, <1>4 DEF ManifestHolds
  <2> QED BY <2>1, <2>2
<1> QED BY <1>3, <1>4

\* Nobody is concerned by a step of the maker.
LEMMA MakerConcernsNobody ==
  ASSUME RuntimeInv, c_lock \in {"maker", C!None}, c_lock' \in {"maker", C!None},
  c_user' = c_user,
         c_record' = c_record \/ c_record = C!NoSnapshot,
         c_runtime'.root => c_runtime.root \/ c_record = C!NoSnapshot
  PROVE  UsersHold'
<1> SUFFICES ASSUME NEW v \in C!Users
             PROVE  /\ UserHolds(v, c_user[v])'
                    /\ v \in Verifiers => InOrder(c_user[v])' /\ ManifestHolds(c_user[v])'
  BY DEF UsersHold
<1>1. /\ UserHolds(v, c_user[v]) /\ v # C!None /\ v # "maker"
      /\ v \in Verifiers => InOrder(c_user[v]) /\ ManifestHolds(c_user[v])
  BY OfAUser
<1>2. c_user[v].pc \notin Holding
  BY <1>1 DEF UserHolds, UserFits
<1>3. c_record = C!NoSnapshot => c_user[v].pc = "idle"
  BY <1>1 DEF UserHolds, UserFits
<1>4. UserHolds(v, c_user[v])'
  BY <1>1, <1>2, <1>3 DEF UserHolds, UserFits, Holding
<1>5. ASSUME v \in Verifiers
      PROVE  InOrder(c_user[v])' /\ ManifestHolds(c_user[v])'
  <2>1. InOrder(c_user[v])'
    BY <1>1, <1>5 DEF InOrder
  <2>2. CASE c_record = C!NoSnapshot
    <3>1. c_user[v].manifest = C!NoManifest
      BY <1>1, <1>3, <1>5, <2>2 DEF InOrder
    <3>2. c_user'[v].manifest.status = C!None /\ c_user'[v].manifest.cleanup = C!None
      BY <3>1 DEF C!NoManifest
    <3> QED BY <2>1, <3>2 DEF ManifestHolds, C!None
  <2>3. CASE c_record # C!NoSnapshot
    BY <1>1, <1>5, <2>3 DEF ManifestHolds
  <2> QED BY <2>1, <2>2, <2>3 DEF ManifestHolds
<1> QED BY <1>4, <1>5

\* The invariant is kept when one user moves on, with the lock, and nothing that others
\* read has changed.
LEMMA UserMoves ==
  ASSUME RuntimeInv, NEW u \in C!Users, NEW r \in UserStates, c_record # C!NoSnapshot,
         c_user' = [c_user EXCEPT ![u] = r],
         \/ c_lock' = c_lock
         \/ c_lock = u /\ c_lock' = C!None
         \/ c_lock = C!None /\ c_lock' = u,
         UNCHANGED <<c_candidate, c_tool, c_runtime, c_marker, c_record, c_receipt, c_maker>>,
         c_mishaps' \in 0..MaxMishaps, c_mishaps' >= c_mishaps,
         UserFits(u, r, c_lock'), u \in Verifiers => InOrder(r) /\ ManifestHolds(r)
  PROVE  RuntimeInv'
<1>1. u # C!None /\ u # "maker"
  BY OfAUser
<1>2. RuntimeTyped'
  <2>1. c_user' \in [C!Users -> UserStates]
    BY RuntimeFacts
  <2>2. c_candidate'.snapshot <= c_mishaps'
    BY RuntimeFacts, EvidenceAssumption, UsersAssumption
  <2>3. c_lock' \in {C!None, "maker"} \cup C!Users
    BY DEF RuntimeInv, RuntimeTyped, C!TypeOK
  <2>4. /\ c_marker \in {C!None, "empty", "building", "active", "cleaning", "torn", "cleaned"}
        /\ c_receipt \in {C!None, "completed", "failed"}
    BY DEF RuntimeInv, RuntimeTyped, C!TypeOK
  <2> QED BY <2>1, <2>2, <2>3, <2>4, RuntimeFacts, TypesKept
<1>3. MakerHolds'
  BY <1>1 DEF RuntimeInv, MakerHolds, C!None
<1>4. UndisturbedIsOwn' /\ ToldIsGone'
  BY DEF RuntimeInv, UndisturbedIsOwn, ToldIsGone
<1>5. UsersHold'
  <2> SUFFICES ASSUME NEW v \in C!Users
               PROVE  /\ UserHolds(v, c_user[v])'
                      /\ v \in Verifiers => InOrder(c_user[v])' /\ ManifestHolds(c_user[v])'
    BY DEF UsersHold
  <2>1. c_user'[v] = IF v = u THEN r ELSE c_user[v]
    BY RuntimeFacts
  <2>2. CASE v = u
    <3>1. c_user'[v] = r
      BY <2>1, <2>2
    <3>2. UserHolds(v, c_user[v])'
      BY <2>2, <3>1 DEF UserHolds, UserFits
    <3>3. u \in Verifiers => InOrder(c_user[v])'
      BY <3>1 DEF InOrder
    <3>4. u \in Verifiers => ManifestHolds(c_user[v])'
      BY <3>1 DEF ManifestHolds
    <3> QED BY <2>2, <3>2, <3>3, <3>4
  <2>3. CASE v # u
    <3>1. c_user'[v] = c_user[v] /\ v # C!None /\ v # "maker"
      BY <2>1, <2>3, OfAUser
    <3>2. UserHolds(v, c_user[v]) /\ (v \in Verifiers => InOrder(c_user[v]) /\ ManifestHolds(c_user[v]))
      BY OfAUser
    <3>3. UserHolds(v, c_user[v])'
      BY <1>1, <2>3, <3>1, <3>2 DEF UserHolds, UserFits, Holding
    <3>4. v \in Verifiers => InOrder(c_user[v])' /\ ManifestHolds(c_user[v])'
      BY <3>1, <3>2 DEF InOrder, ManifestHolds
    <3> QED BY <3>3, <3>4
  <2> QED BY <2>2, <2>3
<1> QED BY <1>2, <1>3, <1>4, <1>5 DEF RuntimeInv

\* Who is not idle was started with a record.
LEMMA WhoMovesHasARecord ==
  ASSUME RuntimeInv, NEW u \in C!Users, c_user[u].pc # "idle"
  PROVE  c_record # C!NoSnapshot
  BY OfAUser DEF UserHolds, UserFits

\* A verification that goes on has not published yet.
LEMMA UserGoesOn ==
  ASSUME RuntimeInv, NEW u \in C!Users, NEW r \in UserStates, c_user[u].pc # "idle",
         c_user[u].pc # "done", r.manifest = c_user[u].manifest,
         c_user' = [c_user EXCEPT ![u] = r],
         \/ c_lock' = c_lock
         \/ c_lock = u /\ c_lock' = C!None
         \/ c_lock = C!None /\ c_lock' = u,
         UNCHANGED <<c_candidate, c_tool, c_runtime, c_marker, c_record, c_receipt, c_maker>>,
         c_mishaps' \in 0..MaxMishaps, c_mishaps' >= c_mishaps,
         UserFits(u, r, c_lock'), u \in Verifiers => InOrder(r)
  PROVE  RuntimeInv'
<1>1. c_record # C!NoSnapshot
  BY WhoMovesHasARecord
<1>2. u \in Verifiers => c_user[u].manifest = C!NoManifest
  BY OfAUser DEF InOrder
<1>3. u \in Verifiers => ManifestHolds(r)
  BY <1>2 DEF ManifestHolds, C!NoManifest, C!None
<1> QED BY <1>1, <1>3, UserMoves

\* A refusal goes to the checks at the end.
LEMMA RefusedKeeps ==
  ASSUME RuntimeInv, NEW u \in C!Users, C!Refused(u),
         c_user[u].pc \in {"inputs", "read", "boundary", "again", "copy"},
         c_lock' = c_lock \/ (c_lock = u /\ c_lock' = C!None), c_lock' # u,
         UNCHANGED <<c_candidate, c_tool, c_runtime, c_marker, c_record, c_receipt, c_maker,
                     c_mishaps>>
  PROVE  RuntimeInv'
<1> DEFINE r == [c_user[u] EXCEPT !.pc = "after", !.ok = FALSE]
<1>1. /\ c_user[u] \in UserStates /\ UserHolds(u, c_user[u])
      /\ u \in Verifiers => InOrder(c_user[u])
  BY OfAUser
<1>2. /\ r \in UserStates /\ r.pc = "after" /\ r.ok = FALSE /\ r.manifest = c_user[u].manifest
      /\ r.retained = c_user[u].retained /\ r.cleanup = c_user[u].cleanup
  BY <1>1 DEF UserStates
<1>3. c_user' = [c_user EXCEPT ![u] = r]
  BY DEF C!Refused
<1> HIDE DEF r
<1>4. c_record # C!NoSnapshot
  BY WhoMovesHasARecord
<1>5. UserFits(u, r, c_lock')
  BY <1>2, <1>4 DEF UserHolds, UserFits, Holding
<1>6. u \in Verifiers => InOrder(r)
  BY <1>1, <1>2 DEF InOrder
<1> QED BY <1>2, <1>3, <1>5, <1>6, RuntimeFacts, UserGoesOn

\* The inputs of a verification are the ones of the record, or it is refused.
LEMMA InputsKeeps ==
  ASSUME RuntimeInv, NEW u \in C!Users, C!Inputs(u)
  PROVE  RuntimeInv'
<1>a. /\ c_user[u] \in UserStates /\ UserHolds(u, c_user[u]) /\ u # C!None /\ u # "maker"
      /\ u \in Verifiers => InOrder(c_user[u])
      /\ c_user[u].pc = "inputs" /\ c_record # C!NoSnapshot
      /\ c_lock' = c_lock
      /\ UNCHANGED <<c_candidate, c_tool, c_runtime, c_marker, c_record, c_receipt, c_maker,
                     c_mishaps>>
  BY OfAUser, WhoMovesHasARecord DEF C!Inputs, C!Only, C!Unlocked, C!Readings
<1>1. CASE C!Goto(u, "read")
  <2> DEFINE r == [c_user[u] EXCEPT !.pc = "read"]
  <2>1. /\ r \in UserStates /\ r.pc = "read"
        /\ r.ok = c_user[u].ok /\ r.before = c_user[u].before /\ r.after = c_user[u].after
        /\ r.tool = c_user[u].tool /\ r.read = c_user[u].read /\ r.group = c_user[u].group
        /\ r.copy = c_user[u].copy /\ r.commands = c_user[u].commands /\ r.cleanup = c_user[u].cleanup
        /\ r.dirt = c_user[u].dirt /\ r.retained = c_user[u].retained /\ r.manifest = c_user[u].manifest
    BY <1>1, <1>a, RuntimeFacts DEF UserStates
  <2>2. c_user' = [c_user EXCEPT ![u] = r]
    BY <1>1, <1>a DEF C!Inputs, C!Goto
  <2> HIDE DEF r
  <2>3. UserFits(u, r, c_lock')
    BY <1>1, <1>a, <2>1 DEF UserHolds, UserFits, Holding, C!Readings
  <2>4. u \in Verifiers => InOrder(r)
    BY <1>1, <1>a, <2>1 DEF InOrder
  <2> QED BY <1>1, <1>a, <2>1, <2>2, <2>3, <2>4, RuntimeFacts, UserGoesOn
<1>2. CASE C!Refused(u)
  <2>1. c_lock' # u /\ c_user[u].pc \in {"inputs", "read", "boundary", "again", "copy"}
    BY <1>a DEF UserHolds, UserFits, Holding, C!Readings
  <2> QED BY <1>2, <1>a, <2>1, RefusedKeeps
<1> QED BY <1>a, <1>1, <1>2 DEF C!Inputs, C!Goto

\* A reading that finds the lock taken is refused.
LEMMA ReadBusyKeeps ==
  ASSUME RuntimeInv, NEW u \in C!Users, C!ReadBusy(u)
  PROVE  RuntimeInv'
<1>a. /\ c_user[u] \in UserStates /\ UserHolds(u, c_user[u]) /\ u # C!None /\ u # "maker"
      /\ u \in Verifiers => InOrder(c_user[u])
      /\ c_user[u].pc \in C!Readings \ {"readAfter"} /\ c_record # C!NoSnapshot
      /\ c_lock' = c_lock /\ c_lock # u
      /\ UNCHANGED <<c_candidate, c_tool, c_runtime, c_marker, c_record, c_receipt, c_maker,
                     c_mishaps>>
  BY OfAUser, WhoMovesHasARecord DEF C!ReadBusy, C!Only, C!Unlocked, C!Readings
<1>1. CASE C!Refused(u)
  <2>1. c_lock' # u /\ c_user[u].pc \in {"inputs", "read", "boundary", "again", "copy"}
    BY <1>a DEF UserHolds, UserFits, Holding, C!Readings
  <2> QED BY <1>1, <1>a, <2>1, RefusedKeeps
<1> QED BY <1>a, <1>1 DEF C!ReadBusy, C!Goto

\* The first reading finds the sources of the verifier as they were.
LEMMA ReadFirstKeeps ==
  ASSUME RuntimeInv, NEW u \in C!Users, C!ReadFirst(u)
  PROVE  RuntimeInv'
<1>a. /\ c_user[u] \in UserStates /\ UserHolds(u, c_user[u]) /\ u # C!None /\ u # "maker"
      /\ u \in Verifiers => InOrder(c_user[u])
      /\ c_user[u].pc = "read" /\ c_record # C!NoSnapshot
      /\ c_lock = u /\ c_lock' = C!None
      /\ UNCHANGED <<c_candidate, c_tool, c_runtime, c_marker, c_record, c_receipt, c_maker,
                     c_mishaps>>
  BY OfAUser, WhoMovesHasARecord DEF C!ReadFirst, C!Only, C!Unlocked, C!Readings
<1>1. CASE c_user[u].tool = 0 /\ C!Goto(u, "boundary")
  <2> DEFINE r == [c_user[u] EXCEPT !.pc = "boundary"]
  <2>1. /\ r \in UserStates /\ r.pc = "boundary"
        /\ r.ok = c_user[u].ok /\ r.before = c_user[u].before /\ r.after = c_user[u].after
        /\ r.tool = c_user[u].tool /\ r.read = c_user[u].read /\ r.group = c_user[u].group
        /\ r.copy = c_user[u].copy /\ r.commands = c_user[u].commands /\ r.cleanup = c_user[u].cleanup
        /\ r.dirt = c_user[u].dirt /\ r.retained = c_user[u].retained /\ r.manifest = c_user[u].manifest
    BY <1>1, <1>a, RuntimeFacts DEF UserStates
  <2>2. c_user' = [c_user EXCEPT ![u] = r]
    BY <1>1, <1>a DEF C!ReadFirst, C!Goto
  <2> HIDE DEF r
  <2>3. UserFits(u, r, c_lock')
    BY <1>1, <1>a, <2>1 DEF UserHolds, UserFits, Holding, C!Readings
  <2>4. u \in Verifiers => InOrder(r)
    BY <1>1, <1>a, <2>1 DEF InOrder
  <2> QED BY <1>1, <1>a, <2>1, <2>2, <2>3, <2>4, RuntimeFacts, UserGoesOn
<1>2. CASE C!Refused(u)
  <2>1. c_lock' # u /\ c_user[u].pc \in {"inputs", "read", "boundary", "again", "copy"}
    BY <1>a DEF UserHolds, UserFits, Holding, C!Readings
  <2> QED BY <1>2, <1>a, <2>1, RefusedKeeps
<1> QED BY <1>a, <1>1, <1>2 DEF C!ReadFirst, C!Goto

\* A boundary that holds leads to the next group, or to the checks at the end.
LEMMA BoundaryKeeps ==
  ASSUME RuntimeInv, NEW u \in C!Users, C!Boundary(u)
  PROVE  RuntimeInv'
<1>a. /\ c_user[u] \in UserStates /\ UserHolds(u, c_user[u]) /\ u # C!None /\ u # "maker"
      /\ u \in Verifiers => InOrder(c_user[u])
      /\ c_user[u].pc \in {"boundary", "again"} /\ c_record # C!NoSnapshot
      /\ c_lock = u /\ c_lock' = C!None
      /\ UNCHANGED <<c_candidate, c_tool, c_runtime, c_marker, c_record, c_receipt, c_maker,
                     c_mishaps>>
  BY OfAUser, WhoMovesHasARecord DEF C!Boundary, C!Only, C!Unlocked, C!Readings
<1>1. CASE c_user[u].pc = "boundary" /\ C!Goto(u, "copy")
  <2> DEFINE r == [c_user[u] EXCEPT !.pc = "copy"]
  <2>1. /\ r \in UserStates /\ r.pc = "copy"
        /\ r.ok = c_user[u].ok /\ r.before = c_user[u].before /\ r.after = c_user[u].after
        /\ r.tool = c_user[u].tool /\ r.read = c_user[u].read /\ r.group = c_user[u].group
        /\ r.copy = c_user[u].copy /\ r.commands = c_user[u].commands /\ r.cleanup = c_user[u].cleanup
        /\ r.dirt = c_user[u].dirt /\ r.retained = c_user[u].retained /\ r.manifest = c_user[u].manifest
    BY <1>1, <1>a, RuntimeFacts DEF UserStates
  <2>2. c_user' = [c_user EXCEPT ![u] = r]
    BY <1>1, <1>a DEF C!Boundary, C!Goto
  <2> HIDE DEF r
  <2>3. UserFits(u, r, c_lock')
    BY <1>1, <1>a, <2>1 DEF UserHolds, UserFits, Holding, C!Readings
  <2>4. u \in Verifiers => InOrder(r)
    BY <1>1, <1>a, <2>1 DEF InOrder
  <2> QED BY <1>1, <1>a, <2>1, <2>2, <2>3, <2>4, RuntimeFacts, UserGoesOn
<1>2. CASE /\ c_user[u].pc = "again" /\ c_user[u].group = 2
          /\ c_user' = [c_user EXCEPT ![u].pc = IF c_user[u].group = 2 THEN "after" ELSE "boundary",
                                  ![u].group = 2]
  <2> DEFINE r == [c_user[u] EXCEPT !.pc = "after", !.group = 2]
  <2>a. c_user[u].group \in 1..2
    BY <1>a DEF UserStates
  <2>1. /\ r \in UserStates /\ r.pc = "after"
        /\ r.group = 2 /\ r.ok = c_user[u].ok /\ r.before = c_user[u].before
        /\ r.after = c_user[u].after /\ r.tool = c_user[u].tool /\ r.read = c_user[u].read
        /\ r.copy = c_user[u].copy /\ r.commands = c_user[u].commands /\ r.cleanup = c_user[u].cleanup
        /\ r.dirt = c_user[u].dirt /\ r.retained = c_user[u].retained /\ r.manifest = c_user[u].manifest
    BY <1>2, <2>a, <1>a, RuntimeFacts DEF UserStates
  <2>2. c_user' = [c_user EXCEPT ![u] = r]
    BY <1>2, <2>a, <1>a DEF C!Boundary, C!Goto
  <2> HIDE DEF r
  <2>3. UserFits(u, r, c_lock')
    BY <1>2, <2>a, <1>a, <2>1 DEF UserHolds, UserFits, Holding, C!Readings
  <2>4. u \in Verifiers => InOrder(r)
    BY <1>2, <2>a, <1>a, <2>1 DEF InOrder
  <2> QED BY <1>2, <2>a, <1>a, <2>1, <2>2, <2>3, <2>4, RuntimeFacts, UserGoesOn
<1>3. CASE /\ c_user[u].pc = "again" /\ c_user[u].group # 2
          /\ c_user' = [c_user EXCEPT ![u].pc = IF c_user[u].group = 2 THEN "after" ELSE "boundary",
                                  ![u].group = 2]
  <2> DEFINE r == [c_user[u] EXCEPT !.pc = "boundary", !.group = 2]
  <2>a. c_user[u].group \in 1..2
    BY <1>a DEF UserStates
  <2>1. /\ r \in UserStates /\ r.pc = "boundary"
        /\ r.group = 2 /\ r.ok = c_user[u].ok /\ r.before = c_user[u].before
        /\ r.after = c_user[u].after /\ r.tool = c_user[u].tool /\ r.read = c_user[u].read
        /\ r.copy = c_user[u].copy /\ r.commands = c_user[u].commands /\ r.cleanup = c_user[u].cleanup
        /\ r.dirt = c_user[u].dirt /\ r.retained = c_user[u].retained /\ r.manifest = c_user[u].manifest
    BY <1>3, <2>a, <1>a, RuntimeFacts DEF UserStates
  <2>2. c_user' = [c_user EXCEPT ![u] = r]
    BY <1>3, <2>a, <1>a DEF C!Boundary, C!Goto
  <2> HIDE DEF r
  <2>3. UserFits(u, r, c_lock')
    BY <1>3, <2>a, <1>a, <2>1 DEF UserHolds, UserFits, Holding, C!Readings
  <2>4. u \in Verifiers => InOrder(r)
    BY <1>3, <2>a, <1>a, <2>1 DEF InOrder
  <2> QED BY <1>3, <2>a, <1>a, <2>1, <2>2, <2>3, <2>4, RuntimeFacts, UserGoesOn
<1>4. CASE C!Refused(u)
  <2>1. c_lock' # u /\ c_user[u].pc \in {"inputs", "read", "boundary", "again", "copy"}
    BY <1>a DEF UserHolds, UserFits, Holding, C!Readings
  <2> QED BY <1>4, <1>a, <2>1, RefusedKeeps
<1> QED BY <1>a, <1>1, <1>2, <1>3, <1>4 DEF C!Boundary, C!Goto

\* A group works on a copy of the frozen bytes.
LEMMA CopyGroupKeeps ==
  ASSUME RuntimeInv, NEW u \in C!Users, C!CopyGroup(u)
  PROVE  RuntimeInv'
<1>a. /\ c_user[u] \in UserStates /\ UserHolds(u, c_user[u]) /\ u # C!None /\ u # "maker"
      /\ u \in Verifiers => InOrder(c_user[u])
      /\ c_user[u].pc = "copy" /\ c_record # C!NoSnapshot
      /\ c_lock' = c_lock
      /\ UNCHANGED <<c_candidate, c_tool, c_runtime, c_marker, c_record, c_receipt, c_maker,
                     c_mishaps>>
  BY OfAUser, WhoMovesHasARecord DEF C!CopyGroup, C!Only, C!Unlocked, C!Readings
<1>1. CASE c_user' = [c_user EXCEPT ![u].pc = "commands", ![u].copy = "frozen"]
  <2> DEFINE r == [c_user[u] EXCEPT !.pc = "commands", !.copy = "frozen"]
  <2>1. /\ r \in UserStates /\ r.pc = "commands"
        /\ r.copy = "frozen" /\ r.ok = c_user[u].ok /\ r.before = c_user[u].before
        /\ r.after = c_user[u].after /\ r.tool = c_user[u].tool /\ r.read = c_user[u].read
        /\ r.group = c_user[u].group /\ r.commands = c_user[u].commands /\ r.cleanup = c_user[u].cleanup
        /\ r.dirt = c_user[u].dirt /\ r.retained = c_user[u].retained /\ r.manifest = c_user[u].manifest
    BY <1>1, <1>a, RuntimeFacts DEF UserStates
  <2>2. c_user' = [c_user EXCEPT ![u] = r]
    BY <1>1, <1>a DEF C!CopyGroup, C!LeaveGroup
  <2> HIDE DEF r
  <2>3. UserFits(u, r, c_lock')
    BY <1>1, <1>a, <2>1 DEF UserHolds, UserFits, Holding, C!Readings
  <2>4. u \in Verifiers => InOrder(r)
    BY <1>1, <1>a, <2>1 DEF InOrder
  <2> QED BY <1>1, <1>a, <2>1, <2>2, <2>3, <2>4, RuntimeFacts, UserGoesOn
<1>2. CASE C!LeaveGroup(u)
  <2> DEFINE r == [c_user[u] EXCEPT !.pc = "after", !.ok = FALSE, !.cleanup = "failed", !.retained = TRUE]
  <2>1. /\ r \in UserStates /\ r.pc = "after"
        /\ r.ok = FALSE /\ r.cleanup = "failed" /\ r.retained = TRUE
        /\ r.before = c_user[u].before /\ r.after = c_user[u].after /\ r.tool = c_user[u].tool
        /\ r.read = c_user[u].read /\ r.group = c_user[u].group /\ r.copy = c_user[u].copy
        /\ r.commands = c_user[u].commands /\ r.dirt = c_user[u].dirt /\ r.manifest = c_user[u].manifest
    BY <1>2, <1>a, RuntimeFacts DEF UserStates
  <2>2. c_user' = [c_user EXCEPT ![u] = r]
    BY <1>2, <1>a DEF C!CopyGroup, C!LeaveGroup
  <2> HIDE DEF r
  <2>3. UserFits(u, r, c_lock')
    BY <1>2, <1>a, <2>1 DEF UserHolds, UserFits, Holding, C!Readings
  <2>4. u \in Verifiers => InOrder(r)
    BY <1>2, <1>a, <2>1 DEF InOrder
  <2> QED BY <1>2, <1>a, <2>1, <2>2, <2>3, <2>4, RuntimeFacts, UserGoesOn
<1>3. CASE C!Refused(u)
  <2>1. c_lock' # u /\ c_user[u].pc \in {"inputs", "read", "boundary", "again", "copy"}
    BY <1>a DEF UserHolds, UserFits, Holding, C!Readings
  <2> QED BY <1>3, <1>a, <2>1, RefusedKeeps
<1> QED BY <1>a, <1>1, <1>2, <1>3, Zenon DEF C!CopyGroup, C!LeaveGroup

\* The commands of a group are counted when all of them passed.
LEMMA CommandsKeeps ==
  ASSUME RuntimeInv, NEW u \in C!Users, C!Commands(u)
  PROVE  RuntimeInv'
<1>a. /\ c_user[u] \in UserStates /\ UserHolds(u, c_user[u]) /\ u # C!None /\ u # "maker"
      /\ u \in Verifiers => InOrder(c_user[u])
      /\ c_user[u].pc = "commands" /\ c_record # C!NoSnapshot
      /\ c_lock' = c_lock
      /\ UNCHANGED <<c_candidate, c_tool, c_runtime, c_marker, c_record, c_receipt, c_maker,
                     c_mishaps>>
  BY OfAUser, WhoMovesHasARecord DEF C!Commands, C!Only, C!Unlocked, C!Readings
<1>1. ASSUME NEW passed \in BOOLEAN, NEW dirty \in BOOLEAN,
c_user' = [c_user EXCEPT ![u].pc = "close", ![u].ok = passed,
                            ![u].copy = IF dirty THEN "dirty" ELSE @,
                            ![u].commands = @ + (IF passed THEN 1 ELSE 0)]
      PROVE  RuntimeInv'
  <2> DEFINE r == [c_user[u] EXCEPT !.pc = "close", !.ok = passed,
  !.copy = IF dirty THEN "dirty" ELSE @,
                              !.commands = @ + (IF passed THEN 1 ELSE 0)]
  <2>a. /\ c_user[u].commands + (IF passed THEN 1 ELSE 0) \in Nat /\ c_user[u].commands \in Nat
        /\ c_user[u].group \in 1..2
        /\ (IF dirty THEN "dirty" ELSE c_user[u].copy) \in {C!None, "frozen", "dirty"}
    BY <1>a DEF UserStates
  <2>1. /\ r \in UserStates /\ r.pc = "close"
        /\ r.ok = passed /\ r.copy = (IF dirty THEN "dirty" ELSE c_user[u].copy) /\ r.commands = c_user[u].commands + (IF passed THEN 1 ELSE 0)
        /\ r.before = c_user[u].before /\ r.after = c_user[u].after /\ r.tool = c_user[u].tool
        /\ r.read = c_user[u].read /\ r.group = c_user[u].group /\ r.cleanup = c_user[u].cleanup
        /\ r.dirt = c_user[u].dirt /\ r.retained = c_user[u].retained /\ r.manifest = c_user[u].manifest
    BY <1>1, <2>a, <1>a, RuntimeFacts DEF UserStates
  <2>2. c_user' = [c_user EXCEPT ![u] = r]
    BY <1>1, <2>a, <1>a DEF C!Commands, C!Goto
  <2> HIDE DEF r
  <2>3. UserFits(u, r, c_lock')
    BY <1>1, <2>a, <1>a, <2>1 DEF UserHolds, UserFits, Holding, C!Readings
  <2>4. u \in Verifiers => InOrder(r)
    BY <1>1, <2>a, <1>a, <2>1 DEF InOrder
  <2> QED BY <1>1, <2>a, <1>a, <2>1, <2>2, <2>3, <2>4, RuntimeFacts, UserGoesOn
<1> QED BY <1>a, <1>1 DEF C!Commands, C!Goto

\* What must not be published is refused before the first group.
LEMMA ScanRefusedKeeps ==
  ASSUME RuntimeInv, NEW u \in C!Users, C!ScanRefused(u)
  PROVE  RuntimeInv'
<1>a. /\ c_user[u] \in UserStates /\ UserHolds(u, c_user[u]) /\ u # C!None /\ u # "maker"
      /\ u \in Verifiers => InOrder(c_user[u])
      /\ c_user[u].pc = "boundary" /\ c_record # C!NoSnapshot
      /\ c_lock' = c_lock /\ c_lock # u
      /\ UNCHANGED <<c_candidate, c_tool, c_runtime, c_marker, c_record, c_receipt, c_maker,
                     c_mishaps>>
  BY OfAUser, WhoMovesHasARecord DEF C!ScanRefused, C!Only, C!Unlocked, C!Readings
<1>1. CASE C!Refused(u)
  <2>1. c_lock' # u /\ c_user[u].pc \in {"inputs", "read", "boundary", "again", "copy"}
    BY <1>a DEF UserHolds, UserFits, Holding, C!Readings
  <2> QED BY <1>1, <1>a, <2>1, RefusedKeeps
<1> QED BY <1>a, <1>1 DEF C!ScanRefused, C!Goto

\* A group without its tools runs no command.
LEMMA ToolsRefusedKeeps ==
  ASSUME RuntimeInv, NEW u \in C!Users, C!ToolsRefused(u)
  PROVE  RuntimeInv'
<1>a. /\ c_user[u] \in UserStates /\ UserHolds(u, c_user[u]) /\ u # C!None /\ u # "maker"
      /\ u \in Verifiers => InOrder(c_user[u])
      /\ c_user[u].pc = "commands" /\ c_record # C!NoSnapshot
      /\ c_lock' = c_lock
      /\ UNCHANGED <<c_candidate, c_tool, c_runtime, c_marker, c_record, c_receipt, c_maker,
                     c_mishaps>>
  BY OfAUser, WhoMovesHasARecord DEF C!ToolsRefused, C!Only, C!Unlocked, C!Readings
<1> DEFINE r == [c_user[u] EXCEPT !.pc = "close", !.ok = FALSE]
<1>1. /\ r \in UserStates /\ r.pc = "close"
      /\ r.ok = FALSE /\ r.before = c_user[u].before /\ r.after = c_user[u].after
      /\ r.tool = c_user[u].tool /\ r.read = c_user[u].read /\ r.group = c_user[u].group
      /\ r.copy = c_user[u].copy /\ r.commands = c_user[u].commands /\ r.cleanup = c_user[u].cleanup
      /\ r.dirt = c_user[u].dirt /\ r.retained = c_user[u].retained /\ r.manifest = c_user[u].manifest
  BY <1>a, RuntimeFacts DEF UserStates
<1>2. c_user' = [c_user EXCEPT ![u] = r]
  BY <1>a DEF C!ToolsRefused
<1> HIDE DEF r
<1>3. UserFits(u, r, c_lock')
  BY <1>a, <1>1 DEF UserHolds, UserFits, Holding, C!Readings
<1>4. u \in Verifiers => InOrder(r)
  BY <1>a, <1>1 DEF InOrder
<1> QED BY <1>a, <1>1, <1>2, <1>3, <1>4, RuntimeFacts, UserGoesOn

\* A group is closed in order only with the bytes it was given.
LEMMA CloseGroupKeeps ==
  ASSUME RuntimeInv, NEW u \in C!Users, C!CloseGroup(u)
  PROVE  RuntimeInv'
<1>a. /\ c_user[u] \in UserStates /\ UserHolds(u, c_user[u]) /\ u # C!None /\ u # "maker"
      /\ u \in Verifiers => InOrder(c_user[u])
      /\ c_user[u].pc = "close" /\ c_record # C!NoSnapshot
      /\ c_lock' = c_lock
      /\ UNCHANGED <<c_candidate, c_tool, c_runtime, c_marker, c_record, c_receipt, c_maker,
                     c_mishaps>>
  BY OfAUser, WhoMovesHasARecord DEF C!CloseGroup, C!Only, C!Unlocked, C!Readings
<1>1. CASE C!GroupHolds(u) /\ c_user' = [c_user EXCEPT ![u].pc = "again", ![u].dirt = @ \/ c_user[u].copy = "dirty", ![u].copy = C!None]
  <2> DEFINE r == [c_user[u] EXCEPT !.pc = "again", !.dirt = @ \/ c_user[u].copy = "dirty", !.copy = C!None]
  <2>1. /\ r \in UserStates /\ r.pc = "again"
        /\ r.dirt = (c_user[u].dirt \/ c_user[u].copy = "dirty") /\ r.copy = C!None /\ r.ok = c_user[u].ok
        /\ r.before = c_user[u].before /\ r.after = c_user[u].after /\ r.tool = c_user[u].tool
        /\ r.read = c_user[u].read /\ r.group = c_user[u].group /\ r.commands = c_user[u].commands
        /\ r.cleanup = c_user[u].cleanup /\ r.retained = c_user[u].retained /\ r.manifest = c_user[u].manifest
    BY <1>1, <1>a, RuntimeFacts DEF UserStates
  <2>2. c_user' = [c_user EXCEPT ![u] = r]
    BY <1>1, <1>a DEF C!CloseGroup, C!LeaveGroup
  <2> HIDE DEF r
  <2>3. UserFits(u, r, c_lock')
    BY <1>1, <1>a, <2>1 DEF UserHolds, UserFits, Holding, C!Readings
  <2>4. u \in Verifiers => InOrder(r)
    BY <1>1, <1>a, <2>1 DEF InOrder, C!GroupHolds
  <2> QED BY <1>1, <1>a, <2>1, <2>2, <2>3, <2>4, RuntimeFacts, UserGoesOn
<1>2. CASE c_user' = [c_user EXCEPT ![u].pc = "after", ![u].ok = FALSE, ![u].copy = C!None]
  <2> DEFINE r == [c_user[u] EXCEPT !.pc = "after", !.ok = FALSE, !.copy = C!None]
  <2>1. /\ r \in UserStates /\ r.pc = "after"
        /\ r.ok = FALSE /\ r.copy = C!None /\ r.before = c_user[u].before
        /\ r.after = c_user[u].after /\ r.tool = c_user[u].tool /\ r.read = c_user[u].read
        /\ r.group = c_user[u].group /\ r.commands = c_user[u].commands /\ r.cleanup = c_user[u].cleanup
        /\ r.dirt = c_user[u].dirt /\ r.retained = c_user[u].retained /\ r.manifest = c_user[u].manifest
    BY <1>2, <1>a, RuntimeFacts DEF UserStates
  <2>2. c_user' = [c_user EXCEPT ![u] = r]
    BY <1>2, <1>a DEF C!CloseGroup, C!LeaveGroup
  <2> HIDE DEF r
  <2>3. UserFits(u, r, c_lock')
    BY <1>2, <1>a, <2>1 DEF UserHolds, UserFits, Holding, C!Readings
  <2>4. u \in Verifiers => InOrder(r)
    BY <1>2, <1>a, <2>1 DEF InOrder
  <2> QED BY <1>2, <1>a, <2>1, <2>2, <2>3, <2>4, RuntimeFacts, UserGoesOn
<1>3. CASE C!LeaveGroup(u)
  <2> DEFINE r == [c_user[u] EXCEPT !.pc = "after", !.ok = FALSE, !.cleanup = "failed", !.retained = TRUE]
  <2>1. /\ r \in UserStates /\ r.pc = "after"
        /\ r.ok = FALSE /\ r.cleanup = "failed" /\ r.retained = TRUE
        /\ r.before = c_user[u].before /\ r.after = c_user[u].after /\ r.tool = c_user[u].tool
        /\ r.read = c_user[u].read /\ r.group = c_user[u].group /\ r.copy = c_user[u].copy
        /\ r.commands = c_user[u].commands /\ r.dirt = c_user[u].dirt /\ r.manifest = c_user[u].manifest
    BY <1>3, <1>a, RuntimeFacts DEF UserStates
  <2>2. c_user' = [c_user EXCEPT ![u] = r]
    BY <1>3, <1>a DEF C!CloseGroup, C!LeaveGroup
  <2> HIDE DEF r
  <2>3. UserFits(u, r, c_lock')
    BY <1>3, <1>a, <2>1 DEF UserHolds, UserFits, Holding, C!Readings
  <2>4. u \in Verifiers => InOrder(r)
    BY <1>3, <1>a, <2>1 DEF InOrder
  <2> QED BY <1>3, <1>a, <2>1, <2>2, <2>3, <2>4, RuntimeFacts, UserGoesOn
<1> QED BY <1>a, <1>1, <1>2, <1>3 DEF C!CloseGroup, C!LeaveGroup

\* The checks at the end begin with the candidate.
LEMMA CheckAfterKeeps ==
  ASSUME RuntimeInv, NEW u \in C!Users, C!CheckAfter(u)
  PROVE  RuntimeInv'
<1>a. /\ c_user[u] \in UserStates /\ UserHolds(u, c_user[u]) /\ u # C!None /\ u # "maker"
      /\ u \in Verifiers => InOrder(c_user[u])
      /\ c_user[u].pc = "after" /\ c_record # C!NoSnapshot
      /\ c_lock' = c_lock
      /\ UNCHANGED <<c_candidate, c_tool, c_runtime, c_marker, c_record, c_receipt, c_maker,
                     c_mishaps>>
  BY OfAUser, WhoMovesHasARecord DEF C!CheckAfter, C!Only, C!Unlocked, C!Readings
<1> DEFINE r == [c_user[u] EXCEPT !.pc = "readAfter", !.after = c_candidate.snapshot, !.ok = @ /\ C!InputsAre(c_record)]
<1>b. (c_user[u].ok /\ C!InputsAre(c_record)) \in BOOLEAN
  BY DEF C!InputsAre
<1>c. c_candidate.snapshot \in C!NoSnapshot..MaxMishaps
  BY RuntimeFacts, EvidenceAssumption, UsersAssumption
<1>1. /\ r \in UserStates /\ r.pc = "readAfter"
      /\ r.after = c_candidate.snapshot /\ r.ok = (c_user[u].ok /\ C!InputsAre(c_record)) /\ r.before = c_user[u].before
      /\ r.tool = c_user[u].tool /\ r.read = c_user[u].read /\ r.group = c_user[u].group
      /\ r.copy = c_user[u].copy /\ r.commands = c_user[u].commands /\ r.cleanup = c_user[u].cleanup
      /\ r.dirt = c_user[u].dirt /\ r.retained = c_user[u].retained /\ r.manifest = c_user[u].manifest
  BY <1>b, <1>c, <1>a, RuntimeFacts DEF UserStates
<1>2. c_user' = [c_user EXCEPT ![u] = r]
  BY <1>b, <1>c, <1>a DEF C!CheckAfter, C!Goto
<1> HIDE DEF r
<1>3. UserFits(u, r, c_lock')
  BY <1>b, <1>c, <1>a, <1>1 DEF UserHolds, UserFits, Holding, C!Readings
<1>4. u \in Verifiers => InOrder(r)
  BY <1>b, <1>c, <1>a, <1>1 DEF InOrder
<1> QED BY <1>b, <1>c, <1>a, <1>1, <1>2, <1>3, <1>4, RuntimeFacts, UserGoesOn

\* The last reading finds the runtime complete, or the verification has failed.
LEMMA ReadAfterKeeps ==
  ASSUME RuntimeInv, NEW u \in C!Users, C!ReadAfter(u)
  PROVE  RuntimeInv'
<1>a. /\ c_user[u] \in UserStates /\ UserHolds(u, c_user[u]) /\ u # C!None /\ u # "maker"
      /\ u \in Verifiers => InOrder(c_user[u])
      /\ c_user[u].pc = "readAfter" /\ c_record # C!NoSnapshot
      /\ (c_lock = u /\ c_lock' = C!None) \/ (c_lock' = c_lock /\ c_lock \notin {C!None, u})
      /\ UNCHANGED <<c_candidate, c_tool, c_runtime, c_marker, c_record, c_receipt, c_maker,
                     c_mishaps>>
  BY OfAUser, WhoMovesHasARecord DEF C!ReadAfter, C!Only, C!Unlocked, C!Readings
<1>1. CASE c_user' = [c_user EXCEPT ![u].pc = "cleanup", ![u].read = C!ReadHolds, ![u].ok = @ /\ C!ReadHolds]
  <2> DEFINE r == [c_user[u] EXCEPT !.pc = "cleanup", !.read = C!ReadHolds, !.ok = @ /\ C!ReadHolds]
  <2>a. (c_user[u].ok /\ C!ReadHolds) \in BOOLEAN /\ C!ReadHolds \in BOOLEAN
    BY DEF C!ReadHolds
  <2>1. /\ r \in UserStates /\ r.pc = "cleanup"
        /\ r.read = C!ReadHolds /\ r.ok = (c_user[u].ok /\ C!ReadHolds) /\ r.before = c_user[u].before
        /\ r.after = c_user[u].after /\ r.tool = c_user[u].tool /\ r.group = c_user[u].group
        /\ r.copy = c_user[u].copy /\ r.commands = c_user[u].commands /\ r.cleanup = c_user[u].cleanup
        /\ r.dirt = c_user[u].dirt /\ r.retained = c_user[u].retained /\ r.manifest = c_user[u].manifest
    BY <1>1, <2>a, <1>a, RuntimeFacts DEF UserStates
  <2>2. c_user' = [c_user EXCEPT ![u] = r]
    BY <1>1, <2>a, <1>a DEF C!ReadAfter, C!Goto
  <2> HIDE DEF r
  <2>3. UserFits(u, r, c_lock')
    BY <1>1, <2>a, <1>a, <2>1 DEF UserHolds, UserFits, Holding, C!Readings
  <2>4. u \in Verifiers => InOrder(r)
    BY <1>1, <2>a, <1>a, <2>1 DEF InOrder
  <2> QED BY <1>1, <2>a, <1>a, <2>1, <2>2, <2>3, <2>4, RuntimeFacts, UserGoesOn
<1>2. CASE c_user' = [c_user EXCEPT ![u].pc = "cleanup", ![u].ok = FALSE]
  <2> DEFINE r == [c_user[u] EXCEPT !.pc = "cleanup", !.ok = FALSE]
  <2>1. /\ r \in UserStates /\ r.pc = "cleanup"
        /\ r.ok = FALSE /\ r.before = c_user[u].before /\ r.after = c_user[u].after
        /\ r.tool = c_user[u].tool /\ r.read = c_user[u].read /\ r.group = c_user[u].group
        /\ r.copy = c_user[u].copy /\ r.commands = c_user[u].commands /\ r.cleanup = c_user[u].cleanup
        /\ r.dirt = c_user[u].dirt /\ r.retained = c_user[u].retained /\ r.manifest = c_user[u].manifest
    BY <1>2, <1>a, RuntimeFacts DEF UserStates
  <2>2. c_user' = [c_user EXCEPT ![u] = r]
    BY <1>2, <1>a DEF C!ReadAfter, C!Goto
  <2> HIDE DEF r
  <2>3. UserFits(u, r, c_lock')
    BY <1>2, <1>a, <2>1 DEF UserHolds, UserFits, Holding, C!Readings
  <2>4. u \in Verifiers => InOrder(r)
    BY <1>2, <1>a, <2>1 DEF InOrder
  <2> QED BY <1>2, <1>a, <2>1, <2>2, <2>3, <2>4, RuntimeFacts, UserGoesOn
<1> QED BY <1>a, <1>1, <1>2 DEF C!ReadAfter, C!Goto

\* A cleanup that is refused leaves everything as it is.
LEMMA CleanupRefusedKeeps ==
  ASSUME RuntimeInv, NEW u \in C!Users, C!CleanupRefused(u)
  PROVE  RuntimeInv'
<1>a. /\ c_user[u] \in UserStates /\ UserHolds(u, c_user[u]) /\ u # C!None /\ u # "maker"
      /\ u \in Verifiers => InOrder(c_user[u])
      /\ c_user[u].pc = "cleanup" /\ c_record # C!NoSnapshot
      /\ c_lock' = c_lock
      /\ UNCHANGED <<c_candidate, c_tool, c_runtime, c_marker, c_record, c_receipt, c_maker,
                     c_mishaps>>
  BY OfAUser, WhoMovesHasARecord DEF C!CleanupRefused, C!Only, C!Unlocked, C!Readings
<1> DEFINE r == [c_user[u] EXCEPT !.pc = C!After(u), !.ok = FALSE, !.cleanup = "failed"]
<1>1. /\ r \in UserStates /\ r.pc = C!After(u)
      /\ r.ok = FALSE /\ r.cleanup = "failed" /\ r.before = c_user[u].before
      /\ r.after = c_user[u].after /\ r.tool = c_user[u].tool /\ r.read = c_user[u].read
      /\ r.group = c_user[u].group /\ r.copy = c_user[u].copy /\ r.commands = c_user[u].commands
      /\ r.dirt = c_user[u].dirt /\ r.retained = c_user[u].retained /\ r.manifest = c_user[u].manifest
  BY <1>a, RuntimeFacts DEF UserStates, C!After
<1>2. c_user' = [c_user EXCEPT ![u] = r]
  BY <1>a DEF C!CleanupRefused, C!Ended
<1> HIDE DEF r
<1>3. UserFits(u, r, c_lock')
  BY <1>a, <1>1 DEF UserHolds, UserFits, Holding, C!Readings, C!After
<1>4. u \in Verifiers => InOrder(r)
  BY <1>a, <1>1 DEF InOrder, C!After
<1> QED BY <1>a, <1>1, <1>2, <1>3, <1>4, RuntimeFacts, UserGoesOn

\* A reading takes the lock when nobody has it.
LEMMA LockToReadKeeps ==
  ASSUME RuntimeInv, NEW u \in C!Users, C!LockToRead(u)
  PROVE  RuntimeInv'
<1>1. /\ c_user[u] \in UserStates /\ UserHolds(u, c_user[u])
      /\ u \in Verifiers => InOrder(c_user[u])
      /\ c_user[u].pc \in C!Readings /\ c_lock = C!None /\ c_lock' = u
      /\ UNCHANGED <<c_candidate, c_tool, c_runtime, c_marker, c_record, c_receipt, c_maker,
                     c_user, c_mishaps>>
  BY OfAUser DEF C!LockToRead
<1>2. c_user' = [c_user EXCEPT ![u] = c_user[u]]
  BY <1>1, RuntimeFacts
<1>3. UserFits(u, c_user[u], c_lock')
  BY <1>1 DEF UserHolds, UserFits, Holding
<1> QED BY <1>1, <1>2, <1>3, RuntimeFacts, UserGoesOn DEF C!Readings

\* A process is started with the digest of a record.
LEMMA BeginKeeps ==
  ASSUME RuntimeInv, NEW u \in C!Users, C!Begin(u)
  PROVE  RuntimeInv'
<1> DEFINE r == [c_user[u] EXCEPT !.pc = IF u \in Verifiers THEN "inputs" ELSE "cleanup",
                                !.before = c_candidate.snapshot, !.tool = c_tool]
<1>a. /\ c_user[u] \in UserStates /\ UserHolds(u, c_user[u])
      /\ u \in Verifiers => InOrder(c_user[u]) /\ ManifestHolds(c_user[u])
      /\ c_user[u].pc = "idle" /\ c_record # C!NoSnapshot
      /\ UNCHANGED <<c_candidate, c_tool, c_runtime, c_marker, c_record, c_receipt, c_lock,
                     c_maker, c_mishaps>>
  BY OfAUser DEF C!Begin, C!Only
<1>1. /\ r \in UserStates /\ r.pc = (IF u \in Verifiers THEN "inputs" ELSE "cleanup")
      /\ r.ok = c_user[u].ok /\ r.group = c_user[u].group /\ r.commands = c_user[u].commands
      /\ r.dirt = c_user[u].dirt /\ r.cleanup = c_user[u].cleanup /\ r.retained = c_user[u].retained
      /\ r.manifest = c_user[u].manifest
  <2>1. c_candidate.snapshot \in C!NoSnapshot..MaxMishaps /\ c_tool \in 0..1
    BY RuntimeFacts, EvidenceAssumption, UsersAssumption
  <2> QED BY <1>a, <2>1 DEF UserStates
<1>2. c_user' = [c_user EXCEPT ![u] = r]
  BY DEF C!Begin
<1> HIDE DEF r
<1>3. UserFits(u, r, c_lock')
  BY <1>a, <1>1 DEF UserHolds, UserFits, Holding, C!Readings
<1>4. u \in Verifiers => InOrder(r)
  BY <1>a, <1>1 DEF InOrder
<1>5. u \in Verifiers => ManifestHolds(r)
  <2>1. u \in Verifiers => r.manifest = C!NoManifest
    BY <1>a, <1>1 DEF InOrder
  <2> QED BY <2>1 DEF ManifestHolds, C!NoManifest, C!None
<1> QED BY <1>a, <1>1, <1>2, <1>3, <1>4, <1>5, RuntimeFacts, UserMoves

\* A manifest says what was found.
LEMMA PublishVerificationKeeps ==
  ASSUME RuntimeInv, NEW u \in C!Users, C!PublishVerification(u)
  PROVE  RuntimeInv'
<1>a. /\ c_user[u] \in UserStates /\ UserHolds(u, c_user[u])
      /\ u \in Verifiers => InOrder(c_user[u])
      /\ c_user[u].pc = "publish" /\ c_record # C!NoSnapshot
      /\ UNCHANGED <<c_candidate, c_tool, c_runtime, c_marker, c_record, c_receipt, c_lock,
                     c_maker, c_mishaps>>
  BY OfAUser, WhoMovesHasARecord DEF C!PublishVerification, C!Only
<1>1. CASE C!Goto(u, "done")
  <2> DEFINE r == [c_user[u] EXCEPT !.pc = "done"]
  <2>1. /\ r \in UserStates /\ r.pc = "done" /\ r.ok = c_user[u].ok /\ r.cleanup = c_user[u].cleanup
        /\ r.retained = c_user[u].retained /\ r.manifest = c_user[u].manifest
    BY <1>a DEF UserStates
  <2>2. c_user' = [c_user EXCEPT ![u] = r]
    BY <1>1 DEF C!Goto
  <2> HIDE DEF r
  <2>3. UserFits(u, r, c_lock')
    BY <1>a, <2>1 DEF UserHolds, UserFits, Holding, C!Readings
  <2>4. u \in Verifiers => InOrder(r)
    BY <1>a, <2>1 DEF InOrder
  <2> QED BY <1>a, <2>1, <2>2, <2>3, <2>4, RuntimeFacts, UserGoesOn
<1>2. ASSUME c_user' = [c_user EXCEPT ![u].pc = "done",
                       ![u].manifest = [status |-> IF C!Passed(c_user[u]) THEN "passed" ELSE "failed",
                                        before |-> c_user[u].before, after |-> c_user[u].after,
                                        read |-> c_user[u].read, commands |-> c_user[u].commands,
                                        cleanup |-> c_user[u].cleanup]]
      PROVE  RuntimeInv'
  <2> DEFINE m == [status |-> IF C!Passed(c_user[u]) THEN "passed" ELSE "failed",
                   before |-> c_user[u].before, after |-> c_user[u].after,
                   read |-> c_user[u].read, commands |-> c_user[u].commands,
                   cleanup |-> c_user[u].cleanup]
             r == [c_user[u] EXCEPT !.pc = "done", !.manifest = m]
  <2>1. /\ m \in Manifests /\ m.before = c_user[u].before /\ m.after = c_user[u].after
        /\ m.read = c_user[u].read /\ m.commands = c_user[u].commands /\ m.cleanup = c_user[u].cleanup
        /\ m.status = (IF C!Passed(c_user[u]) THEN "passed" ELSE "failed")
    BY <1>a DEF UserStates, Manifests
  <2>2. c_user' = [c_user EXCEPT ![u] = r]
    BY <1>2
  <2> HIDE DEF m
  <2>3. /\ r \in UserStates /\ r.pc = "done" /\ r.manifest = m /\ r.ok = c_user[u].ok
        /\ r.cleanup = c_user[u].cleanup /\ r.retained = c_user[u].retained /\ r.dirt = c_user[u].dirt
        /\ r.tool = c_user[u].tool
    BY <1>a, <2>1 DEF UserStates
  <2> HIDE DEF r
  <2>4. UserFits(u, r, c_lock')
    BY <1>a, <2>3 DEF UserHolds, UserFits, Holding, C!Readings
  <2>5. u \in Verifiers => InOrder(r)
    BY <1>a, <2>3 DEF InOrder
  <2>6. ASSUME u \in Verifiers
        PROVE  ManifestHolds(r)
    <3>1. m.status = "passed" => C!Passed(c_user[u])
      BY <2>1
    <3>2. c_user[u].cleanup = "completed" => ~c_runtime.root /\ ~c_user[u].retained
      BY <1>a, <2>6 DEF UserHolds, UserFits, InOrder
    <3>3. c_user[u].ok => /\ c_user[u].cleanup = "completed" /\ c_user[u].commands = 2
                          /\ c_user[u].tool = 0 /\ ~c_user[u].dirt /\ c_user[u].read
      BY <1>a, <2>6 DEF InOrder
    <3> QED BY <2>1, <2>3, <3>1, <3>2, <3>3 DEF ManifestHolds, C!Passed
  <2> QED BY <1>a, <2>2, <2>3, <2>4, <2>5, <2>6, RuntimeFacts, UserMoves
<1> QED BY <1>1, <1>2 DEF C!PublishVerification

\* A process that is killed loses its lock.
LEMMA KillKeeps ==
  ASSUME RuntimeInv, NEW u \in C!Users, C!Kill(u)
  PROVE  RuntimeInv'
<1> DEFINE r == [c_user[u] EXCEPT !.pc = "killed"]
<1>a. /\ c_user[u] \in UserStates /\ UserHolds(u, c_user[u]) /\ u # C!None
      /\ u \in Verifiers => InOrder(c_user[u])
      /\ c_user[u].pc \notin {"idle", "done", "killed"} /\ c_record # C!NoSnapshot
      /\ c_lock' = IF c_lock = u THEN C!None ELSE c_lock
      /\ UNCHANGED <<c_candidate, c_tool, c_runtime, c_marker, c_record, c_receipt, c_maker>>
      /\ c_mishaps < MaxMishaps /\ c_mishaps' = c_mishaps + 1
  BY OfAUser, WhoMovesHasARecord DEF C!Kill, C!Mishap
<1>b. c_mishaps' \in 0..MaxMishaps /\ c_mishaps' >= c_mishaps
  BY <1>a, RuntimeFacts, EvidenceAssumption, UsersAssumption
<1>1. /\ r \in UserStates /\ r.pc = "killed" /\ r.ok = c_user[u].ok /\ r.cleanup = c_user[u].cleanup
      /\ r.retained = c_user[u].retained /\ r.manifest = c_user[u].manifest
  BY <1>a DEF UserStates
<1>2. c_user' = [c_user EXCEPT ![u] = r]
  BY DEF C!Kill, C!Goto
<1> HIDE DEF r
<1>3. UserFits(u, r, c_lock')
  BY <1>a, <1>1 DEF UserHolds, UserFits, Holding, C!Readings
<1>4. u \in Verifiers => InOrder(r)
  BY <1>a, <1>1 DEF InOrder
<1> QED BY <1>a, <1>b, <1>1, <1>2, <1>3, <1>4, UserGoesOn

-----------------------------------------------------------------------------
(* The cleanup.                                                            *)

\* The maker is away when a user has the lock, or may have it, of a recorded runtime.
LEMMA MakerIsAway ==
  ASSUME RuntimeInv, NEW u \in C!Users, c_lock \in {u, C!None}, c_record # C!NoSnapshot
  PROVE  c_maker.pc \in {"done", "failed", "killed"}
<1>1. u # "maker" /\ C!None # "maker"
  BY OfAUser DEF C!None
<1>2. c_maker \in Makers /\ MakerHolds
  BY RuntimeFacts DEF RuntimeInv
<1> QED BY <1>1, <1>2 DEF MakerHolds, Makers

\* The invariant is kept by a step of a cleanup: nothing is put into the runtime, and what
\* the step tells of it is so.
LEMMA UserCleans ==
  ASSUME RuntimeInv, NEW u \in C!Users, NEW r \in UserStates, c_record # C!NoSnapshot,
         c_user[u].pc \notin {"idle", "done"}, r.manifest = c_user[u].manifest,
         c_user' = [c_user EXCEPT ![u] = r], c_lock \in {u, C!None}, c_lock' \in {u, C!None},
         UNCHANGED <<c_candidate, c_tool, c_record, c_maker, c_mishaps>>,
         c_runtime' \in [root : BOOLEAN, file : [Files -> C!FileStates], extra : BOOLEAN,
                       disturbed : BOOLEAN],
         \/ c_runtime' = C!Absent
         \/ /\ c_runtime'.root = c_runtime.root /\ c_runtime'.disturbed = c_runtime.disturbed
            /\ c_runtime'.extra = c_runtime.extra
            /\ \A f \in Files : c_runtime'.file[f] \in {c_runtime.file[f], C!None},
         c_marker' = c_marker \/ c_marker' \in {"cleaning", "torn", "cleaned"},
         c_marker' = "active" => c_runtime' = c_runtime,
         c_receipt' \in {C!None, "completed", "failed"},
         ToldIsGone', UserHolds(u, c_user[u])', u \in Verifiers => InOrder(r)
  PROVE  RuntimeInv'
<1>1. c_maker.pc \in {"done", "failed", "killed"} /\ u # "maker" /\ C!None # "maker"
  BY MakerIsAway, OfAUser DEF C!None
<1>2. c_runtime'.root => c_runtime.root
  <2>1. ~C!Absent.root
    BY DEF C!Absent
  <2> QED BY <2>1
<1>3. RuntimeTyped'
  <2>1. c_user' \in [C!Users -> UserStates] /\ c_lock' \in {C!None, "maker"} \cup C!Users
    BY RuntimeFacts
  <2>2. c_marker' \in {C!None, "empty", "building", "active", "cleaning", "torn", "cleaned"}
    BY DEF RuntimeInv, RuntimeTyped, C!TypeOK
  <2> QED BY <2>1, <2>2, RuntimeFacts, TypesKept
<1>4. MakerHolds'
  <2>1. MakerHolds
    BY DEF RuntimeInv
  <2>2. c_maker.pc = "failed" => ~c_runtime'.root \/ c_runtime'.disturbed
    BY <2>1, <1>2 DEF MakerHolds, C!Absent
  <2>3. c_lock' # "maker"
    BY <1>1
  <2> QED BY <1>1, <2>1, <2>2, <2>3 DEF MakerHolds
<1>5. UndisturbedIsOwn'
  <2>1. UndisturbedIsOwn
    BY DEF RuntimeInv
  <2>2. CASE c_runtime' = C!Absent
    <3>1. ~c_runtime'.extra /\ ~c_runtime'.root /\ \A f \in Files : c_runtime'.file[f] = C!None
      BY <2>2 DEF C!Absent
    <3>2. c_marker' # "active" \/ c_runtime' = c_runtime
      OBVIOUS
    <3> QED BY <1>1, <2>1, <3>1, <3>2 DEF UndisturbedIsOwn
  <2>3. CASE /\ c_runtime'.disturbed = c_runtime.disturbed /\ c_runtime'.extra = c_runtime.extra
             /\ \A f \in Files : c_runtime'.file[f] \in {c_runtime.file[f], C!None}
    <3>1. c_marker' = "active" => c_marker = "active" /\ c_runtime' = c_runtime
      OBVIOUS
    <3> QED BY <1>1, <2>1, <2>3, <3>1 DEF UndisturbedIsOwn
  <2> QED BY <2>2, <2>3
<1>6. UsersHold'
  <2> SUFFICES ASSUME NEW v \in C!Users
               PROVE  /\ UserHolds(v, c_user[v])'
                      /\ v \in Verifiers => InOrder(c_user[v])' /\ ManifestHolds(c_user[v])'
    BY DEF UsersHold
  <2>1. c_user'[v] = IF v = u THEN r ELSE c_user[v]
    BY RuntimeFacts
  <2>2. CASE v = u
    <3>1. c_user'[v] = r
      BY <2>1, <2>2
    <3>2. u \in Verifiers => c_user[u].manifest = C!NoManifest
      BY OfAUser DEF InOrder
    <3>3. u \in Verifiers => InOrder(c_user[v])'
      BY <3>1 DEF InOrder
    <3>4. u \in Verifiers => ManifestHolds(c_user[v])'
      BY <3>1, <3>2 DEF ManifestHolds, C!NoManifest, C!None
    <3> QED BY <2>2, <3>3, <3>4
  <2>3. CASE v # u
    BY <2>1, <2>3, <1>2, OthersHold
  <2> QED BY <2>2, <2>3
<1> QED BY <1>3, <1>4, <1>5, <1>6 DEF RuntimeInv

\* Somebody has removed the runtime already.
LEMMA CleanupDoneKeeps ==
  ASSUME RuntimeInv, NEW u \in C!Users, C!CleanupDone(u)
  PROVE  RuntimeInv'
<1>a. /\ c_user[u] \in UserStates /\ UserHolds(u, c_user[u]) /\ u # C!None
      /\ u \in Verifiers => InOrder(c_user[u])
      /\ c_user[u].pc = "cleanup" /\ c_record # C!NoSnapshot
      /\ c_lock = C!None /\ ~c_runtime.root /\ UNCHANGED <<c_runtime, c_marker>>
      /\ UNCHANGED <<c_candidate, c_tool, c_record, c_maker, c_mishaps>>
  BY OfAUser, WhoMovesHasARecord DEF C!CleanupDone, C!Gone
<1>b. /\ c_runtime \in [root : BOOLEAN, file : [Files -> C!FileStates], extra : BOOLEAN,
                      disturbed : BOOLEAN]
      /\ c_receipt \in {C!None, "completed", "failed"} /\ ToldIsGone
  BY RuntimeFacts DEF RuntimeInv, RuntimeTyped, C!TypeOK
<1>1. CASE c_marker = "cleaned" /\ c_receipt' = "completed" /\ C!Ended(u, TRUE) /\ UNCHANGED c_lock
  <2> DEFINE r == [c_user[u] EXCEPT !.pc = C!After(u), !.ok = @ /\ TRUE, !.cleanup = IF TRUE THEN @ ELSE "failed"]
  <2>1. /\ r \in UserStates /\ r.pc = C!After(u)
        /\ r.ok = c_user[u].ok /\ r.tool = c_user[u].tool /\ r.read = c_user[u].read
        /\ r.group = c_user[u].group /\ r.commands = c_user[u].commands /\ r.cleanup = c_user[u].cleanup
        /\ r.dirt = c_user[u].dirt /\ r.retained = c_user[u].retained /\ r.manifest = c_user[u].manifest
    BY <1>a DEF UserStates, C!After
  <2>2. c_user' = [c_user EXCEPT ![u] = r]
    BY <1>1, <1>a DEF C!Ended
  <2> HIDE DEF r
  <2>3. c_user'[u] = r
    BY <2>2, RuntimeFacts
  <2>4. u \in Verifiers => InOrder(r)
    BY <1>1, <1>a, <2>1 DEF InOrder, C!After
  <2>5. UserHolds(u, c_user[u])'
    BY <1>1, <1>a, <1>b, <2>1, <2>3 DEF UserHolds, UserFits, Holding, C!Readings, C!After
  <2>6. ToldIsGone'
    BY <1>1, <1>a, <1>b DEF ToldIsGone
  <2> QED BY <1>1, <1>a, <1>b, <2>1, <2>2, <2>4, <2>5, <2>6, UserCleans
<1>2. CASE c_marker = "cleaning" /\ c_lock' = u /\ C!Goto(u, "write") /\ UNCHANGED c_receipt
  <2> DEFINE r == [c_user[u] EXCEPT !.pc = "write"]
  <2>1. /\ r \in UserStates /\ r.pc = "write"
        /\ r.ok = c_user[u].ok /\ r.tool = c_user[u].tool /\ r.read = c_user[u].read
        /\ r.group = c_user[u].group /\ r.commands = c_user[u].commands /\ r.cleanup = c_user[u].cleanup
        /\ r.dirt = c_user[u].dirt /\ r.retained = c_user[u].retained /\ r.manifest = c_user[u].manifest
    BY <1>a DEF UserStates, C!After
  <2>2. c_user' = [c_user EXCEPT ![u] = r]
    BY <1>2, <1>a DEF C!Goto
  <2> HIDE DEF r
  <2>3. c_user'[u] = r
    BY <2>2, RuntimeFacts
  <2>4. u \in Verifiers => InOrder(r)
    BY <1>2, <1>a, <2>1 DEF InOrder, C!After
  <2>5. UserHolds(u, c_user[u])'
    BY <1>2, <1>a, <1>b, <2>1, <2>3 DEF UserHolds, UserFits, Holding, C!Readings, C!After
  <2>6. ToldIsGone'
    BY <1>2, <1>a, <1>b DEF ToldIsGone
  <2> QED BY <1>2, <1>a, <1>b, <2>1, <2>2, <2>4, <2>5, <2>6, UserCleans
<1> QED BY <1>1, <1>2 DEF C!CleanupDone

\* A runtime that is not what was recorded is left as it is.
LEMMA CleanupFailedKeeps ==
  ASSUME RuntimeInv, NEW u \in C!Users, C!CleanupFailed(u)
  PROVE  RuntimeInv'
<1>a. /\ c_user[u] \in UserStates /\ UserHolds(u, c_user[u]) /\ u # C!None
      /\ u \in Verifiers => InOrder(c_user[u])
      /\ c_user[u].pc = "cleanup" /\ c_record # C!NoSnapshot
      /\ c_lock = C!None /\ c_lock' = c_lock /\ UNCHANGED <<c_runtime,
                                                            c_marker>> /\ c_receipt' = "failed"
      /\ UNCHANGED <<c_candidate, c_tool, c_record, c_maker, c_mishaps>>
  BY OfAUser, WhoMovesHasARecord DEF C!CleanupFailed, C!Goto
<1>b. /\ c_runtime \in [root : BOOLEAN, file : [Files -> C!FileStates], extra : BOOLEAN,
                      disturbed : BOOLEAN]
      /\ c_receipt \in {C!None, "completed", "failed"} /\ ToldIsGone
  BY RuntimeFacts DEF RuntimeInv, RuntimeTyped, C!TypeOK
<1>c. ~(c_marker \in {"cleaned", "torn"} /\ c_runtime.root)
  BY <1>b DEF ToldIsGone
<1> DEFINE r == [c_user[u] EXCEPT !.pc = C!After(u), !.ok = @ /\ FALSE, !.cleanup = IF FALSE THEN @ ELSE "failed"]
<1>1. /\ r \in UserStates /\ r.pc = C!After(u)
      /\ r.ok = FALSE /\ r.tool = c_user[u].tool /\ r.read = c_user[u].read
      /\ r.group = c_user[u].group /\ r.commands = c_user[u].commands /\ r.cleanup = "failed"
      /\ r.dirt = c_user[u].dirt /\ r.retained = c_user[u].retained /\ r.manifest = c_user[u].manifest
  BY <1>a DEF UserStates, C!After
<1>2. c_user' = [c_user EXCEPT ![u] = r]
  BY <1>a DEF C!CleanupFailed, C!Ended
<1> HIDE DEF r
<1>3. c_user'[u] = r
  BY <1>2, RuntimeFacts
<1>4. u \in Verifiers => InOrder(r)
  BY <1>a, <1>1 DEF InOrder, C!After
<1>5. UserHolds(u, c_user[u])'
  BY <1>a, <1>b, <1>1, <1>3 DEF UserHolds, UserFits, Holding, C!Readings, C!After
<1>6. ToldIsGone'
  BY <1>a, <1>b DEF ToldIsGone
<1> QED BY <1>a, <1>b, <1>1, <1>2, <1>4, <1>5, <1>6, UserCleans

\* A cleanup that may go on takes the lock and says so.
LEMMA CleanupBeginsKeeps ==
  ASSUME RuntimeInv, NEW u \in C!Users, C!CleanupBegins(u)
  PROVE  RuntimeInv'
<1>a. /\ c_user[u] \in UserStates /\ UserHolds(u, c_user[u]) /\ u # C!None
      /\ u \in Verifiers => InOrder(c_user[u])
      /\ c_user[u].pc = "cleanup" /\ c_record # C!NoSnapshot
      /\ c_lock = C!None /\ c_lock' = u /\ c_marker' = "cleaning" /\ UNCHANGED <<c_runtime,
                                                                                 c_receipt>>
      /\ UNCHANGED <<c_candidate, c_tool, c_record, c_maker, c_mishaps>>
  BY OfAUser, WhoMovesHasARecord DEF C!CleanupBegins, C!Goto
<1>b. /\ c_runtime \in [root : BOOLEAN, file : [Files -> C!FileStates], extra : BOOLEAN,
                      disturbed : BOOLEAN]
      /\ c_receipt \in {C!None, "completed", "failed"} /\ ToldIsGone
  BY RuntimeFacts DEF RuntimeInv, RuntimeTyped, C!TypeOK
<1> DEFINE r == [c_user[u] EXCEPT !.pc = "remove"]
<1>1. /\ r \in UserStates /\ r.pc = "remove"
      /\ r.ok = c_user[u].ok /\ r.tool = c_user[u].tool /\ r.read = c_user[u].read
      /\ r.group = c_user[u].group /\ r.commands = c_user[u].commands /\ r.cleanup = c_user[u].cleanup
      /\ r.dirt = c_user[u].dirt /\ r.retained = c_user[u].retained /\ r.manifest = c_user[u].manifest
  BY <1>a DEF UserStates, C!After
<1>2. c_user' = [c_user EXCEPT ![u] = r]
  BY <1>a DEF C!CleanupBegins, C!Goto
<1> HIDE DEF r
<1>3. c_user'[u] = r
  BY <1>2, RuntimeFacts
<1>4. u \in Verifiers => InOrder(r)
  BY <1>a, <1>1 DEF InOrder, C!After
<1>5. UserHolds(u, c_user[u])'
  BY <1>a, <1>b, <1>1, <1>3 DEF UserHolds, UserFits, Holding, C!Readings, C!After
<1>6. ToldIsGone'
  BY <1>a, <1>b DEF ToldIsGone
<1> QED BY <1>a, <1>b, <1>1, <1>2, <1>4, <1>5, <1>6, UserCleans

\* A file that is recorded is removed, or what is left is not, or the root.
LEMMA RemoveKeeps ==
  ASSUME RuntimeInv, NEW u \in C!Users, C!Remove(u)
  PROVE  RuntimeInv'
<1>a. /\ c_user[u] \in UserStates /\ UserHolds(u, c_user[u]) /\ u # C!None
      /\ u \in Verifiers => InOrder(c_user[u])
      /\ c_user[u].pc = "remove" /\ c_record # C!NoSnapshot
      /\ c_lock = u /\ c_marker = "cleaning" /\ UNCHANGED c_marker
      /\ UNCHANGED <<c_candidate, c_tool, c_record, c_maker, c_mishaps>>
  BY OfAUser, WhoMovesHasARecord DEF C!Remove, UserHolds, UserFits, Holding
<1>b. /\ c_runtime \in [root : BOOLEAN, file : [Files -> C!FileStates], extra : BOOLEAN,
                      disturbed : BOOLEAN]
      /\ c_receipt \in {C!None, "completed", "failed"} /\ ToldIsGone
  BY RuntimeFacts DEF RuntimeInv, RuntimeTyped, C!TypeOK
<1>1. CASE (\E f \in Files : C!RemoveFile(f)) /\ UNCHANGED <<c_receipt, c_lock, c_user>>
  <2>1. PICK f \in Files : c_runtime' = [c_runtime EXCEPT !.file[f] = C!None]
    BY <1>1 DEF C!RemoveFile
  <2>2. /\ c_runtime' \in [root : BOOLEAN, file : [Files -> C!FileStates], extra : BOOLEAN,
                         disturbed : BOOLEAN]
        /\ c_runtime'.root = c_runtime.root /\ c_runtime'.disturbed = c_runtime.disturbed
        /\ c_runtime'.extra = c_runtime.extra
        /\ \A g \in Files : c_runtime'.file[g] \in {c_runtime.file[g], C!None}
    BY <1>b, <2>1 DEF C!FileStates
  <2>3. c_user' = [c_user EXCEPT ![u] = c_user[u]]
    BY <1>1, RuntimeFacts
  <2>4. UserHolds(u, c_user[u])'
    BY <1>1, <1>a, <2>2 DEF UserHolds, UserFits
  <2>5. ToldIsGone'
    BY <1>1, <1>a, <1>b, <2>2 DEF ToldIsGone
  <2> QED BY <1>1, <1>a, <1>b, <2>2, <2>3, <2>4, <2>5, UserCleans
<1>2. CASE /\ c_receipt' = "failed" /\ c_lock' = C!None /\ C!Ended(u, FALSE) /\ UNCHANGED c_runtime
  <2> DEFINE r == [c_user[u] EXCEPT !.pc = C!After(u), !.ok = @ /\ FALSE, !.cleanup = IF FALSE THEN @ ELSE "failed"]
  <2>1. /\ r \in UserStates /\ r.pc = C!After(u)
        /\ r.ok = FALSE /\ r.tool = c_user[u].tool /\ r.read = c_user[u].read
        /\ r.group = c_user[u].group /\ r.commands = c_user[u].commands /\ r.cleanup = "failed"
        /\ r.dirt = c_user[u].dirt /\ r.retained = c_user[u].retained /\ r.manifest = c_user[u].manifest
    BY <1>a DEF UserStates, C!After
  <2>2. c_user' = [c_user EXCEPT ![u] = r]
    BY <1>2, <1>a DEF C!Ended
  <2> HIDE DEF r
  <2>3. c_user'[u] = r
    BY <2>2, RuntimeFacts
  <2>4. u \in Verifiers => InOrder(r)
    BY <1>2, <1>a, <2>1 DEF InOrder, C!After
  <2>5. UserHolds(u, c_user[u])'
    BY <1>2, <1>a, <1>b, <2>1, <2>3 DEF UserHolds, UserFits, Holding, C!Readings, C!After
  <2>6. ToldIsGone'
    BY <1>2, <1>a, <1>b DEF ToldIsGone
  <2> QED BY <1>2, <1>a, <1>b, <2>1, <2>2, <2>4, <2>5, <2>6, UserCleans
<1>3. CASE c_runtime' = C!Absent /\ C!Goto(u, "write") /\ UNCHANGED <<c_receipt, c_lock>>
  <2>a. c_runtime' \in [root : BOOLEAN, file : [Files -> C!FileStates], extra : BOOLEAN,
                      disturbed : BOOLEAN] /\ ~c_runtime'.root
    BY <1>3 DEF C!Absent, C!FileStates
  <2> DEFINE r == [c_user[u] EXCEPT !.pc = "write"]
  <2>1. /\ r \in UserStates /\ r.pc = "write"
        /\ r.ok = c_user[u].ok /\ r.tool = c_user[u].tool /\ r.read = c_user[u].read
        /\ r.group = c_user[u].group /\ r.commands = c_user[u].commands /\ r.cleanup = c_user[u].cleanup
        /\ r.dirt = c_user[u].dirt /\ r.retained = c_user[u].retained /\ r.manifest = c_user[u].manifest
    BY <1>a DEF UserStates, C!After
  <2>2. c_user' = [c_user EXCEPT ![u] = r]
    BY <1>3, <2>a, <1>a DEF C!Goto
  <2> HIDE DEF r
  <2>3. c_user'[u] = r
    BY <2>2, RuntimeFacts
  <2>4. u \in Verifiers => InOrder(r)
    BY <1>3, <2>a, <1>a, <2>1 DEF InOrder, C!After
  <2>5. UserHolds(u, c_user[u])'
    BY <1>3, <2>a, <1>a, <1>b, <2>1, <2>3 DEF UserHolds, UserFits, Holding, C!Readings, C!After
  <2>6. ToldIsGone'
    BY <1>3, <2>a, <1>a, <1>b DEF ToldIsGone
  <2> QED BY <1>3, <2>a, <1>a, <1>b, <2>1, <2>2, <2>4, <2>5, <2>6, UserCleans
<1> QED BY <1>a, <1>1, <1>2, <1>3 DEF C!Remove, C!RemoveRoot

\* The note of a removal is written and cut to its length.
LEMMA WriteCleanedKeeps ==
  ASSUME RuntimeInv, NEW u \in C!Users, C!WriteCleaned(u)
  PROVE  RuntimeInv'
<1>a. /\ c_user[u] \in UserStates /\ UserHolds(u, c_user[u]) /\ u # C!None
      /\ u \in Verifiers => InOrder(c_user[u])
      /\ c_user[u].pc \in {"write", "truncate"} /\ c_record # C!NoSnapshot
      /\ c_lock = u /\ ~c_runtime.root /\ UNCHANGED c_runtime
      /\ UNCHANGED <<c_candidate, c_tool, c_record, c_maker, c_mishaps>>
  BY OfAUser, WhoMovesHasARecord DEF C!WriteCleaned, UserHolds, UserFits, Holding
<1>b. /\ c_runtime \in [root : BOOLEAN, file : [Files -> C!FileStates], extra : BOOLEAN,
                      disturbed : BOOLEAN]
      /\ c_receipt \in {C!None, "completed", "failed"} /\ ToldIsGone
  BY RuntimeFacts DEF RuntimeInv, RuntimeTyped, C!TypeOK
<1>1. CASE c_marker' = "torn" /\ C!Goto(u, "truncate") /\ UNCHANGED <<c_receipt, c_lock>>
  <2> DEFINE r == [c_user[u] EXCEPT !.pc = "truncate"]
  <2>1. /\ r \in UserStates /\ r.pc = "truncate"
        /\ r.ok = c_user[u].ok /\ r.tool = c_user[u].tool /\ r.read = c_user[u].read
        /\ r.group = c_user[u].group /\ r.commands = c_user[u].commands /\ r.cleanup = c_user[u].cleanup
        /\ r.dirt = c_user[u].dirt /\ r.retained = c_user[u].retained /\ r.manifest = c_user[u].manifest
    BY <1>a DEF UserStates, C!After
  <2>2. c_user' = [c_user EXCEPT ![u] = r]
    BY <1>1, <1>a DEF C!Goto
  <2> HIDE DEF r
  <2>3. c_user'[u] = r
    BY <2>2, RuntimeFacts
  <2>4. u \in Verifiers => InOrder(r)
    BY <1>1, <1>a, <2>1 DEF InOrder, C!After
  <2>5. UserHolds(u, c_user[u])'
    BY <1>1, <1>a, <1>b, <2>1, <2>3 DEF UserHolds, UserFits, Holding, C!Readings, C!After
  <2>6. ToldIsGone'
    BY <1>1, <1>a, <1>b DEF ToldIsGone
  <2> QED BY <1>1, <1>a, <1>b, <2>1, <2>2, <2>4, <2>5, <2>6, UserCleans
<1>2. CASE c_marker' = "cleaned" /\ c_receipt' = "completed" /\ c_lock' = C!None /\ C!Ended(u, TRUE)
  <2> DEFINE r == [c_user[u] EXCEPT !.pc = C!After(u), !.ok = @ /\ TRUE, !.cleanup = IF TRUE THEN @ ELSE "failed"]
  <2>1. /\ r \in UserStates /\ r.pc = C!After(u)
        /\ r.ok = c_user[u].ok /\ r.tool = c_user[u].tool /\ r.read = c_user[u].read
        /\ r.group = c_user[u].group /\ r.commands = c_user[u].commands /\ r.cleanup = c_user[u].cleanup
        /\ r.dirt = c_user[u].dirt /\ r.retained = c_user[u].retained /\ r.manifest = c_user[u].manifest
    BY <1>a DEF UserStates, C!After
  <2>2. c_user' = [c_user EXCEPT ![u] = r]
    BY <1>2, <1>a DEF C!Ended
  <2> HIDE DEF r
  <2>3. c_user'[u] = r
    BY <2>2, RuntimeFacts
  <2>4. u \in Verifiers => InOrder(r)
    BY <1>2, <1>a, <2>1 DEF InOrder, C!After
  <2>5. UserHolds(u, c_user[u])'
    BY <1>2, <1>a, <1>b, <2>1, <2>3 DEF UserHolds, UserFits, Holding, C!Readings, C!After
  <2>6. ToldIsGone'
    BY <1>2, <1>a, <1>b DEF ToldIsGone
  <2> QED BY <1>2, <1>a, <1>b, <2>1, <2>2, <2>4, <2>5, <2>6, UserCleans
<1> QED BY <1>a, <1>1, <1>2 DEF C!WriteCleaned

-----------------------------------------------------------------------------
(* The maker.                                                              *)

\* The invariant is kept by a step of the maker that keeps what it has to hold.
LEMMA MakerMoves ==
  ASSUME RuntimeInv, NEW m \in Makers, c_maker' = m,
         c_lock \in {"maker", C!None}, c_lock' \in {"maker", C!None},
         UNCHANGED <<c_candidate, c_tool, c_user>>,
         c_mishaps' \in 0..MaxMishaps, c_mishaps' >= c_mishaps,
         c_runtime' \in [root : BOOLEAN, file : [Files -> C!FileStates], extra : BOOLEAN,
                       disturbed : BOOLEAN],
         c_marker' \in {C!None, "empty", "building", "active", "cleaning", "torn", "cleaned"},
         c_record' \in C!NoSnapshot..MaxMishaps, c_record' = c_record \/ c_record = C!NoSnapshot,
         c_runtime'.root => c_runtime.root \/ c_record = C!NoSnapshot,
         c_receipt' \in {C!None, "completed", "failed"},
         MakerHolds', UndisturbedIsOwn', ToldIsGone'
  PROVE  RuntimeInv'
<1>1. RuntimeTyped'
  <2>1. c_candidate'.snapshot <= c_mishaps'
    BY RuntimeFacts, EvidenceAssumption, UsersAssumption
  <2> QED BY <2>1, RuntimeFacts, TypesKept
<1>2. UsersHold'
  BY MakerConcernsNobody
<1> QED BY <1>1, <1>2 DEF RuntimeInv

\* What the maker knows before a step.
LEMMA OfTheMaker ==
  ASSUME RuntimeInv
  PROVE  /\ c_maker \in Makers /\ MakerHolds /\ UndisturbedIsOwn /\ ToldIsGone
         /\ c_runtime \in [root : BOOLEAN, file : [Files -> C!FileStates], extra : BOOLEAN,
                         disturbed : BOOLEAN]
         /\ c_marker \in {C!None, "empty", "building", "active", "cleaning", "torn", "cleaned"}
         /\ c_receipt \in {C!None, "completed", "failed"} /\ c_record \in C!NoSnapshot..MaxMishaps
         /\ c_mishaps \in 0..MaxMishaps /\ c_mishaps >= c_mishaps /\ C!NoSnapshot = 0 - 1
         /\ C!None \notin {"maker", "empty", "building", "active", "cleaning", "torn", "cleaned",
                         "own", "completed"}
  BY RuntimeFacts DEF RuntimeInv, RuntimeTyped, C!TypeOK, C!None

\* The root is made when nothing is there.
LEMMA MakeRootKeeps ==
  ASSUME RuntimeInv, C!MakeRoot
  PROVE  RuntimeInv'
<1>a. /\ c_maker.pc = "start" /\ c_runtime = C!Absent /\ c_marker = C!None /\ c_record = C!NoSnapshot
      /\ c_receipt = C!None /\ c_lock = C!None /\ c_maker.made = {}
      /\ c_candidate.snapshot \in C!NoSnapshot..MaxMishaps
      /\ c_runtime' = [C!Absent EXCEPT !.root = TRUE]
      /\ c_maker' = [c_maker EXCEPT !.pc = "marker", !.snapshot = c_candidate.snapshot]
      /\ UNCHANGED <<c_candidate, c_tool, c_marker, c_record, c_receipt, c_lock, c_user,
                     c_mishaps>>
  BY OfTheMaker, RuntimeFacts, EvidenceAssumption, UsersAssumption DEF C!MakeRoot, MakerHolds
<1> DEFINE m == [c_maker EXCEPT !.pc = "marker", !.snapshot = c_candidate.snapshot]
<1>1. m \in Makers /\ m.pc = "marker" /\ m.made = {} /\ m.snapshot = c_candidate.snapshot
  BY <1>a, OfTheMaker DEF Makers
<1>2. c_maker' = m
  BY <1>a DEF C!Make
<1> HIDE DEF m
<1>3. /\ c_runtime' \in [root : BOOLEAN, file : [Files -> C!FileStates], extra : BOOLEAN,
                          disturbed : BOOLEAN]
      /\ ~c_runtime'.extra /\ \A f \in Files : c_runtime'.file[f] = C!None
  BY <1>a, OfTheMaker DEF C!Absent, C!FileStates
<1>4. MakerHolds'
  BY <1>a, <1>1, <1>2, <1>3, OfTheMaker DEF MakerHolds
<1>5. UndisturbedIsOwn'
  BY <1>a, <1>1, <1>2, <1>3, OfTheMaker DEF UndisturbedIsOwn
<1>6. ToldIsGone'
  BY <1>a, <1>3, OfTheMaker DEF ToldIsGone
<1> QED BY <1>a, <1>1, <1>2, <1>3, <1>4, <1>5, <1>6, OfTheMaker, MakerMoves

\* A candidate that is not the frozen one is refused before anything is made.
LEMMA MakeRefusedKeeps ==
  ASSUME RuntimeInv, C!MakeRefused
  PROVE  RuntimeInv'
<1>a. /\ c_maker.pc = "start" /\ UNCHANGED <<c_runtime, c_marker, c_record, c_receipt, c_lock>>
      /\ c_runtime = C!Absent /\ c_marker = C!None /\ c_record = C!NoSnapshot /\ c_receipt = C!None
      /\ c_lock = C!None /\ C!Make("failed")
      /\ UNCHANGED <<c_candidate, c_tool, c_user, c_mishaps>>
  BY OfTheMaker DEF C!MakeRefused, MakerHolds
<1>b. ~c_runtime.root
  BY <1>a DEF C!Absent
<1> DEFINE m == [c_maker EXCEPT !.pc = "failed"]
<1>1. m \in Makers /\ m.pc = "failed" /\ m.made = c_maker.made /\ m.snapshot = c_maker.snapshot
  BY <1>b, <1>a, OfTheMaker DEF Makers
<1>2. c_maker' = m
  BY <1>b, <1>a DEF C!Make
<1> HIDE DEF m
<1>4. MakerHolds'
  BY <1>b, <1>a, <1>1, <1>2, OfTheMaker DEF MakerHolds
<1>5. UndisturbedIsOwn'
  BY <1>b, <1>a, <1>1, <1>2, OfTheMaker DEF UndisturbedIsOwn
<1>6. ToldIsGone'
  BY <1>b, <1>a, OfTheMaker DEF ToldIsGone
<1> QED BY <1>b, <1>a, <1>1, <1>2, <1>4, <1>5, <1>6, OfTheMaker, MakerMoves

\* The marker is created and locked, and then written.
LEMMA MakeMarkerKeeps ==
  ASSUME RuntimeInv, C!MakeMarker
  PROVE  RuntimeInv'
<1>a. /\ c_maker.pc = "marker" /\ c_record = C!NoSnapshot /\ c_receipt = C!None /\ c_maker.made = {}
      /\ c_lock \in {"maker", C!None}
      /\ UNCHANGED <<c_candidate, c_tool, c_runtime, c_record, c_receipt, c_user, c_mishaps>>
  BY OfTheMaker DEF C!MakeMarker, MakerHolds
<1>1. CASE c_marker = C!None /\ c_marker' = "empty" /\ c_lock' = "maker" /\ UNCHANGED c_maker
  <2>1. MakerHolds'
    BY <1>1, <1>a, OfTheMaker DEF MakerHolds
  <2>2. UndisturbedIsOwn' /\ ToldIsGone'
    BY <1>1, <1>a, OfTheMaker DEF UndisturbedIsOwn, ToldIsGone
  <2> QED BY <1>1, <1>a, <2>1, <2>2, OfTheMaker, MakerMoves
<1>2. CASE c_marker = "empty" /\ c_marker' = "building" /\ C!Make("copy") /\ UNCHANGED c_lock
  <2> DEFINE m == [c_maker EXCEPT !.pc = "copy"]
  <2>1. m \in Makers /\ m.pc = "copy" /\ m.made = {} /\ m.snapshot = c_maker.snapshot
    BY <1>2, <1>a, OfTheMaker DEF Makers
  <2>2. c_maker' = m
    BY <1>2, <1>a DEF C!Make
  <2> HIDE DEF m
  <2>4. MakerHolds'
    BY <1>2, <1>a, <2>1, <2>2, OfTheMaker DEF MakerHolds
  <2>5. UndisturbedIsOwn'
    BY <1>2, <1>a, <2>1, <2>2, OfTheMaker DEF UndisturbedIsOwn
  <2>6. ToldIsGone'
    BY <1>2, <1>a, OfTheMaker DEF ToldIsGone
  <2> QED BY <1>2, <1>a, <2>1, <2>2, <2>4, <2>5, <2>6, OfTheMaker, MakerMoves
<1> QED BY <1>1, <1>2 DEF C!MakeMarker

\* A file is copied where nothing is.
LEMMA CopyKeeps ==
  ASSUME RuntimeInv, NEW f \in Files, C!Copy(f)
  PROVE  RuntimeInv'
<1>a. /\ c_maker.pc = "copy" /\ c_record = C!NoSnapshot /\ c_marker = "building" /\ c_lock = "maker"
      /\ UNCHANGED <<c_candidate, c_tool, c_marker, c_record, c_receipt, c_lock, c_user,
                     c_mishaps>>
  BY OfTheMaker DEF C!Copy, MakerHolds
<1>1. ASSUME c_runtime' = [c_runtime EXCEPT !.file[f] = "own"],
             c_maker' = [c_maker EXCEPT !.made = @ \cup {f}, !.pc = IF c_candidate.frozen THEN @ ELSE "undo"]
      PROVE  RuntimeInv'
  <2> DEFINE pc == IF c_candidate.frozen THEN c_maker.pc ELSE "undo"
             m == [c_maker EXCEPT !.made = @ \cup {f}, !.pc = IF c_candidate.frozen THEN @ ELSE "undo"]
  <2>1. pc \in {"copy", "undo"}
    BY <1>a
  <2>2. m \in Makers /\ m.pc = pc /\ m.made = c_maker.made \cup {f} /\ m.snapshot = c_maker.snapshot
    BY <1>a, <2>1, OfTheMaker DEF Makers
  <2>3. c_maker' = m
    BY <1>1
  <2> HIDE DEF m, pc
  <2>4. /\ c_runtime' \in [root : BOOLEAN, file : [Files -> C!FileStates], extra : BOOLEAN,
                         disturbed : BOOLEAN]
        /\ c_runtime'.root = c_runtime.root /\ c_runtime'.disturbed = c_runtime.disturbed
        /\ c_runtime'.extra = c_runtime.extra
        /\ \A g \in Files : c_runtime'.file[g] = IF g = f THEN "own" ELSE c_runtime.file[g]
    BY <1>1, OfTheMaker DEF C!FileStates
  <2>5. MakerHolds'
    BY <1>a, <2>1, <2>2, <2>3, OfTheMaker DEF MakerHolds
  <2>6. UndisturbedIsOwn'
    BY <1>a, <2>1, <2>2, <2>3, <2>4, OfTheMaker DEF UndisturbedIsOwn
  <2>7. ToldIsGone'
    BY <1>a, <2>4, OfTheMaker DEF ToldIsGone
  <2> QED BY <1>a, <2>2, <2>3, <2>4, <2>5, <2>6, <2>7, OfTheMaker, MakerMoves
<1>2. CASE C!Make("undo") /\ UNCHANGED c_runtime
  <2> DEFINE m == [c_maker EXCEPT !.pc = "undo"]
  <2>1. m \in Makers /\ m.pc = "undo" /\ m.made = c_maker.made /\ m.snapshot = c_maker.snapshot
    BY <1>2, <1>a, OfTheMaker DEF Makers
  <2>2. c_maker' = m
    BY <1>2, <1>a DEF C!Make
  <2> HIDE DEF m
  <2>4. MakerHolds'
    BY <1>2, <1>a, <2>1, <2>2, OfTheMaker DEF MakerHolds
  <2>5. UndisturbedIsOwn'
    BY <1>2, <1>a, <2>1, <2>2, OfTheMaker DEF UndisturbedIsOwn
  <2>6. ToldIsGone'
    BY <1>2, <1>a, OfTheMaker DEF ToldIsGone
  <2> QED BY <1>2, <1>a, <2>1, <2>2, <2>4, <2>5, <2>6, OfTheMaker, MakerMoves
<1> QED BY <1>1, <1>2 DEF C!Copy

\* The record is published when everything was copied and holds.
LEMMA PublishRecordKeeps ==
  ASSUME RuntimeInv, C!PublishRecord
  PROVE  RuntimeInv'
<1>a. /\ c_maker.pc = "copy" /\ c_record = C!NoSnapshot /\ c_marker = "building" /\ c_lock = "maker"
      /\ c_maker.made = Files
      /\ UNCHANGED <<c_candidate, c_tool, c_runtime, c_marker, c_receipt, c_lock, c_user,
                     c_mishaps>>
  BY OfTheMaker DEF C!PublishRecord, MakerHolds
<1>1. CASE C!Holds /\ c_record' = c_maker.snapshot /\ C!Make("activate")
  <2>a. c_record' \in C!NoSnapshot..MaxMishaps /\ c_record' # C!NoSnapshot
    BY <1>1, RuntimeFacts, EvidenceAssumption, UsersAssumption DEF C!Holds, C!InputsAre, Makers
  <2> DEFINE m == [c_maker EXCEPT !.pc = "activate"]
  <2>1. m \in Makers /\ m.pc = "activate" /\ m.made = Files /\ m.snapshot = c_maker.snapshot
    BY <1>1, <2>a, <1>a, OfTheMaker DEF Makers
  <2>2. c_maker' = m
    BY <1>1, <2>a, <1>a DEF C!Make
  <2> HIDE DEF m
  <2>4. MakerHolds'
    BY <1>1, <2>a, <1>a, <2>1, <2>2, OfTheMaker DEF MakerHolds
  <2>5. UndisturbedIsOwn'
    BY <1>1, <2>a, <1>a, <2>1, <2>2, OfTheMaker DEF UndisturbedIsOwn
  <2>6. ToldIsGone'
    BY <1>1, <2>a, <1>a, OfTheMaker DEF ToldIsGone
  <2> QED BY <1>1, <2>a, <1>a, <2>1, <2>2, <2>4, <2>5, <2>6, OfTheMaker, MakerMoves
<1>2. CASE C!Make("undo") /\ UNCHANGED c_record
  <2> DEFINE m == [c_maker EXCEPT !.pc = "undo"]
  <2>1. m \in Makers /\ m.pc = "undo" /\ m.made = Files /\ m.snapshot = c_maker.snapshot
    BY <1>2, <1>a, OfTheMaker DEF Makers
  <2>2. c_maker' = m
    BY <1>2, <1>a DEF C!Make
  <2> HIDE DEF m
  <2>4. MakerHolds'
    BY <1>2, <1>a, <2>1, <2>2, OfTheMaker DEF MakerHolds
  <2>5. UndisturbedIsOwn'
    BY <1>2, <1>a, <2>1, <2>2, OfTheMaker DEF UndisturbedIsOwn
  <2>6. ToldIsGone'
    BY <1>2, <1>a, OfTheMaker DEF ToldIsGone
  <2> QED BY <1>2, <1>a, <2>1, <2>2, <2>4, <2>5, <2>6, OfTheMaker, MakerMoves
<1> QED BY <1>1, <1>2 DEF C!PublishRecord

\* The marker is made active.
LEMMA ActivateKeeps ==
  ASSUME RuntimeInv, C!Activate
  PROVE  RuntimeInv'
<1>a. /\ c_maker.pc = "activate" /\ c_record # C!NoSnapshot /\ c_marker = "building" /\ c_lock = "maker"
      /\ c_maker.made = Files /\ c_marker' = "active" /\ C!Make("check")
      /\ UNCHANGED <<c_candidate, c_tool, c_runtime, c_record, c_receipt, c_lock, c_user,
                     c_mishaps>>
  BY OfTheMaker DEF C!Activate, MakerHolds
<1> DEFINE m == [c_maker EXCEPT !.pc = "check"]
<1>1. m \in Makers /\ m.pc = "check" /\ m.made = Files /\ m.snapshot = c_maker.snapshot
  BY <1>a, OfTheMaker DEF Makers
<1>2. c_maker' = m
  BY <1>a DEF C!Make
<1> HIDE DEF m
<1>4. MakerHolds'
  BY <1>a, <1>1, <1>2, OfTheMaker DEF MakerHolds
<1>5. UndisturbedIsOwn'
  BY <1>a, <1>1, <1>2, OfTheMaker DEF UndisturbedIsOwn
<1>6. ToldIsGone'
  BY <1>a, OfTheMaker DEF ToldIsGone
<1> QED BY <1>a, <1>1, <1>2, <1>4, <1>5, <1>6, OfTheMaker, MakerMoves

\* The last look: done, or undone.
LEMMA LastCheckKeeps ==
  ASSUME RuntimeInv, C!LastCheck
  PROVE  RuntimeInv'
<1>a. /\ c_maker.pc = "check" /\ c_record # C!NoSnapshot /\ c_marker = "active" /\ c_lock = "maker"
      /\ c_maker.made = Files
      /\ UNCHANGED <<c_candidate, c_tool, c_runtime, c_marker, c_record, c_receipt, c_user,
                     c_mishaps>>
  BY OfTheMaker DEF C!LastCheck, MakerHolds
<1>1. CASE C!Make("done") /\ c_lock' = C!None
  <2> DEFINE m == [c_maker EXCEPT !.pc = "done"]
  <2>1. m \in Makers /\ m.pc = "done" /\ m.made = Files /\ m.snapshot = c_maker.snapshot
    BY <1>1, <1>a, OfTheMaker DEF Makers
  <2>2. c_maker' = m
    BY <1>1, <1>a DEF C!Make
  <2> HIDE DEF m
  <2>4. MakerHolds'
    BY <1>1, <1>a, <2>1, <2>2, OfTheMaker DEF MakerHolds
  <2>5. UndisturbedIsOwn'
    BY <1>1, <1>a, <2>1, <2>2, OfTheMaker DEF UndisturbedIsOwn
  <2>6. ToldIsGone'
    BY <1>1, <1>a, OfTheMaker DEF ToldIsGone
  <2> QED BY <1>1, <1>a, <2>1, <2>2, <2>4, <2>5, <2>6, OfTheMaker, MakerMoves
<1>2. CASE C!Make("undo") /\ UNCHANGED c_lock
  <2> DEFINE m == [c_maker EXCEPT !.pc = "undo"]
  <2>1. m \in Makers /\ m.pc = "undo" /\ m.made = Files /\ m.snapshot = c_maker.snapshot
    BY <1>2, <1>a, OfTheMaker DEF Makers
  <2>2. c_maker' = m
    BY <1>2, <1>a DEF C!Make
  <2> HIDE DEF m
  <2>4. MakerHolds'
    BY <1>2, <1>a, <2>1, <2>2, OfTheMaker DEF MakerHolds
  <2>5. UndisturbedIsOwn'
    BY <1>2, <1>a, <2>1, <2>2, OfTheMaker DEF UndisturbedIsOwn
  <2>6. ToldIsGone'
    BY <1>2, <1>a, OfTheMaker DEF ToldIsGone
  <2> QED BY <1>2, <1>a, <2>1, <2>2, <2>4, <2>5, <2>6, OfTheMaker, MakerMoves
<1> QED BY <1>1, <1>2 DEF C!LastCheck

\* A failed materialization removes what it made, unless it is not that any more.
LEMMA UndoKeeps ==
  ASSUME RuntimeInv, C!Undo
  PROVE  RuntimeInv'
<1>a. /\ c_maker.pc = "undo" /\ c_lock = "maker"
      /\ \/ c_record = C!NoSnapshot /\ c_marker = "building" /\ c_marker' = "building"
         \/ c_record # C!NoSnapshot /\ c_marker = "active" /\ c_marker' = "cleaning"
      /\ UNCHANGED <<c_candidate, c_tool, c_runtime, c_record, c_user, c_mishaps>>
  BY OfTheMaker DEF C!Undo, MakerHolds
<1>1. CASE C!Make("remove") /\ UNCHANGED <<c_receipt, c_lock>>
  <2> DEFINE m == [c_maker EXCEPT !.pc = "remove"]
  <2>1. m \in Makers /\ m.pc = "remove" /\ m.made = c_maker.made /\ m.snapshot = c_maker.snapshot
    BY <1>1, <1>a, OfTheMaker DEF Makers
  <2>2. c_maker' = m
    BY <1>1, <1>a DEF C!Make
  <2> HIDE DEF m
  <2>4. MakerHolds'
    BY <1>1, <1>a, <2>1, <2>2, OfTheMaker DEF MakerHolds
  <2>5. UndisturbedIsOwn'
    BY <1>1, <1>a, <2>1, <2>2, OfTheMaker DEF UndisturbedIsOwn
  <2>6. ToldIsGone'
    BY <1>1, <1>a, OfTheMaker DEF ToldIsGone
  <2> QED BY <1>1, <1>a, <2>1, <2>2, <2>4, <2>5, <2>6, OfTheMaker, MakerMoves
<1>2. CASE /\ c_runtime.extra \/ \E f \in Files : c_runtime.file[f] # (IF f \in c_maker.made THEN "own" ELSE C!None)
          /\ c_receipt' = "failed" /\ C!Make("failed") /\ c_lock' = C!None
  <2>a. c_runtime.disturbed
    BY <1>2, <1>a, OfTheMaker DEF UndisturbedIsOwn
  <2> DEFINE m == [c_maker EXCEPT !.pc = "failed"]
  <2>1. m \in Makers /\ m.pc = "failed" /\ m.made = c_maker.made /\ m.snapshot = c_maker.snapshot
    BY <1>2, <2>a, <1>a, OfTheMaker DEF Makers
  <2>2. c_maker' = m
    BY <1>2, <2>a, <1>a DEF C!Make
  <2> HIDE DEF m
  <2>4. MakerHolds'
    BY <1>2, <2>a, <1>a, <2>1, <2>2, OfTheMaker DEF MakerHolds
  <2>5. UndisturbedIsOwn'
    BY <1>2, <2>a, <1>a, <2>1, <2>2, OfTheMaker DEF UndisturbedIsOwn
  <2>6. ToldIsGone'
    BY <1>2, <2>a, <1>a, OfTheMaker DEF ToldIsGone
  <2> QED BY <1>2, <2>a, <1>a, <2>1, <2>2, <2>4, <2>5, <2>6, OfTheMaker, MakerMoves
<1> QED BY <1>1, <1>2 DEF C!Undo

\* The maker removes its files, and stops at one that is not its own.
LEMMA MakerRemovesKeeps ==
  ASSUME RuntimeInv, C!MakerRemoves
  PROVE  RuntimeInv'
<1>a. /\ c_maker.pc = "remove" /\ c_lock = "maker"
      /\ \/ c_record = C!NoSnapshot /\ c_marker = "building"
         \/ c_record # C!NoSnapshot /\ c_marker = "cleaning"
      /\ UNCHANGED <<c_candidate, c_tool, c_record, c_user, c_mishaps>>
  BY OfTheMaker DEF C!MakerRemoves, MakerHolds
<1>1. CASE (\E f \in Files : C!RemoveFile(f)) /\ UNCHANGED <<c_marker, c_receipt, c_lock,
                                                             c_maker>>
  <2>1. PICK f \in Files : c_runtime' = [c_runtime EXCEPT !.file[f] = C!None]
    BY <1>1 DEF C!RemoveFile
  <2>2. /\ c_runtime' \in [root : BOOLEAN, file : [Files -> C!FileStates], extra : BOOLEAN,
                         disturbed : BOOLEAN]
        /\ c_runtime'.root = c_runtime.root /\ c_runtime'.disturbed = c_runtime.disturbed
        /\ c_runtime'.extra = c_runtime.extra
        /\ \A g \in Files : c_runtime'.file[g] \in {c_runtime.file[g], C!None}
    BY <2>1, OfTheMaker DEF C!FileStates
  <2>3. MakerHolds'
    BY <1>1, <1>a, <2>2, OfTheMaker DEF MakerHolds
  <2>4. UndisturbedIsOwn'
    BY <1>1, <1>a, <2>2, OfTheMaker DEF UndisturbedIsOwn
  <2>5. ToldIsGone'
    BY <1>1, <1>a, <2>2, OfTheMaker DEF ToldIsGone
  <2> QED BY <1>1, <1>a, <2>2, <2>3, <2>4, <2>5, OfTheMaker, MakerMoves
<1>2. CASE /\ C!RemovalBlocked /\ c_receipt' = "failed" /\ c_lock' = C!None /\ C!Make("failed")
          /\ UNCHANGED <<c_runtime, c_marker>>
  <2>a. c_runtime.disturbed
    BY <1>2, <1>a, OfTheMaker DEF UndisturbedIsOwn, C!RemovalBlocked, C!Present, C!MayDelete
  <2> DEFINE m == [c_maker EXCEPT !.pc = "failed"]
  <2>1. m \in Makers /\ m.pc = "failed" /\ m.made = c_maker.made /\ m.snapshot = c_maker.snapshot
    BY <1>2, <2>a, <1>a, OfTheMaker DEF Makers
  <2>2. c_maker' = m
    BY <1>2, <2>a, <1>a DEF C!Make
  <2> HIDE DEF m
  <2>4. MakerHolds'
    BY <1>2, <2>a, <1>a, <2>1, <2>2, OfTheMaker DEF MakerHolds
  <2>5. UndisturbedIsOwn'
    BY <1>2, <2>a, <1>a, <2>1, <2>2, OfTheMaker DEF UndisturbedIsOwn
  <2>6. ToldIsGone'
    BY <1>2, <2>a, <1>a, OfTheMaker DEF ToldIsGone
  <2> QED BY <1>2, <2>a, <1>a, <2>1, <2>2, <2>4, <2>5, <2>6, OfTheMaker, MakerMoves
<1>3. CASE /\ c_runtime' = C!Absent /\ c_receipt' = "completed" /\ c_lock' = C!None /\ C!Make("failed")
          /\ c_marker' = IF c_record # C!NoSnapshot THEN "cleaned" ELSE c_marker
  <2>a. /\ c_runtime' \in [root : BOOLEAN, file : [Files -> C!FileStates], extra : BOOLEAN,
                         disturbed : BOOLEAN]
        /\ ~c_runtime'.root /\ ~c_runtime'.extra /\ \A f \in Files : c_runtime'.file[f] = C!None
        /\ c_marker' \in {"building", "cleaned"} /\ (c_marker' = "cleaned" => c_record # C!NoSnapshot)
    BY <1>3, <1>a DEF C!Absent, C!FileStates
  <2> DEFINE m == [c_maker EXCEPT !.pc = "failed"]
  <2>1. m \in Makers /\ m.pc = "failed" /\ m.made = c_maker.made /\ m.snapshot = c_maker.snapshot
    BY <1>3, <2>a, <1>a, OfTheMaker DEF Makers
  <2>2. c_maker' = m
    BY <1>3, <2>a, <1>a DEF C!Make
  <2> HIDE DEF m
  <2>4. MakerHolds'
    BY <1>3, <2>a, <1>a, <2>1, <2>2, OfTheMaker DEF MakerHolds
  <2>5. UndisturbedIsOwn'
    BY <1>3, <2>a, <1>a, <2>1, <2>2, OfTheMaker DEF UndisturbedIsOwn
  <2>6. ToldIsGone'
    BY <1>3, <2>a, <1>a, OfTheMaker DEF ToldIsGone
  <2> QED BY <1>3, <2>a, <1>a, <2>1, <2>2, <2>4, <2>5, <2>6, OfTheMaker, MakerMoves
<1> QED
  <2>1. c_maker.made \subseteq Files
    BY OfTheMaker DEF Makers
  <2> QED BY <1>1, <1>2, <1>3, <2>1 DEF C!MakerRemoves, C!RemoveRoot

\* A maker that is killed loses its lock and leaves the rest as it is.
LEMMA KillMakerKeeps ==
  ASSUME RuntimeInv, C!KillMaker
  PROVE  RuntimeInv'
<1>a. /\ c_maker.pc \notin {"start", "done", "failed", "killed"} /\ C!Make("killed")
      /\ c_lock \in {"maker", C!None} /\ c_lock' = C!None
      /\ c_mishaps' = c_mishaps + 1 /\ c_mishaps' \in 0..MaxMishaps /\ c_mishaps' >= c_mishaps
      /\ UNCHANGED <<c_candidate, c_tool, c_runtime, c_marker, c_record, c_receipt, c_user>>
  <2>1. c_lock \in {"maker", C!None}
    BY OfTheMaker DEF C!KillMaker, MakerHolds, Makers
  <2> QED BY <2>1, OfTheMaker, EvidenceAssumption, UsersAssumption DEF C!KillMaker, C!Mishap
<1> DEFINE m == [c_maker EXCEPT !.pc = "killed"]
<1>1. m \in Makers /\ m.pc = "killed" /\ m.made = c_maker.made /\ m.snapshot = c_maker.snapshot
  BY <1>a, OfTheMaker DEF Makers
<1>2. c_maker' = m
  BY <1>a DEF C!Make
<1> HIDE DEF m
<1>4. MakerHolds'
  BY <1>a, <1>1, <1>2, OfTheMaker DEF MakerHolds
<1>5. UndisturbedIsOwn'
  BY <1>a, <1>1, <1>2, OfTheMaker DEF UndisturbedIsOwn
<1>6. ToldIsGone'
  BY <1>a, OfTheMaker DEF ToldIsGone
<1> QED BY <1>a, <1>1, <1>2, <1>4, <1>5, <1>6, OfTheMaker, MakerMoves

-----------------------------------------------------------------------------
(* What others write.                                                      *)

\* The checkout and the sources of the verifier are what nothing in the invariant rests on.
LEMMA TheWorldMoves ==
  ASSUME RuntimeInv, C!Edit \/ C!UpdateTool
  PROVE  RuntimeInv'
<1>1. /\ c_mishaps' \in 0..MaxMishaps /\ c_mishaps' = c_mishaps + 1 /\ c_tool' \in 0..1
      /\ c_candidate' \in [frozen : BOOLEAN, snapshot : 0..MaxMishaps]
      /\ c_candidate'.snapshot <= c_mishaps'
      /\ UNCHANGED <<c_runtime, c_marker, c_record, c_receipt, c_lock, c_maker, c_user>>
  <2>1. c_mishaps' \in 0..MaxMishaps /\ c_mishaps' = c_mishaps + 1
    BY RuntimeFacts, EvidenceAssumption, UsersAssumption DEF C!Edit, C!UpdateTool, C!Mishap
  <2>2. c_candidate.snapshot + 1 \in 0..MaxMishaps /\ c_candidate.snapshot + 1 <= c_mishaps'
    BY <2>1, RuntimeFacts, EvidenceAssumption, UsersAssumption
  <2>3. CASE C!Edit
    BY <2>1, <2>2, <2>3, RuntimeFacts DEF C!Edit
  <2>4. CASE C!UpdateTool
    <3>1. c_candidate.snapshot <= c_mishaps'
      BY <2>1, RuntimeFacts, EvidenceAssumption, UsersAssumption
    <3> QED BY <2>1, <2>4, <3>1, RuntimeFacts DEF C!UpdateTool
  <2> QED BY <2>3, <2>4
<1>2. RuntimeTyped'
  BY <1>1 DEF RuntimeInv, RuntimeTyped, C!TypeOK
<1>3. MakerHolds' /\ UndisturbedIsOwn' /\ ToldIsGone'
  BY <1>1 DEF RuntimeInv, MakerHolds, UndisturbedIsOwn, ToldIsGone
<1>4. UsersHold'
  BY <1>1 DEF RuntimeInv, UsersHold, UserHolds, UserFits, InOrder, ManifestHolds
<1> QED BY <1>2, <1>3, <1>4 DEF RuntimeInv

\* A runtime somebody else writes into is one that was disturbed.
LEMMA TamperKeeps ==
  ASSUME RuntimeInv, C!Tamper
  PROVE  RuntimeInv'
<1>1. /\ c_mishaps' \in 0..MaxMishaps /\ c_mishaps' = c_mishaps + 1 /\ c_runtime.root
      /\ UNCHANGED <<c_candidate, c_tool, c_marker, c_record, c_receipt, c_lock, c_maker, c_user>>
  <2>1. /\ c_mishaps < MaxMishaps /\ c_mishaps' = c_mishaps + 1 /\ c_runtime.root
        /\ UNCHANGED <<c_candidate, c_tool, c_marker, c_record, c_receipt, c_lock, c_maker,
                       c_user>>
    BY DEF C!Tamper, C!Mishap
  <2> QED BY <2>1, RuntimeFacts, EvidenceAssumption, UsersAssumption
<1>2. /\ c_runtime' \in [root : BOOLEAN, file : [Files -> C!FileStates], extra : BOOLEAN,
                       disturbed : BOOLEAN]
      /\ c_runtime'.root = c_runtime.root /\ c_runtime'.disturbed
  <2>1. ASSUME NEW f \in Files, NEW s \in C!FileStates,
               c_runtime' = [c_runtime EXCEPT !.file[f] = s, !.disturbed = TRUE]
        PROVE  /\ c_runtime' \in [root : BOOLEAN, file : [Files -> C!FileStates], extra : BOOLEAN,
                               disturbed : BOOLEAN]
              /\ c_runtime'.root = c_runtime.root /\ c_runtime'.disturbed
    BY <2>1, RuntimeFacts
  <2>2. CASE c_runtime' = [c_runtime EXCEPT !.extra = TRUE, !.disturbed = TRUE]
    BY <2>2, RuntimeFacts
  <2> QED BY <2>1, <2>2 DEF C!Tamper, C!FileStates
<1>3. RuntimeTyped'
  <2>1. c_candidate.snapshot <= c_mishaps'
    BY <1>1, RuntimeFacts, EvidenceAssumption, UsersAssumption
  <2> QED BY <1>1, <1>2, <2>1 DEF RuntimeInv, RuntimeTyped, C!TypeOK
<1>4. MakerHolds'
  <2>1. c_maker.pc # "start"
    BY <1>1, OfTheMaker DEF MakerHolds, C!Absent
  <2> QED BY <1>1, <1>2, <2>1, OfTheMaker DEF MakerHolds
<1>5. UndisturbedIsOwn' /\ ToldIsGone'
  BY <1>1, <1>2, OfTheMaker DEF UndisturbedIsOwn, ToldIsGone
<1>6. UsersHold'
  BY <1>1, <1>2 DEF RuntimeInv, UsersHold, UserHolds, UserFits, InOrder, ManifestHolds
<1> QED BY <1>3, <1>4, <1>5, <1>6 DEF RuntimeInv

-----------------------------------------------------------------------------
(* The theorems.                                                           *)

\* The invariant holds at the start.
LEMMA RuntimeStarts == C!Init => RuntimeInv
<1> SUFFICES ASSUME C!Init PROVE RuntimeInv
  OBVIOUS
<1> USE DEF C!Init
<1>1. C!NoSnapshot \in C!NoSnapshot..MaxMishaps /\ 0 \in 0..MaxMishaps /\ C!NoSnapshot = 0 - 1
  BY EvidenceAssumption, UsersAssumption DEF C!NoSnapshot
<1>2. C!NoManifest \in Manifests /\ C!Idle \in UserStates
  <2>1. C!NoManifest \in Manifests
    BY <1>1 DEF C!NoManifest, Manifests
  <2> QED BY <1>1, <2>1 DEF C!Idle, UserStates
<1>3. RuntimeTyped
  <2>1. \A u \in C!Users : c_user[u].group \in 1..2 /\ c_user[u].cleanup \in {"completed", "failed"}
    BY DEF C!Idle
  <2>2. /\ c_maker \in Makers /\ c_maker.made = {}
        /\ c_runtime \in [root : BOOLEAN, file : [Files -> C!FileStates], extra : BOOLEAN,
                        disturbed : BOOLEAN]
    BY <1>1 DEF Makers, C!Absent, C!FileStates
  <2>3. c_candidate \in [frozen : BOOLEAN, snapshot : 0..MaxMishaps] /\ c_candidate.snapshot = 0
    BY <1>1
  <2> QED BY <1>1, <1>2, <2>1, <2>2, <2>3 DEF RuntimeTyped, C!TypeOK
<1>4. MakerHolds
  BY DEF MakerHolds, C!None
<1>5. UndisturbedIsOwn /\ ToldIsGone
  BY DEF UndisturbedIsOwn, ToldIsGone, C!Absent, C!None
<1>6. UsersHold
  <2> SUFFICES ASSUME NEW u \in C!Users
               PROVE  /\ UserHolds(u, C!Idle) /\ InOrder(C!Idle) /\ ManifestHolds(C!Idle)
    BY DEF UsersHold
  <2>1. u # C!None
    BY EvidenceAssumption, UsersAssumption
  <2> QED BY <2>1 DEF UserHolds, UserFits, InOrder, ManifestHolds, Holding, C!Idle, C!NoManifest,
         C!None
<1> QED BY <1>3, <1>4, <1>5, <1>6 DEF RuntimeInv

\* The invariant is kept by every step.
LEMMA RuntimeIsKept == RuntimeInv /\ [C!Next]_C!vars => RuntimeInv'
<1> SUFFICES ASSUME RuntimeInv, [C!Next]_C!vars PROVE RuntimeInv'
  OBVIOUS
<1>1. CASE C!Making
  BY <1>1, MakeRootKeeps, MakeRefusedKeeps, MakeMarkerKeeps, CopyKeeps, PublishRecordKeeps,
     ActivateKeeps, LastCheckKeeps, UndoKeeps, MakerRemovesKeeps DEF C!Making
<1>2. ASSUME NEW u \in C!Users, C!Cleaning(u) PROVE RuntimeInv'
  BY <1>2, CleanupRefusedKeeps, CleanupDoneKeeps, CleanupFailedKeeps, CleanupBeginsKeeps,
     RemoveKeeps, WriteCleanedKeeps DEF C!Cleaning
<1>3. ASSUME NEW u \in C!Users, C!Verifying(u) PROVE RuntimeInv'
  BY <1>3, BeginKeeps, InputsKeeps, LockToReadKeeps, ReadBusyKeeps, ReadFirstKeeps,
     ScanRefusedKeeps, BoundaryKeeps, CopyGroupKeeps, ToolsRefusedKeeps, CommandsKeeps,
     CloseGroupKeeps, CheckAfterKeeps, ReadAfterKeeps, PublishVerificationKeeps DEF C!Verifying
<1>4. CASE C!Mishaps
  BY <1>4, KillMakerKeeps, KillKeeps, TheWorldMoves, TamperKeeps DEF C!Mishaps
<1>5. CASE UNCHANGED C!vars
  <2>1. UNCHANGED <<c_candidate, c_tool, c_runtime, c_marker, c_record, c_receipt, c_lock,
                    c_maker, c_user, c_mishaps>>
    BY <1>5 DEF C!vars
  <2> QED BY <2>1 DEF RuntimeInv, RuntimeTyped, C!TypeOK, MakerHolds, UndisturbedIsOwn,
     ToldIsGone, UsersHold, UserHolds, UserFits, InOrder, ManifestHolds
<1> QED BY <1>1, <1>2, <1>3, <1>4, <1>5 DEF C!Next

\* What the runs check follows from the invariant.
LEMMA RuntimeInvIsEnough ==
  RuntimeInv => C!TypeOK /\ C!CleanedMeansGone /\ C!RestIsCleanable /\ C!PassedIsFrozen
<1> SUFFICES ASSUME RuntimeInv
             PROVE  C!TypeOK /\ C!CleanedMeansGone /\ C!RestIsCleanable /\ C!PassedIsFrozen
  OBVIOUS
<1>1. C!TypeOK
  BY DEF RuntimeInv, RuntimeTyped
<1>a. \A u \in Verifiers : ManifestHolds(c_user[u])
  BY DEF RuntimeInv, UsersHold, C!Users
<1>2. C!CleanedMeansGone
  BY <1>a DEF RuntimeInv, ManifestHolds, ToldIsGone, C!CleanedMeansGone
<1>3. C!PassedIsFrozen
  BY <1>a DEF ManifestHolds, C!PassedIsFrozen
<1>4. C!RestIsCleanable
  <2> SUFFICES ASSUME c_lock = C!None, c_runtime.root, ~c_runtime.disturbed
               PROVE  \/ c_record # C!NoSnapshot /\ c_marker \in {"active", "cleaning"} /\ C!MayResume(c_marker)
                      \/ c_maker.pc = "killed" /\ c_marker \in {C!None, "empty", "building"}
                      \/ c_maker.pc = "marker"
    BY DEF C!RestIsCleanable
  <2>1. c_marker \in {C!None, "empty", "building", "active", "cleaning"}
    BY OfTheMaker DEF ToldIsGone
  <2>2. c_maker.pc \in {"marker", "done", "killed"}
    BY OfTheMaker DEF MakerHolds, Makers, C!Absent
  <2>3. CASE c_marker \in {"active", "cleaning"}
    <3>1. c_record # C!NoSnapshot
      BY <2>3, OfTheMaker DEF MakerHolds
    <3>2. C!MayResume(c_marker)
      BY <2>3, OfTheMaker DEF UndisturbedIsOwn, C!MayResume, C!TreeHolds
    <3> QED BY <2>3, <3>1, <3>2
  <2>4. CASE c_marker \in {C!None, "empty", "building"}
    <3>1. c_maker.pc # "done"
      BY <2>4, OfTheMaker DEF MakerHolds
    <3> QED BY <2>2, <2>4, <3>1
  <2> QED BY <2>1, <2>3, <2>4
<1> QED BY <1>1, <1>2, <1>3, <1>4

\* The runtime of a verification, for any files and processes and any number of mishaps:
\* the types, and the named parts of CandidateRuntime.
THEOREM RuntimeHolds ==
  C!Spec => [](C!TypeOK /\ C!CleanedMeansGone /\ C!RestIsCleanable /\ C!PassedIsFrozen)
<1> QED BY RuntimeStarts, RuntimeIsKept, RuntimeInvIsEnough, PTL DEF C!Spec

\* What one step may not do to the runtime.
OwnRemoved ==
  c_mishaps' = c_mishaps =>
    /\ \A f \in Files : c_runtime.file[f] \in {"altered", "foreign"} => c_runtime'.file[f] = c_runtime.file[f]
    /\ c_runtime.extra => c_runtime'.extra

\* A file that is removed is the recorded one, and a root that is removed is empty.
LEMMA RemovalsAreOfOwn ==
  ASSUME RuntimeInv, (\E f \in Files : C!RemoveFile(f)) \/ C!RemoveRoot
  PROVE  OwnRemoved
<1>1. ASSUME NEW g \in Files, C!RemoveFile(g)
      PROVE  OwnRemoved
  <2>1. /\ c_runtime.file[g] = "own" /\ c_runtime'.extra = c_runtime.extra
        /\ \A f \in Files : c_runtime'.file[f] = IF f = g THEN C!None ELSE c_runtime.file[f]
    BY <1>1, RuntimeFacts DEF C!RemoveFile, C!MayDelete
  <2> QED BY <2>1 DEF OwnRemoved
<1>2. CASE C!RemoveRoot
  <2>1. ~c_runtime.extra /\ \A f \in Files : c_runtime.file[f] = C!None
    BY <1>2 DEF C!RemoveRoot, C!Present
  <2> QED BY <2>1 DEF OwnRemoved, C!None
<1> QED BY <1>1, <1>2

\* A step of this code removes nothing that somebody else has put into the runtime.
LEMMA OnlyOwnIsRemovedByAStep == RuntimeInv /\ [C!Next]_C!vars => [OwnRemoved]_C!vars
<1> SUFFICES ASSUME RuntimeInv, [C!Next]_C!vars, c_mishaps' = c_mishaps PROVE OwnRemoved
  BY DEF OwnRemoved
<1>m. c_mishaps' # c_mishaps + 1
  BY RuntimeFacts
<1>1. CASE C!MakeRoot
  BY <1>1, RuntimeFacts DEF C!MakeRoot, OwnRemoved
<1>2. ASSUME NEW f \in Files, C!Copy(f) PROVE OwnRemoved
  <2>1. CASE UNCHANGED c_runtime
    BY <2>1 DEF OwnRemoved
  <2>2. CASE c_runtime.file[f] = C!None /\ c_runtime' = [c_runtime EXCEPT !.file[f] = "own"]
    <3>1. /\ c_runtime'.extra = c_runtime.extra
          /\ \A g \in Files : c_runtime'.file[g] = IF g = f THEN "own" ELSE c_runtime.file[g]
      BY <2>2, RuntimeFacts
    <3> QED BY <2>2, <3>1 DEF OwnRemoved, C!None
  <2> QED BY <1>2, <2>1, <2>2 DEF C!Copy
<1>3. CASE C!MakerRemoves
  <2>1. CASE UNCHANGED c_runtime
    BY <2>1 DEF OwnRemoved
  <2>2. CASE \E f \in Files : C!RemoveFile(f)
    BY <2>2, RemovalsAreOfOwn
  <2>3. CASE C!RemoveRoot
    BY <2>3, RemovalsAreOfOwn
  <2> QED BY <1>3, <2>1, <2>2, <2>3, OfTheMaker DEF C!MakerRemoves, Makers
<1>4. ASSUME NEW u \in C!Users, C!Remove(u) PROVE OwnRemoved
  <2>1. CASE UNCHANGED c_runtime
    BY <2>1 DEF OwnRemoved
  <2> QED BY <1>4, <2>1, RemovalsAreOfOwn DEF C!Remove
<1>5. CASE UNCHANGED c_runtime
  BY <1>5 DEF OwnRemoved
<1>6. ASSUME NEW u \in C!Users, C!Cleaning(u) PROVE C!Remove(u) \/ UNCHANGED c_runtime
  BY <1>6 DEF C!Cleaning, C!CleanupRefused, C!CleanupDone, C!CleanupFailed, C!CleanupBegins,
       C!WriteCleaned
<1>7. ASSUME NEW u \in C!Users, C!Verifying(u) PROVE UNCHANGED c_runtime
  BY <1>7 DEF C!Verifying, C!Begin, C!Inputs, C!LockToRead, C!ReadBusy, C!ReadFirst,
       C!ScanRefused,
     C!Boundary, C!CopyGroup, C!ToolsRefused, C!Commands, C!CloseGroup, C!CheckAfter,
     C!ReadAfter, C!PublishVerification, C!Only, C!Unlocked
<1>8. CASE C!Making
  BY <1>1, <1>2, <1>3, <1>5, <1>8 DEF C!Making, C!MakeRefused, C!MakeMarker, C!PublishRecord,
     C!Activate, C!LastCheck, C!Undo
<1>9. ~C!Mishaps
  BY <1>m DEF C!Mishaps, C!KillMaker, C!Kill, C!Edit, C!UpdateTool, C!Tamper, C!Mishap
<1> QED BY <1>4, <1>5, <1>6, <1>7, <1>8, <1>9 DEF C!Next, C!vars

\* A step of this code never removes what somebody else has put into the runtime or has
\* written over.
THEOREM OnlyOwnIsEverRemoved == C!Spec => C!OnlyOwnIsRemoved
<1>1. C!Spec => [][OwnRemoved]_C!vars
  BY RuntimeStarts, RuntimeIsKept, OnlyOwnIsRemovedByAStep, PTL DEF C!Spec
<1> QED BY <1>1 DEF C!OnlyOwnIsRemoved, OwnRemoved

-----------------------------------------------------------------------------
(* The evaluator (EvaluationRun).                                          *)

\* Sets are counted as everywhere.
LEMMA SameCardinality == \A S : E!Cardinality(S) = Cardinality(S)
BY DEF E!Cardinality, Cardinality

\* The inputs and the index a run is bound to, the attempts at a trial, what is sealed, and
\* an evaluator.
Views == [inputs : 0..1, index : 0..1]
Outcomes == E!Records \cup {E!None}
Attempts == [trial : E!Trials, number : Nat \ {0}, on : BOOLEAN]
Evidences == [input : [E!Trials -> {"none", "torn", "whole"}], opened : SUBSET Attempts,
              record : [E!Trials -> Outcomes]]
Runs == [pc : E!Active \cup {"idle", "done", "failed"}, view : Views \cup {E!NoProtocol},
         todo : Seq(E!Trials), records : [E!Trials -> Outcomes], attempt : Nat,
         snapshot : {0 - 1, 0, 1}, result : Outcomes, seal : Evidences \cup {<<>>}]

\* The files and the evaluators have their types.
RunTyped ==
  /\ e_world \in [candidate : 0..1, inputs : 0..1, index : 0..1]
  /\ e_protocol \in Views \cup {E!NoProtocol}
  /\ e_group \in [HeldOut -> {"none", "bare", "whole"}]
  /\ e_input \in [E!Trials -> {"none", "torn", "whole"}]
  /\ e_opened \in SUBSET Attempts /\ e_orphans \in SUBSET Attempts
  /\ e_record \in [E!Trials -> Outcomes]
  /\ e_run \in [Evaluators -> Runs]
  /\ e_edited \in BOOLEAN /\ e_overlap \in BOOLEAN

\* Where an evaluator has the order of the trials, where it is at one, and where it has
\* found that the trial is not recorded.
Looping == {"trial", "group", "cases", "exists", "write", "scan", "launch", "host", "validate",
            "record", "next", "publish"}
InTrial == {"group", "cases", "exists", "write", "scan", "launch", "host", "validate", "record", "next"}
Recording == {"write", "scan", "launch", "host", "validate", "record"}

\* What an evaluator knows: the protocol it published or found; of every approved trial, the
\* record that is on disk, or that the trial is still to come; and the record of its trial.
KnowsTheRecords(r) ==
  /\ r.pc \in E!Active => r.view \in Views
  /\ r.pc \in E!Active \ {"protocol"} => r.view = e_protocol
  /\ \A t \in E!Trials : r.records[t] # E!None => r.records[t] = e_record[t]
  /\ r.pc \in Looping =>
       /\ r.todo \in Seq(E!Expected(r.view.inputs))
       /\ \A t \in E!Expected(r.view.inputs) : r.records[t] # E!None \/ t \in E!ToSet(r.todo)
  /\ r.pc \in InTrial => r.todo # <<>>
  /\ r.pc \in {"validate", "record"} => r.result \in E!Records
  /\ r.pc = "next" => r.result \in E!Records /\ r.result = e_record[Head(r.todo)]
  /\ r.pc = "publish" => r.todo = <<>> /\ E!OneSnapshot(r.records)

\* The attempts before the one it means to open are open; the one its host works on goes on,
\* and is nobody else's.
KnowsItsAttempt(r) ==
  /\ r.pc = "launch" => r.attempt # 0 /\ 1 .. r.attempt - 1 \subseteq E!Numbers(Head(r.todo))
  /\ r.pc = "host" =>
       [trial |-> Head(r.todo), number |-> r.attempt, on |-> TRUE] \in e_opened \ e_orphans

\* Without an overlap nothing changes behind its back.
IsAlone(r) ==
  ~e_overlap /\ r.pc \in E!Active =>
    /\ e_orphans = {}
    /\ e_bundle # E!NoBundle => r.pc \in {"protocol", "bundle", "check"}
    /\ r.pc \in Recording => e_record[Head(r.todo)] = E!None
    /\ r.pc = "launch" => r.attempt \notin E!Numbers(Head(r.todo))
    /\ r.pc = "publish" => r.seal = E!Evidence

\* As long as nobody changes anything, it is about the first version.
FirstView == [inputs |-> 0, index |-> 0]
IsOfTheFirst(r) ==
  ~e_edited => /\ r.pc \in E!Active => r.view = FirstView
               /\ r.snapshot # 1 /\ r.result.snapshot = 0

EvaluatorHolds(r) == KnowsTheRecords(r) /\ KnowsItsAttempt(r) /\ IsAlone(r) /\ IsOfTheFirst(r)

EvaluatorsHold == \A e \in Evaluators : EvaluatorHolds(e_run[e])

\* Two evaluators have no attempt in common, and without an overlap one of them rests.
Apart ==
  \A e, f \in Evaluators :
    e # f =>
      /\ e_run[e].pc = "host" /\ e_run[f].pc = "host" =>
           E!Trial(e) # E!Trial(f) \/ e_run[e].attempt # e_run[f].attempt
      /\ e_run[e].pc \in E!Active /\ e_run[f].pc \in E!Active => e_overlap

\* Only approved trials are recorded.
RecordsFit ==
  \A t \in E!Trials : e_record[t] # E!None => e_protocol # E!NoProtocol /\ t \in E!Expected(e_protocol.inputs)

\* The partial result is about the protocol.
PartialFits == (e_partial # E!NoPartial => e_protocol # E!NoProtocol) /\ E!PartialNeverOverstates

\* The bundle is of a protocol.
BundleFits == (e_bundle # E!NoBundle => e_protocol \in Views) /\ E!BundleIsTheRecords

\* The attempts at a trial are numbered one after the other, and an orphan goes on.
AttemptsFit ==
  /\ e_orphans \subseteq {a \in e_opened : a.on}
  /\ \A t \in E!Trials : \E n \in Nat : E!Numbers(t) = 1..n

\* Without an overlap the seal is over what is there.
SealHolds == e_bundle # E!NoBundle /\ ~e_overlap => e_orphans = {} /\ e_bundle.seal = E!Evidence

\* As long as nobody changes anything, what is on disk is of the first version.
FirstVersion ==
  ~e_edited => /\ e_world = [candidate |-> 0, inputs |-> 0, index |-> 0]
               /\ e_protocol \in {E!NoProtocol, FirstView}
               /\ \A t \in E!Trials : e_record[t].snapshot = 0

\* The input an evaluator was refused for stays torn: nobody is about to write it.
TornForGood(t) ==
  e_input[t] = "torn" /\ \A f \in Evaluators : e_run[f].pc = "write" => E!Trial(f) # t

\* So does the group without its `cases`: nobody is about to make them.
BareForGood(c) ==
  e_group[c] = "bare" /\ \A f \in Evaluators : e_run[f].pc = "cases" => E!Trial(f)[1] # c

Caused == (\E t \in E!Trials : TornForGood(t)) \/ \E c \in HeldOut : BareForGood(c)

FailedForCause ==
  \A e \in Evaluators :
    e_run[e].pc = "failed" /\ ~e_edited /\ ~e_overlap /\ Approved[0] # <<>> => Caused

\* Without an overlap an evaluator that has read the groups meets none without its `cases`
\* but the one it is making.
GroupsFit ==
  ~e_overlap =>
    \A e \in Evaluators, c \in HeldOut :
      e_run[e].pc \in Looping /\ e_group[c] = "bare" => e_run[e].pc = "cases" /\ E!Trial(e)[1] = c

\* The inductive invariant: what the files are, and what every evaluator knows of them.
FilesHold ==
  /\ RecordsFit /\ BundleFits /\ PartialFits /\ AttemptsFit /\ SealHolds
  /\ FirstVersion

RunInv == RunTyped /\ EvaluatorsHold /\ Apart /\ FilesHold /\ FailedForCause /\ GroupsFit

-----------------------------------------------------------------------------
(* Trials, orders and partial results.                                     *)

\* There are two modes, and every second case runs them in the other order.
LEMMA TwoModes ==
  /\ E!ToSet(E!Modes) = {"all_tools", "stateful"}
  /\ \A i \in Nat : E!ModesOf(i) = IF i % 2 = 1 THEN <<"all_tools", "stateful">>
                                   ELSE <<"stateful", "all_tools">>
<1>1. Len(E!Modes) = 2
  BY DEF E!Modes
<1>2. E!ToSet(E!Modes) = {"all_tools", "stateful"}
  BY DEF E!Modes, E!ToSet
<1>3. E!Reverse(E!Modes) = [i \in 1..2 |-> E!Modes[(2 - i) + 1]]
  BY <1>1 DEF E!Reverse
<1>4. E!Reverse(E!Modes) = <<"stateful", "all_tools">>
  BY <1>3 DEF E!Modes
<1> QED BY <1>2, <1>4 DEF E!ModesOf, E!Modes

\* The approved cases are finitely many held-out cases, and their trials are trials.
LEMMA ApprovedAreHeldOut ==
  ASSUME NEW v \in 0..1
  PROVE  /\ Approved[v] \in Seq(HeldOut)
         /\ IsFiniteSet(E!Included(v)) /\ E!Included(v) \subseteq HeldOut
         /\ E!Expected(v) \subseteq E!Trials
         /\ (Approved[v] = <<>> <=> E!Included(v) = {})
<1>1. Approved[v] \in Seq(HeldOut)
  BY EvaluationAssumption
<1> DEFINE s == Approved[v]
<1>2. Len(s) \in Nat /\ DOMAIN s = 1..Len(s) /\ \A i \in 1..Len(s) : s[i] \in HeldOut
  BY <1>1
<1>3. E!Included(v) = {s[i] : i \in 1..Len(s)}
  BY <1>2 DEF E!Included, E!ToSet
<1>4. IsFiniteSet(1..Len(s))
  BY SameCardinality, <1>2, FS_Interval
<1> HIDE DEF s
<1>5. IsFiniteSet(E!Included(v))
  <2> DEFINE f == [i \in 1..Len(s) |-> s[i]]
  <2>1. E!Included(v) = {f[i] : i \in 1..Len(s)}
    BY <1>3
  <2>2. f \in Surjection(1..Len(s), E!Included(v))
    BY <2>1 DEF Surjection
  <2> QED BY SameCardinality, <2>2, <1>4, FS_Surjection
<1>6. E!Included(v) \subseteq HeldOut
  BY <1>2, <1>3
<1>7. E!Expected(v) \subseteq E!Trials
  BY <1>6 DEF E!Expected, E!Trials
<1>8. s = <<>> <=> E!Included(v) = {}
  <2>1. s = <<>> <=> Len(s) = 0
    BY <1>1, EmptySeq DEF s
  <2> QED BY <2>1, <1>2, <1>3
<1> QED BY <1>1, <1>5, <1>6, <1>7, <1>8 DEF s

\* The order of the trials is of the approved trials, and reaches every one of them.
LEMMA OrderCovers ==
  ASSUME NEW v \in 0..1
  PROVE  E!Order(v) \in Seq(E!Expected(v)) /\ E!Expected(v) \subseteq E!ToSet(E!Order(v))
<1> DEFINE s == Approved[v]
           n == 2 * Len(s)
           Nth(k) == LET i == (k + 1) \div 2 IN <<s[i], E!ModesOf(i)[k - 2 * (i - 1)]>>
<1>1. Len(s) \in Nat /\ DOMAIN s = 1..Len(s) /\ n \in Nat
  BY ApprovedAreHeldOut
<1>2. E!Order(v) = [k \in 1..n |-> Nth(k)]
  BY DEF E!Order
<1>3. ASSUME NEW k \in 1..n PROVE Nth(k) \in E!Expected(v)
  <2> DEFINE i == (k + 1) \div 2
             j == k - 2 * (i - 1)
  <2>1. i \in 1..Len(s) /\ j \in {1, 2}
    <3> DEFINE l == Len(s)
    <3>1. l \in Nat /\ k \in 1..(2 * l)
      BY <1>1
    <3> HIDE DEF l
    <3>2. i \in Int /\ 2 * i <= k + 1 /\ k + 1 < 2 * i + 2
      BY <3>1
    <3>3. i \in 1..l
      BY <3>1, <3>2
    <3>4. j \in {1, 2}
      BY <3>1, <3>2, <3>3
    <3> QED BY <3>3, <3>4 DEF l
  <2>2. E!ModesOf(i)[j] \in E!ToSet(E!Modes)
    <3> HIDE DEF i, j
    <3>1. E!ModesOf(i) = <<"all_tools", "stateful">> \/ E!ModesOf(i) = <<"stateful", "all_tools">>
      BY <2>1, <1>1, TwoModes
    <3> QED BY <2>1, <3>1, TwoModes
  <2>3. s[i] \in E!Included(v)
    BY <2>1, <1>1 DEF E!Included, E!ToSet
  <2>4. Nth(k) = <<s[i], E!ModesOf(i)[j]>>
    OBVIOUS
  <2> HIDE DEF i, j, Nth, s
  <2> QED BY <2>2, <2>3, <2>4 DEF E!Expected
<1>4. ASSUME NEW t \in E!Expected(v) PROVE \E k \in 1..n : Nth(k) = t
  <2>1. PICK c \in E!Included(v), m \in E!ToSet(E!Modes) : t = <<c, m>>
    BY DEF E!Expected
  <2>2. PICK i \in 1..Len(s) : c = s[i]
    BY <1>1 DEF E!Included, E!ToSet
  <2>3. PICK j \in {1, 2} : E!ModesOf(i)[j] = m
    <3>1. E!ModesOf(i) = <<"all_tools", "stateful">> \/ E!ModesOf(i) = <<"stateful", "all_tools">>
      BY <1>1, TwoModes
    <3>2. m \in {"all_tools", "stateful"}
      BY TwoModes
    <3>3. E!ModesOf(i)[1] = m \/ E!ModesOf(i)[2] = m
      BY <3>1, <3>2
    <3> QED BY <3>3
  <2> DEFINE k == 2 * (i - 1) + j
  <2>4. k \in 1..n /\ (k + 1) \div 2 = i /\ k - 2 * (i - 1) = j
    BY <1>1
  <2>5. Nth(k) = <<s[i], E!ModesOf(i)[j]>>
    BY <2>4
  <2> QED BY <2>1, <2>2, <2>3, <2>4, <2>5
<1> HIDE DEF Nth, n, s
<1>5. E!Order(v) \in [1..n -> E!Expected(v)]
  BY <1>2, <1>3
<1>6. E!Order(v) \in Seq(E!Expected(v))
  BY <1>1, <1>5
<1>7. E!ToSet(E!Order(v)) = {E!Order(v)[k] : k \in 1..n}
  BY <1>5 DEF E!ToSet
<1>8. \A k \in 1..n : E!Order(v)[k] = Nth(k)
  BY <1>2
<1> QED BY <1>4, <1>6, <1>7, <1>8

\* A partial result divides the approved cases; a case it calls finished is recorded in both
\* modes in the evaluator's records, and one it calls completed was completed in both.
LEMMA PartialIsSound ==
  ASSUME NEW v \in 0..1, NEW r \in [E!Trials -> Outcomes], NEW active \in SUBSET E!Included(v),
         NEW p, p = E!PartialPayload(v, r, active)
  PROVE  /\ UNION {p.started, p.completed, p.failed, p.remaining} = E!Included(v)
         /\ E!Cardinality(p.started) + E!Cardinality(p.completed) + E!Cardinality(p.failed)
              + E!Cardinality(p.remaining) = E!Cardinality(E!Included(v))
         /\ \A c \in p.completed \cup p.failed, m \in E!ToSet(E!Modes) : r[<<c, m>>] # E!None
         /\ \A c \in p.completed, m \in E!ToSet(E!Modes) : r[<<c, m>>].outcome = "completed"
<1> DEFINE all == E!Included(v)
           done == E!Finished(v, r)
           some == {c \in all : \E m \in E!ToSet(E!Modes) : r[<<c, m>>] # E!None}
<1>1. /\ p.completed = {c \in done : \A m \in E!ToSet(E!Modes) : r[<<c, m>>].outcome = "completed"}
      /\ p.started = (some \cup active) \ done
      /\ p.failed = done \ p.completed
      /\ p.remaining = all \ (done \cup p.started)
  BY DEF E!PartialPayload
<1>2. /\ done \subseteq all /\ some \subseteq all /\ active \subseteq all
      /\ \A c \in done, m \in E!ToSet(E!Modes) : r[<<c, m>>] # E!None
  BY DEF E!Finished
<1>3. IsFiniteSet(all)
  BY ApprovedAreHeldOut
<1> HIDE DEF all, done, some
<1>4. /\ p.completed \subseteq done /\ p.failed = done \ p.completed
      /\ p.started \subseteq all \ done /\ p.remaining = (all \ done) \ p.started
  BY <1>1, <1>2
<1>5. \A S \in SUBSET all : IsFiniteSet(S) /\ E!Cardinality(S) \in Nat
  BY SameCardinality, <1>3, FS_Subset, FS_CardinalityType
<1>6. \A S \in SUBSET all, X \in SUBSET all :
        X \subseteq S => E!Cardinality(S) = E!Cardinality(X) + E!Cardinality(S \ X)
  <2> SUFFICES ASSUME NEW S \in SUBSET all, NEW X \in SUBSET all, X \subseteq S
               PROVE  E!Cardinality(S) = E!Cardinality(X) + E!Cardinality(S \ X)
    OBVIOUS
  <2>1. E!Cardinality(S \ X) = E!Cardinality(S) - E!Cardinality(S \cap X)
    BY SameCardinality, <1>5, FS_Difference
  <2>2. E!Cardinality(S \cap X) = E!Cardinality(X)
    <3>1. S \cap X = X
      OBVIOUS
    <3> QED BY <3>1
  <2>3. E!Cardinality(S) \in Nat /\ E!Cardinality(X) \in Nat
    BY <1>5
  <2> QED BY <2>1, <2>2, <2>3
<1>7. E!Cardinality(all) = E!Cardinality(done) + E!Cardinality(all \ done)
  BY <1>2, <1>6
<1>8. E!Cardinality(done) = E!Cardinality(p.completed) + E!Cardinality(p.failed)
  BY <1>2, <1>4, <1>6
<1>9. E!Cardinality(all \ done) = E!Cardinality(p.started) + E!Cardinality(p.remaining)
  BY <1>2, <1>4, <1>6
<1>10. UNION {p.started, p.completed, p.failed, p.remaining} = all
  BY <1>2, <1>4
<1>11. E!Cardinality(p.started) + E!Cardinality(p.completed) + E!Cardinality(p.failed)
         + E!Cardinality(p.remaining) = E!Cardinality(all)
  BY <1>2, <1>4, <1>5, <1>7, <1>8, <1>9
<1> QED BY <1>1, <1>2, <1>4, <1>10, <1>11 DEF all

\* A comparison of the snapshots tells: those of two completed trials are the same.
LEMMA OneSnapshotMeans ==
  ASSUME NEW r \in [E!Trials -> Outcomes], E!OneSnapshot(r),
         NEW t \in E!Trials, NEW u \in E!Trials,
         r[t].outcome = "completed", r[u].outcome = "completed"
  PROVE  r[t].snapshot = r[u].snapshot
<1> DEFINE S == {r[w].snapshot : w \in {x \in E!Trials : r[x].outcome = "completed"}}
           a == r[t].snapshot
           b == r[u].snapshot
<1>1. \A o \in Outcomes : o.snapshot \in {0, 1}
  BY DEF Outcomes, E!Records, E!None
<1>2. S \subseteq {0, 1} /\ a \in S /\ b \in S
  BY <1>1
<1>3. IsFiniteSet({0, 1})
  <2>1. IsFiniteSet(0..1)
    BY SameCardinality, FS_Interval, 0 \in Int, 1 \in Int
  <2>2. 0..1 = {0, 1}
    OBVIOUS
  <2> QED BY <2>1, <2>2
<1>4. IsFiniteSet(S) /\ E!Cardinality(S) \in Nat /\ E!Cardinality(S) <= 1
  BY SameCardinality, <1>2, <1>3, FS_Subset, FS_CardinalityType DEF E!OneSnapshot
<1> HIDE DEF S, a, b
<1>5. ASSUME a # b PROVE FALSE
  <2> DEFINE A == {a}
  <2>1. IsFiniteSet(A) /\ E!Cardinality(A) = 1 /\ b \notin A /\ A \cup {b} \in SUBSET S
    BY SameCardinality, <1>2, <1>5, FS_Singleton
  <2> HIDE DEF A
  <2>2. E!Cardinality(A \cup {b}) = 2
    <3>1. E!Cardinality(A \cup {b}) = IF b \in A THEN E!Cardinality(A) ELSE E!Cardinality(A) + 1
      BY SameCardinality, <2>1, FS_AddElement, Zenon
    <3> QED BY <2>1, <3>1
  <2>3. E!Cardinality(A \cup {b}) <= E!Cardinality(S)
    BY SameCardinality, <2>1, <1>4, FS_Subset
  <2> QED BY <1>4, <2>2, <2>3
<1> QED BY <1>5 DEF a, b

\* Records of one snapshot pass the comparison.
LEMMA FirstIsOneSnapshot ==
  ASSUME NEW r \in [E!Trials -> Outcomes], \A t \in E!Trials : r[t].snapshot = 0
  PROVE  E!OneSnapshot(r)
<1> DEFINE S == {r[w].snapshot : w \in {x \in E!Trials : r[x].outcome = "completed"}}
<1>1. S \subseteq {0}
  OBVIOUS
<1>2. IsFiniteSet({0}) /\ E!Cardinality({0}) = 1
  BY SameCardinality, FS_Singleton
<1> HIDE DEF S
<1>3. E!Cardinality(S) <= 1
  BY SameCardinality, <1>1, <1>2, FS_Subset
<1> QED BY <1>3 DEF E!OneSnapshot, S

-----------------------------------------------------------------------------
(* How an evaluator moves.                                                 *)

\* Where an evaluator can be.
Places == E!Active \cup {"idle", "done", "failed"}

\* Nobody else moves.
OnlyMoves(e) ==
  /\ e_run' \in [Evaluators -> Runs]
  /\ \A f \in Evaluators \ {e} : e_run'[f] = e_run[f]

\* An evaluator that goes on keeps what it has.
LEMMA GotoMoves ==
  ASSUME RunTyped, NEW e \in Evaluators, NEW pc \in Places, E!Goto(e, pc)
  PROVE  /\ OnlyMoves(e)
         /\ e_run'[e].pc = pc /\ e_run'[e].view = e_run[e].view /\ e_run'[e].todo = e_run[e].todo
         /\ e_run'[e].records = e_run[e].records /\ e_run'[e].attempt = e_run[e].attempt
         /\ e_run'[e].snapshot = e_run[e].snapshot /\ e_run'[e].result = e_run[e].result
         /\ e_run'[e].seal = e_run[e].seal
<1>1. e_run[e] \in Runs
  BY DEF RunTyped
<1> DEFINE r == [e_run[e] EXCEPT !.pc = pc]
<1>2. /\ r \in Runs
      /\ r.pc = pc /\ r.view = e_run[e].view /\ r.todo = e_run[e].todo
      /\ r.records = e_run[e].records /\ r.attempt = e_run[e].attempt
      /\ r.snapshot = e_run[e].snapshot /\ r.result = e_run[e].result /\ r.seal = e_run[e].seal
  BY <1>1 DEF Runs, Places
<1>3. e_run' = [e_run EXCEPT ![e] = r]
  BY DEF E!Goto
<1> HIDE DEF r
<1>4. e_run'[e] = r /\ OnlyMoves(e)
  BY <1>2, <1>3 DEF RunTyped, OnlyMoves
<1> QED BY <1>2, <1>4

\* An evaluator that rests is typed.
LEMMA IdleIsTyped ==
  /\ E!Idle \in Runs
  /\ \A pc \in Places : [E!Idle EXCEPT !.pc = pc] \in Runs
  /\ E!Idle.pc = "idle" /\ E!Idle.view = E!NoProtocol /\ E!Idle.todo = <<>>
  /\ E!Idle.records = [t \in E!Trials |-> E!None] /\ E!Idle.attempt = 0 /\ E!Idle.snapshot = 0 - 1
  /\ E!Idle.result = E!None /\ E!Idle.seal = <<>>
<1>1. <<>> \in Seq(E!Trials)
  BY EmptySeq
<1>2. E!None \in Outcomes /\ [t \in E!Trials |-> E!None] \in [E!Trials -> Outcomes]
  BY DEF Outcomes
<1>3. "idle" \in Places
  BY DEF Places
<1> HIDE DEF E!None
<1> QED BY <1>1, <1>2, <1>3 DEF E!Idle, Runs, Places

\* An evaluator that ends forgets what it had.
LEMMA EndMoves ==
  ASSUME RunTyped, NEW e \in Evaluators, NEW pc \in Places,
         NEW r, r = [E!Idle EXCEPT !.pc = pc], e_run' = [e_run EXCEPT ![e] = r]
  PROVE  /\ OnlyMoves(e)
         /\ e_run'[e].pc = pc /\ e_run'[e].records = [t \in E!Trials |-> E!None]
         /\ e_run'[e].snapshot = 0 - 1 /\ e_run'[e].result = E!None
<1>1. r \in Runs /\ r.pc = pc /\ r.records = [t \in E!Trials |-> E!None]
      /\ r.snapshot = 0 - 1 /\ r.result = E!None
  BY IdleIsTyped DEF E!Idle
<1>2. e_run'[e] = r /\ OnlyMoves(e)
  BY <1>1 DEF RunTyped, OnlyMoves
<1> QED BY <1>1, <1>2

\* What is known of an evaluator.
LEMMA OfAnEvaluator ==
  ASSUME RunInv, NEW e \in Evaluators
  PROVE  /\ e_run[e] \in Runs
         /\ KnowsTheRecords(e_run[e]) /\ KnowsItsAttempt(e_run[e])
         /\ IsAlone(e_run[e]) /\ IsOfTheFirst(e_run[e])
         /\ e_run[e].pc \in Places /\ e_run[e].records \in [E!Trials -> Outcomes]
         /\ e_run[e].attempt \in Nat /\ e_run[e].result \in Outcomes
         /\ e_run[e].todo \in Seq(E!Trials)
         /\ e_run[e].snapshot \in {0 - 1, 0, 1}
BY DEF RunInv, RunTyped, EvaluatorsHold, EvaluatorHolds, Runs, Places

\* The trial of an evaluator that is at one is approved.
LEMMA OfATrial ==
  ASSUME RunInv, NEW e \in Evaluators, e_run[e].pc \in InTrial
  PROVE  /\ e_run[e].view = e_protocol /\ e_protocol \in Views /\ e_protocol.inputs \in 0..1
         /\ E!Trial(e) \in E!Expected(e_protocol.inputs) /\ E!Trial(e) \in E!Trials
         /\ E!Trial(e)[1] \in E!Included(e_protocol.inputs)
         /\ e_run[e].todo \in Seq(E!Expected(e_protocol.inputs)) /\ e_run[e].todo # <<>>
<1>1. /\ e_run[e].pc \in E!Active /\ e_run[e].pc # "protocol" /\ e_run[e].pc \in Looping
  BY DEF InTrial, E!Active, Looping
<1>2. e_run[e].view = e_protocol /\ e_protocol \in Views /\ e_protocol.inputs \in 0..1
  BY <1>1, OfAnEvaluator DEF KnowsTheRecords, Views
<1>3. e_run[e].todo \in Seq(E!Expected(e_protocol.inputs)) /\ e_run[e].todo # <<>>
  BY <1>1, <1>2, OfAnEvaluator DEF KnowsTheRecords
<1>4. E!Trial(e) \in E!Expected(e_protocol.inputs)
  BY <1>3, HeadTailProperties DEF E!Trial
<1> QED BY <1>2, <1>3, <1>4, ApprovedAreHeldOut DEF E!Expected

\* An evaluator that rests knows nothing.
LEMMA RestHolds ==
  ASSUME NEW e \in Evaluators, e_run'[e].pc \in {"idle", "done", "failed"},
         e_run'[e].records = [t \in E!Trials |-> E!None], e_run'[e].snapshot = 0 - 1,
         e_run'[e].result = E!None
  PROVE  EvaluatorHolds(e_run[e])'
<1>1. e_run'[e].pc \notin E!Active /\ e_run'[e].pc \notin Looping /\ e_run'[e].pc \notin InTrial
  BY DEF E!Active, Looping, InTrial
<1>2. KnowsTheRecords(e_run[e])'
  BY <1>1 DEF KnowsTheRecords
<1>3. KnowsItsAttempt(e_run[e])' /\ IsAlone(e_run[e])' /\ IsOfTheFirst(e_run[e])'
  BY <1>1 DEF KnowsItsAttempt, IsAlone, IsOfTheFirst, E!None
<1> QED BY <1>2, <1>3 DEF EvaluatorHolds

\* What an evaluator knows stays so when the protocol, the records and the attempts only
\* grow, and without an overlap it is not at work.
LEMMA EvaluatorOthersHold ==
  ASSUME NEW f \in Evaluators, e_run[f] \in Runs, EvaluatorHolds(e_run[f]), e_run'[f] = e_run[f],
         e_edited' = e_edited, e_protocol' = e_protocol \/ e_protocol = E!NoProtocol,
         \A t \in E!Trials : e_record[t] # E!None => e_record'[t] = e_record[t],
         \A t \in E!Trials : E!Numbers(t) \subseteq E!Numbers(t)',
         e_run[f].pc = "launch" => E!Trial(f) \in E!Trials,
         e_run[f].pc = "next" => E!Trial(f) \in E!Trials,
         e_run[f].pc = "host" => E!Attempt(f, TRUE) \in (e_opened \ e_orphans)',
         e_run[f].pc \in E!Active => e_overlap'
  PROVE  EvaluatorHolds(e_run[f])'
<1>1. KnowsTheRecords(e_run[f])'
  <2>1. e_run[f].pc \in E!Active \ {"protocol"} => e_run[f].view = e_protocol'
    BY DEF EvaluatorHolds, KnowsTheRecords, Views, E!NoProtocol
  <2>2. \A t \in E!Trials : e_run[f].records[t] # E!None => e_run[f].records[t] = e_record'[t]
    BY DEF EvaluatorHolds, KnowsTheRecords
  <2>3. e_run[f].pc = "next" => e_run[f].result = e_record'[Head(e_run[f].todo)]
    BY DEF EvaluatorHolds, KnowsTheRecords, E!Trial, E!Records, E!None
  <2> QED BY <2>1, <2>2, <2>3 DEF EvaluatorHolds, KnowsTheRecords
<1>2. KnowsItsAttempt(e_run[f])'
  BY DEF EvaluatorHolds, KnowsItsAttempt, E!Attempt, E!Trial
<1>3. IsAlone(e_run[f])' /\ IsOfTheFirst(e_run[f])'
  BY DEF EvaluatorHolds, IsAlone, IsOfTheFirst
<1> QED BY <1>1, <1>2, <1>3 DEF EvaluatorHolds

\* Everybody but the evaluator that moves: without an overlap they rest.
LEMMA OthersStay ==
  ASSUME RunInv, NEW e \in Evaluators, e_run[e].pc \in E!Active, OnlyMoves(e),
         e_edited' = e_edited, e_overlap' = e_overlap,
         e_protocol' = e_protocol \/ e_protocol = E!NoProtocol,
         \A t \in E!Trials : e_record[t] # E!None => e_record'[t] = e_record[t],
         \A t \in E!Trials : E!Numbers(t) \subseteq E!Numbers(t)',
         \A f \in Evaluators \ {e} :
           e_run[f].pc = "host" => E!Attempt(f, TRUE) \in (e_opened \ e_orphans)'
  PROVE  \A f \in Evaluators \ {e} : EvaluatorHolds(e_run[f])'
<1> SUFFICES ASSUME NEW f \in Evaluators \ {e} PROVE EvaluatorHolds(e_run[f])'
  OBVIOUS
<1>1. e_run'[f] = e_run[f] /\ e_run[f] \in Runs /\ EvaluatorHolds(e_run[f])
  BY OfAnEvaluator DEF OnlyMoves, EvaluatorHolds
<1>2. e_run[f].pc \in E!Active => e_overlap'
  BY DEF RunInv, Apart
<1>3. e_run[f].pc \in InTrial => E!Trial(f) \in E!Trials
  BY OfATrial
<1> QED BY <1>1, <1>2, <1>3, EvaluatorOthersHold DEF InTrial

\* Two evaluators stay apart when the one that moves does not take another's attempt.
LEMMA ApartStays ==
  ASSUME RunInv, NEW e \in Evaluators, e_run[e].pc \in E!Active, OnlyMoves(e),
  e_overlap' = e_overlap,
         \A f \in Evaluators \ {e} :
           e_run'[e].pc = "host" /\ e_run[f].pc = "host" =>
             Head(e_run'[e].todo) # E!Trial(f) \/ e_run'[e].attempt # e_run[f].attempt
  PROVE  Apart'
<1> SUFFICES ASSUME NEW f \in Evaluators, NEW g \in Evaluators, f # g
             PROVE  /\ e_run'[f].pc = "host" /\ e_run'[g].pc = "host" =>
                         Head(e_run'[f].todo) # Head(e_run'[g].todo)
                         \/ e_run'[f].attempt # e_run'[g].attempt
                    /\ e_run'[f].pc \in E!Active /\ e_run'[g].pc \in E!Active => e_overlap'
  BY DEF Apart, E!Trial
<1>1. CASE f # e /\ g # e
  BY <1>1 DEF OnlyMoves, RunInv, Apart, E!Trial
<1>2. CASE f = e
  <2>1. e_run'[g] = e_run[g] /\ (e_run[g].pc \in E!Active => e_overlap)
    BY <1>2 DEF OnlyMoves, RunInv, Apart
  <2> QED BY <1>2, <2>1 DEF E!Trial
<1>3. CASE g = e
  <2>1. e_run'[f] = e_run[f] /\ (e_run[f].pc \in E!Active => e_overlap)
    BY <1>3 DEF OnlyMoves, RunInv, Apart
  <2> QED BY <1>3, <2>1 DEF E!Trial
<1> QED BY <1>1, <1>2, <1>3

\* What an evaluator that has read the groups knows of them, unless it is making one.
LEMMA GroupsAreRead ==
  ASSUME RunInv, NEW e \in Evaluators, e_run[e].pc \in Looping \ {"cases"}, ~e_overlap
  PROVE  E!GroupsReadable
BY DEF RunInv, GroupsFit, E!GroupsReadable

\* The input somebody was refused for stays torn, the group without its `cases`, and the
\* others find no such group.
LEMMA CauseStays ==
  ASSUME RunInv, NEW e \in Evaluators, OnlyMoves(e), e_edited' = e_edited, e_overlap' = e_overlap,
         e_group' = e_group, e_run'[e].pc \notin {"failed", "cases"},
         e_run'[e].pc \in Looping => e_run[e].pc \in Looping \ {"cases"} \/ E!GroupsReadable,
         \A t \in E!Trials : TornForGood(t) =>
           e_input'[t] = "torn" /\ (e_run'[e].pc = "write" => Head(e_run'[e].todo) # t)
  PROVE  FailedForCause' /\ GroupsFit'
<1>1. FailedForCause'
  <2> SUFFICES ASSUME NEW f \in Evaluators, e_run'[f].pc = "failed", ~e_edited, ~e_overlap,
                      Approved[0] # <<>>
               PROVE  Caused'
    BY DEF FailedForCause
  <2>1. e_run[f].pc = "failed"
    BY DEF OnlyMoves
  <2>2. Caused
    BY <2>1 DEF RunInv, FailedForCause
  <2>3. ASSUME NEW t \in E!Trials, TornForGood(t) PROVE TornForGood(t)'
    <3>1. e_input'[t] = "torn"
      BY <2>3
    <3>2. ASSUME NEW g \in Evaluators, e_run'[g].pc = "write" PROVE Head(e_run'[g].todo) # t
      <4>1. CASE g = e
        BY <2>3, <3>2, <4>1
      <4>2. CASE g # e
        BY <2>3, <3>2, <4>2 DEF OnlyMoves, TornForGood, E!Trial
      <4> QED BY <4>1, <4>2
    <3> QED BY <3>1, <3>2 DEF TornForGood, E!Trial
  <2>4. ASSUME NEW c \in HeldOut, BareForGood(c) PROVE BareForGood(c)'
    BY <2>4 DEF BareForGood, E!Trial, OnlyMoves
  <2> QED BY <2>2, <2>3, <2>4 DEF Caused
<1>2. GroupsFit'
  <2> SUFFICES ASSUME ~e_overlap, NEW f \in Evaluators, NEW c \in HeldOut,
                      e_run'[f].pc \in Looping, e_group[c] = "bare"
               PROVE  e_run'[f].pc = "cases" /\ Head(e_run'[f].todo)[1] = c
    BY DEF GroupsFit, E!Trial
  <2>1. CASE f = e
    BY <2>1, GroupsAreRead DEF E!GroupsReadable
  <2>2. CASE f # e
    BY <2>2 DEF OnlyMoves, RunInv, GroupsFit, E!Trial
  <2> QED BY <2>1, <2>2
<1> QED BY <1>1, <1>2

\* The files hold when the partial result does and nothing else changed.
LEMMA FilesStay ==
  ASSUME RunInv, UNCHANGED <<e_world, e_edited, e_protocol, e_input, e_opened, e_record,
                             e_bundle, e_orphans>>,
         e_overlap' = e_overlap, PartialFits'
  PROVE  FilesHold'
<1>1. \A t \in E!Trials : E!Numbers(t)' = E!Numbers(t)
  BY DEF E!Numbers
<1>2. RecordsFit' /\ BundleFits' /\ SealHolds' /\ FirstVersion'
  BY DEF RunInv, FilesHold, RecordsFit, BundleFits, E!BundleIsTheRecords, SealHolds,
       FirstVersion, E!Evidence
<1>3. AttemptsFit'
  BY <1>1 DEF RunInv, FilesHold, AttemptsFit
<1> QED BY <1>2, <1>3 DEF FilesHold

\* An evaluator goes on.
LEMMA GoesOn ==
  ASSUME RunInv, NEW e \in Evaluators, e_run[e].pc \in E!Active, OnlyMoves(e),
         EvaluatorHolds(e_run[e])', PartialFits',
         UNCHANGED <<e_world, e_edited, e_protocol, e_group, e_input, e_opened, e_record,
                     e_bundle, e_orphans, e_overlap>>,
         e_run'[e].pc \notin {"failed", "write", "cases"},
         e_run'[e].pc \in Looping => e_run[e].pc \in Looping \ {"cases"} \/ E!GroupsReadable,
         e_run'[e].pc = "host" =>
           e_run[e].pc = "host" /\ e_run'[e].todo = e_run[e].todo /\ e_run'[e].attempt = e_run[e].attempt
  PROVE  RunInv'
<1>1. RunTyped'
  BY DEF RunInv, RunTyped, OnlyMoves
<1>2. \A t \in E!Trials : E!Numbers(t)' = E!Numbers(t)
  BY DEF E!Numbers
<1>3. \A f \in Evaluators \ {e} :
        e_run[f].pc = "host" => E!Attempt(f, TRUE) \in (e_opened \ e_orphans)'
  BY OfAnEvaluator DEF KnowsItsAttempt, E!Attempt, E!Trial
<1>4. EvaluatorsHold'
  BY <1>2, <1>3, OthersStay DEF EvaluatorsHold
<1>5. Apart'
  <2>1. \A f \in Evaluators \ {e} :
          e_run'[e].pc = "host" /\ e_run[f].pc = "host" =>
            Head(e_run'[e].todo) # E!Trial(f) \/ e_run'[e].attempt # e_run[f].attempt
    BY DEF RunInv, Apart, E!Trial
  <2> QED BY <2>1, ApartStays
<1>6. FailedForCause' /\ GroupsFit'
  BY CauseStays DEF TornForGood
<1> QED BY <1>1, <1>4, <1>5, <1>6, FilesStay DEF RunInv

\* An evaluator ends, and if it fails it does so for cause.
LEMMA EndKeeps ==
  ASSUME RunInv, NEW e \in Evaluators, e_run[e].pc \in E!Active, NEW pc \in {"idle", "done",
  "failed"},
         NEW r, r = [E!Idle EXCEPT !.pc = pc], e_run' = [e_run EXCEPT ![e] = r], PartialFits',
         UNCHANGED <<e_world, e_edited, e_protocol, e_group, e_input, e_opened, e_record,
                     e_bundle, e_orphans, e_overlap>>,
         pc = "failed" /\ ~e_edited /\ ~e_overlap /\ Approved[0] # <<>> => Caused
  PROVE  RunInv'
<1>1. OnlyMoves(e) /\ e_run'[e].pc = pc /\ EvaluatorHolds(e_run[e])'
  <2>1. /\ OnlyMoves(e) /\ e_run'[e].pc = pc /\ e_run'[e].records = [t \in E!Trials |-> E!None]
        /\ e_run'[e].snapshot = 0 - 1 /\ e_run'[e].result = E!None
    BY EndMoves DEF RunInv, Places
  <2> QED BY <2>1, RestHolds
<1>0. pc \notin Looping
  BY DEF Looping
<1>2. CASE pc # "failed"
  BY <1>0, <1>1, <1>2, GoesOn
<1>3. CASE pc = "failed"
  <2>1. RunTyped'
    BY <1>1 DEF RunInv, RunTyped, OnlyMoves
  <2>2. \A t \in E!Trials : E!Numbers(t)' = E!Numbers(t)
    BY DEF E!Numbers
  <2>3. \A f \in Evaluators \ {e} :
          e_run[f].pc = "host" => E!Attempt(f, TRUE) \in (e_opened \ e_orphans)'
    BY OfAnEvaluator DEF KnowsItsAttempt, E!Attempt, E!Trial
  <2>4. EvaluatorsHold'
    BY <1>1, <2>2, <2>3, OthersStay DEF EvaluatorsHold
  <2>5. Apart'
    BY <1>1, <1>3, ApartStays
  <2>6. FailedForCause'
    <3> SUFFICES ASSUME NEW f \in Evaluators, e_run'[f].pc = "failed", ~e_edited, ~e_overlap,
                        Approved[0] # <<>>
                 PROVE  Caused'
      BY DEF FailedForCause
    <3>1. Caused
      BY <1>3
    <3>2. \A g \in Evaluators :
            e_run'[g].pc \in {"write", "cases"} => e_run'[g] = e_run[g]
      BY <1>1, <1>3 DEF OnlyMoves
    <3>3. ASSUME NEW t \in E!Trials, TornForGood(t) PROVE TornForGood(t)'
      BY <3>2, <3>3 DEF TornForGood, E!Trial
    <3>4. ASSUME NEW c \in HeldOut, BareForGood(c) PROVE BareForGood(c)'
      BY <3>2, <3>4 DEF BareForGood, E!Trial
    <3> QED BY <3>1, <3>3, <3>4 DEF Caused
  <2>7. GroupsFit'
    BY <1>0, <1>1 DEF OnlyMoves, RunInv, GroupsFit, E!Trial
  <2> QED BY <2>1, <2>4, <2>5, <2>6, <2>7, FilesStay DEF RunInv
<1> QED BY <1>2, <1>3

\* The partial result stays what it was.
LEMMA SamePartial ==
  ASSUME RunInv, UNCHANGED <<e_protocol, e_record, e_partial>>
  PROVE  PartialFits'
BY DEF RunInv, FilesHold, PartialFits, E!PartialNeverOverstates

\* The partial result an evaluator writes fits, from its own records.
LEMMA PartialIsWritten ==
  ASSUME RunInv, NEW e \in Evaluators, e_run[e].view = e_protocol, e_protocol \in Views,
         NEW r \in [E!Trials -> Outcomes], NEW active \in SUBSET E!Included(e_protocol.inputs),
         \A t \in E!Trials : r[t] # E!None => r[t] = e_record[t],
         UNCHANGED <<e_protocol, e_record>>,
         e_partial' = E!PartialPayload(e_run[e].view.inputs, r, active)
  PROVE  PartialFits'
<1> DEFINE v == e_protocol.inputs
           p == E!PartialPayload(v, r, active)
<1>1. v \in 0..1 /\ e_protocol # E!NoProtocol
  BY DEF Views, E!NoProtocol
<1>2. e_partial' = p
  OBVIOUS
<1>3. /\ UNION {p.started, p.completed, p.failed, p.remaining} = E!Included(v)
      /\ E!Cardinality(p.started) + E!Cardinality(p.completed) + E!Cardinality(p.failed)
           + E!Cardinality(p.remaining) = E!Cardinality(E!Included(v))
      /\ \A c \in p.completed \cup p.failed, m \in E!ToSet(E!Modes) : r[<<c, m>>] # E!None
      /\ \A c \in p.completed, m \in E!ToSet(E!Modes) : r[<<c, m>>].outcome = "completed"
  BY <1>1, PartialIsSound
<1>4. \A c \in p.completed \cup p.failed, m \in E!ToSet(E!Modes) : <<c, m>> \in E!Trials
  <2>1. \A c \in p.completed \cup p.failed : c \in E!Included(v)
    BY <1>3
  <2> QED BY <2>1, <1>1, ApprovedAreHeldOut DEF E!Trials
<1> HIDE DEF p
<1>5. \A c \in p.completed \cup p.failed, m \in E!ToSet(E!Modes) : e_record[<<c, m>>] # E!None
  BY <1>3, <1>4
<1>6. \A c \in p.completed, m \in E!ToSet(E!Modes) : e_record[<<c, m>>].outcome = "completed"
  BY <1>3, <1>4
<1> QED BY <1>1, <1>2, <1>3, <1>5, <1>6 DEF PartialFits, E!PartialNeverOverstates

-----------------------------------------------------------------------------
(* Every step keeps the invariant: steps that leave all files but the partial *)
(* result alone.                                                           *)

\* Where an evaluator is when it works.
LEMMA Stations ==
  /\ E!Active \subseteq Places /\ InTrial \subseteq E!Active /\ InTrial \subseteq Looping
  /\ Recording \subseteq InTrial
BY DEF E!Active, Places, InTrial, Looping, Recording

\* As long as nobody changes anything, the candidate and the index are the ones of the start.
LEMMA NothingMoved ==
  ASSUME RunInv, NEW e \in Evaluators, e_run[e].pc \in E!Active, ~e_edited
  PROVE  E!ContextHolds /\ E!IndexHolds(e)
BY OfAnEvaluator DEF RunInv, FilesHold, FirstVersion, IsOfTheFirst, FirstView, E!ContextHolds,
   E!IndexHolds

\* A run that raises inside a trial.
LEMMA RaiseKeeps ==
  ASSUME RunInv, NEW e \in Evaluators, e_run[e].pc \in InTrial, E!Raise(e),
         UNCHANGED <<e_world, e_edited, e_protocol, e_group, e_input, e_opened, e_record,
                     e_bundle, e_orphans, e_overlap>>,
         ~e_edited /\ ~e_overlap => Caused
  PROVE  RunInv'
<1>1. e_run[e].pc \in E!Active
  BY Stations
<1>2. PartialFits'
  <2>1. \A t \in E!Trials : e_run[e].records[t] # E!None => e_run[e].records[t] = e_record[t]
    BY OfAnEvaluator DEF KnowsTheRecords
  <2>2. {E!Trial(e)[1]} \in SUBSET E!Included(e_protocol.inputs)
    BY OfATrial
  <2>3. e_partial' = E!PartialPayload(e_run[e].view.inputs, e_run[e].records, {E!Trial(e)[1]})
    BY DEF E!Raise
  <2>4. e_run[e].view = e_protocol /\ e_protocol \in Views
        /\ e_run[e].records \in [E!Trials -> Outcomes]
    BY OfATrial, OfAnEvaluator
  <2> QED BY <2>1, <2>2, <2>3, <2>4, PartialIsWritten
<1> QED BY <1>1, <1>2, EndKeeps DEF E!Raise, E!End

\* An existing bundle is of this run unless something changed or overlapped.
LEMMA ExistingBundleKeeps ==
  ASSUME RunInv, NEW e \in Evaluators, E!ExistingBundle(e)
  PROVE  RunInv'
<1>1. e_run[e].pc = "bundle" /\ e_run[e].pc \in E!Active
  BY DEF E!ExistingBundle, E!Active
<1>2. UNCHANGED <<e_world, e_edited, E!fileVars, e_orphans, e_overlap>> /\ PartialFits'
  BY SamePartial DEF E!ExistingBundle, E!worldVars, E!fileVars
<1>3. CASE e_bundle = E!NoBundle
  <2>1. /\ OnlyMoves(e)
        /\ e_run'[e].pc = "load" /\ e_run'[e].view = e_run[e].view
        /\ e_run'[e].todo = e_run[e].todo
        /\ e_run'[e].records = e_run[e].records /\ e_run'[e].attempt = e_run[e].attempt
        /\ e_run'[e].snapshot = e_run[e].snapshot /\ e_run'[e].result = e_run[e].result
        /\ e_run'[e].seal = e_run[e].seal
    BY <1>3, GotoMoves DEF E!ExistingBundle, RunInv, Places, E!Active
  <2>2. EvaluatorHolds(e_run[e])'
    <3>1. KnowsTheRecords(e_run[e])'
      BY <1>1, <1>2, <2>1, OfAnEvaluator DEF KnowsTheRecords, E!fileVars, E!Active, Looping,
           InTrial
    <3>2. KnowsItsAttempt(e_run[e])' /\ IsOfTheFirst(e_run[e])'
      BY <1>1, <1>2, <2>1, OfAnEvaluator DEF KnowsItsAttempt, IsOfTheFirst, E!fileVars, E!Active
    <3>3. IsAlone(e_run[e])'
      BY <1>1, <1>2, <1>3, <2>1, OfAnEvaluator DEF IsAlone, E!fileVars, E!Active, Recording
    <3> QED BY <3>1, <3>2, <3>3 DEF EvaluatorHolds
  <2> QED BY <1>1, <1>2, <2>1, <2>2, GoesOn DEF E!fileVars, Looping
<1>4. CASE e_bundle # E!NoBundle
  <2> DEFINE good == e_bundle.protocol = e_run[e].view /\ e_bundle.seal = E!Evidence
      /\ E!ContextHolds
  <2>1. CASE good
    <3>1. e_run' = [e_run EXCEPT ![e] = [E!Idle EXCEPT !.pc = "done"]]
      BY <1>4, <2>1 DEF E!ExistingBundle, E!End
    <3> QED BY <1>1, <1>2, <3>1, EndKeeps DEF E!fileVars
  <2>2. CASE ~good
    <3>1. e_run' = [e_run EXCEPT ![e] = [E!Idle EXCEPT !.pc = "failed"]]
      BY <1>4, <2>2 DEF E!ExistingBundle, E!End
    <3>2. e_edited \/ e_overlap
      BY <1>1, <1>4, <2>2, NothingMoved, OfAnEvaluator
      DEF RunInv, FilesHold, BundleFits, E!BundleIsTheRecords, SealHolds, KnowsTheRecords
    <3> QED BY <1>1, <1>2, <3>1, <3>2, EndKeeps DEF E!fileVars
  <2> QED BY <2>1, <2>2
<1> QED BY <1>3, <1>4

\* The order of the trials and the records that are there.
LEMMA LoadRecordsKeeps ==
  ASSUME RunInv, NEW e \in Evaluators, E!LoadRecords(e)
  PROVE  RunInv'
<1> DEFINE v == e_run[e].view.inputs
<1>1. e_run[e].pc = "load" /\ e_run[e].pc \in E!Active
  BY DEF E!LoadRecords, E!Active
<1>2. UNCHANGED <<e_world, e_edited, e_protocol, e_group, e_input, e_opened, e_record, e_bundle,
                  e_orphans, e_overlap>>
  BY DEF E!LoadRecords, E!worldVars
<1>3. e_run[e].view = e_protocol /\ e_protocol \in Views /\ v \in 0..1
  BY <1>1, OfAnEvaluator DEF KnowsTheRecords, Views
<1>4. e_record \in [E!Trials -> Outcomes] /\ E!Recorded(e_record) \subseteq E!Expected(v)
  BY <1>3 DEF RunInv, RunTyped, FilesHold, RecordsFit, E!Recorded
<1>5. CASE Approved[v] = <<>>
  <2>1. e_run' = [e_run EXCEPT ![e] = [E!Idle EXCEPT !.pc = "failed"]] /\ PartialFits'
    BY <1>5, <1>2, SamePartial DEF E!LoadRecords, E!End
  <2>2. e_edited \/ Approved[0] = <<>>
    BY <1>1, <1>5, OfAnEvaluator DEF IsOfTheFirst, FirstView
  <2> QED BY <1>1, <1>2, <2>1, <2>2, EndKeeps
<1>6. CASE Approved[v] # <<>> /\ ~E!GroupsReadable
  <2>1. e_run' = [e_run EXCEPT ![e] = [E!Idle EXCEPT !.pc = "failed"]] /\ PartialFits'
    BY <1>6, <1>2, SamePartial DEF E!LoadRecords, E!End
  <2>2. PICK c \in HeldOut : e_group[c] = "bare"
    BY <1>6 DEF E!GroupsReadable
  <2>3. ASSUME ~e_overlap, NEW f \in Evaluators, e_run[f].pc = "cases" PROVE FALSE
    BY <1>1, <2>3 DEF RunInv, Apart, E!Active
  <2>4. ~e_overlap => Caused
    BY <2>2, <2>3 DEF Caused, BareForGood
  <2> QED BY <1>1, <1>2, <2>1, <2>4, EndKeeps
<1>7. CASE Approved[v] # <<>> /\ E!GroupsReadable
  <2> DEFINE r == [e_run[e] EXCEPT !.pc = "trial", !.todo = E!Order(v), !.records = e_record]
  <2>1. /\ e_run' = [e_run EXCEPT ![e] = r]
        /\ e_partial' = E!PartialPayload(v, e_record, {})
    BY <1>4, <1>7 DEF E!LoadRecords
  <2>2. /\ E!Order(v) \in Seq(E!Expected(v)) /\ E!Expected(v) \subseteq E!ToSet(E!Order(v))
        /\ E!Order(v) \in Seq(E!Trials)
    <3>1. E!Order(v) \in Seq(E!Expected(v)) /\ E!Expected(v) \subseteq E!ToSet(E!Order(v))
      BY <1>3, OrderCovers
    <3>2. E!Expected(v) \subseteq E!Trials
      BY <1>3, ApprovedAreHeldOut
    <3> HIDE DEF v
    <3>3. \A s \in Seq(E!Expected(v)) : s \in Seq(E!Trials)
      BY <3>2
    <3> QED BY <3>1, <3>3
  <2>3. /\ r \in Runs /\ r.pc = "trial" /\ r.view = e_run[e].view /\ r.todo = E!Order(v)
        /\ r.records = e_record /\ r.snapshot = e_run[e].snapshot /\ r.result = e_run[e].result
    <3>1. e_run[e] \in Runs /\ "trial" \in E!Active
      BY OfAnEvaluator DEF E!Active
    <3> HIDE DEF v
    <3> QED BY <3>1, <1>4, <2>2 DEF Runs
  <2> HIDE DEF r
  <2>4. OnlyMoves(e) /\ e_run'[e] = r
    BY <2>1, <2>3 DEF OnlyMoves, RunInv, RunTyped
  <2>5. EvaluatorHolds(e_run[e])'
    <3>1. KnowsTheRecords(e_run[e])'
      <4>1. r.pc \in Looping /\ r.pc \notin InTrial /\ r.pc # "protocol"
        BY <2>3 DEF Looping, InTrial
      <4>2. r.view = e_protocol /\ r.view \in Views
        BY <1>3, <2>3
      <4>3. r.todo \in Seq(E!Expected(r.view.inputs))
            /\ \A t \in E!Expected(r.view.inputs) : t \in E!ToSet(r.todo)
        BY <2>2, <2>3
      <4> HIDE DEF v
      <4> QED BY <1>2, <2>3, <2>4, <4>1, <4>2, <4>3 DEF KnowsTheRecords
    <3>2. KnowsItsAttempt(e_run[e])' /\ IsOfTheFirst(e_run[e])'
      BY <1>1, <1>2, <2>3, <2>4, OfAnEvaluator DEF KnowsItsAttempt, IsOfTheFirst, E!Active
    <3>3. IsAlone(e_run[e])'
      BY <1>1, <1>2, <2>3, <2>4, OfAnEvaluator DEF IsAlone, E!Active, Recording
    <3> QED BY <3>1, <3>2, <3>3 DEF EvaluatorHolds
  <2>6. PartialFits'
    <3>1. {} \in SUBSET E!Included(e_protocol.inputs)
      OBVIOUS
    <3>2. e_partial' = E!PartialPayload(e_run[e].view.inputs, e_record, {})
      BY <2>1
    <3> QED BY <1>2, <1>3, <1>4, <3>1, <3>2, PartialIsWritten
  <2> QED BY <1>1, <1>2, <1>7, <2>3, <2>4, <2>5, <2>6, GoesOn
<1> QED BY <1>5, <1>6, <1>7

\* The next trial is begun.
LEMMA StartTrialKeeps ==
  ASSUME RunInv, NEW e \in Evaluators, E!StartTrial(e)
  PROVE  RunInv'
<1>1. e_run[e].pc = "trial" /\ e_run[e].todo # <<>> /\ e_run[e].pc \in E!Active
  BY DEF E!StartTrial, E!Active
<1>2. UNCHANGED <<e_world, e_edited, e_protocol, e_group, e_input, e_opened, e_record, e_bundle,
                  e_orphans, e_overlap>>
  BY DEF E!StartTrial, E!worldVars
<1>3. /\ OnlyMoves(e)
      /\ e_run'[e].pc = "group" /\ e_run'[e].view = e_run[e].view
      /\ e_run'[e].todo = e_run[e].todo
      /\ e_run'[e].records = e_run[e].records /\ e_run'[e].attempt = e_run[e].attempt
      /\ e_run'[e].snapshot = e_run[e].snapshot /\ e_run'[e].result = e_run[e].result
      /\ e_run'[e].seal = e_run[e].seal
  BY GotoMoves DEF E!StartTrial, RunInv, Places, E!Active
<1>4. EvaluatorHolds(e_run[e])'
  <2>1. KnowsTheRecords(e_run[e])'
    BY <1>1, <1>2, <1>3, OfAnEvaluator DEF KnowsTheRecords, E!Active, Looping, InTrial
  <2>2. KnowsItsAttempt(e_run[e])' /\ IsOfTheFirst(e_run[e])'
    BY <1>1, <1>2, <1>3, OfAnEvaluator DEF KnowsItsAttempt, IsOfTheFirst, E!Active
  <2>3. IsAlone(e_run[e])'
    BY <1>1, <1>2, <1>3, OfAnEvaluator DEF IsAlone, E!Active, Recording
  <2> QED BY <2>1, <2>2, <2>3 DEF EvaluatorHolds
<1>5. PartialFits'
  <2>1. e_run[e].view = e_protocol /\ e_protocol \in Views /\ e_protocol.inputs \in 0..1
    BY <1>1, OfAnEvaluator DEF KnowsTheRecords, Views
  <2>2. e_run[e].todo \in Seq(E!Expected(e_protocol.inputs))
    BY <1>1, <2>1, OfAnEvaluator DEF KnowsTheRecords, Looping
  <2>3. E!Trial(e) \in E!Expected(e_protocol.inputs)
    BY <1>1, <2>2, HeadTailProperties DEF E!Trial
  <2>4. {E!Trial(e)[1]} \in SUBSET E!Included(e_protocol.inputs)
    BY <2>3 DEF E!Expected
  <2>5. \A t \in E!Trials : e_run[e].records[t] # E!None => e_run[e].records[t] = e_record[t]
    BY OfAnEvaluator DEF KnowsTheRecords
  <2>6. e_partial' = E!PartialPayload(e_run[e].view.inputs, e_run[e].records, {E!Trial(e)[1]})
    BY DEF E!StartTrial
  <2> QED BY <1>2, <2>1, <2>4, <2>5, <2>6, OfAnEvaluator, PartialIsWritten
<1> QED BY <1>1, <1>2, <1>3, <1>4, <1>5, GoesOn DEF Looping

\* A step that makes directories of the trial's group only.
LEMMA GroupKeeps ==
  ASSUME RunInv, NEW e \in Evaluators, e_run[e].pc \in {"group", "cases"},
         NEW pc \in {"cases", "exists"}, E!Goto(e, pc),
         NEW x \in {"bare", "whole"}, x = "bare" => pc = "cases", pc = "cases" => x = "bare",
         e_run[e].pc = "cases" => pc = "exists",
         e_group' = [e_group EXCEPT ![E!Trial(e)[1]] = x],
         UNCHANGED <<e_world, e_edited, e_protocol, e_input, e_opened, e_record, e_partial,
                     e_bundle, e_orphans, e_overlap>>
  PROVE  RunInv'
<1>1. e_run[e].pc \in InTrial /\ e_run[e].pc \in E!Active /\ e_run[e].pc \in Looping
  BY DEF InTrial, E!Active, Looping
<1>2. /\ OnlyMoves(e)
      /\ e_run'[e].pc = pc /\ e_run'[e].view = e_run[e].view /\ e_run'[e].todo = e_run[e].todo
      /\ e_run'[e].records = e_run[e].records /\ e_run'[e].attempt = e_run[e].attempt
      /\ e_run'[e].snapshot = e_run[e].snapshot /\ e_run'[e].result = e_run[e].result
      /\ e_run'[e].seal = e_run[e].seal
  <2>1. pc \in Places
    BY DEF Places, E!Active
  <2> QED BY <2>1, GotoMoves DEF RunInv
<1>3. E!Trial(e) \in E!Trials /\ E!Trial(e)[1] \in HeldOut
  BY <1>1, OfATrial DEF E!Trials
<1> DEFINE d == E!Trial(e)[1]
<1>4. /\ e_group' \in [HeldOut -> {"none", "bare", "whole"}] /\ e_group'[d] = x
      /\ \A c \in HeldOut : c # d => e_group'[c] = e_group[c]
  BY <1>3 DEF RunInv, RunTyped
<1>5. RunTyped'
  BY <1>2, <1>4 DEF RunInv, RunTyped, OnlyMoves
<1>6. EvaluatorHolds(e_run[e])'
  <2>1. pc \in E!Active /\ pc \in Looping /\ pc \in InTrial /\ pc # "protocol"
        /\ pc \notin Recording
    BY DEF E!Active, Looping, InTrial, Recording
  <2>2. KnowsTheRecords(e_run[e])'
    <3>1. e_run[e].view = e_protocol /\ e_run[e].todo # <<>>
      BY <1>1, OfATrial
    <3> QED BY <1>1, <1>2, <2>1, <3>1, OfAnEvaluator DEF KnowsTheRecords
  <2>3. KnowsItsAttempt(e_run[e])' /\ IsOfTheFirst(e_run[e])'
    BY <1>1, <1>2, <2>1, OfAnEvaluator DEF KnowsItsAttempt, IsOfTheFirst
  <2>4. IsAlone(e_run[e])'
    BY <1>1, <1>2, <2>1, OfAnEvaluator DEF IsAlone
  <2> QED BY <2>2, <2>3, <2>4 DEF EvaluatorHolds
<1>7. \A t \in E!Trials : E!Numbers(t)' = E!Numbers(t)
  BY DEF E!Numbers
<1>8. \A f \in Evaluators \ {e} :
        e_run[f].pc = "host" => E!Attempt(f, TRUE) \in (e_opened \ e_orphans)'
  BY OfAnEvaluator DEF KnowsItsAttempt, E!Attempt, E!Trial
<1>9. EvaluatorsHold'
  BY <1>1, <1>2, <1>6, <1>7, <1>8, OthersStay DEF EvaluatorsHold
<1>10. Apart'
  BY <1>1, <1>2, ApartStays
<1>11. FilesHold'
  BY SamePartial, FilesStay
<1>12. \A f \in Evaluators : ~e_overlap /\ f # e => e_run[f].pc \notin E!Active
  BY <1>1 DEF RunInv, Apart
<1>13. FailedForCause'
  <2> SUFFICES ASSUME NEW f \in Evaluators, e_run'[f].pc = "failed", ~e_edited, ~e_overlap,
                      Approved[0] # <<>>
               PROVE  Caused'
    BY DEF FailedForCause
  <2>1. Caused
    BY <1>2 DEF OnlyMoves, RunInv, FailedForCause
  <2>2. ASSUME NEW t \in E!Trials, TornForGood(t) PROVE TornForGood(t)'
    BY <1>2, <2>2 DEF OnlyMoves, TornForGood, E!Trial
  <2>3. ASSUME NEW c \in HeldOut, BareForGood(c) PROVE FALSE
    BY <1>1, <2>3 DEF BareForGood, RunInv, GroupsFit
  <2> QED BY <2>1, <2>2, <2>3 DEF Caused
<1>14. GroupsFit'
  <2> SUFFICES ASSUME ~e_overlap, NEW f \in Evaluators, NEW c \in HeldOut,
                      e_run'[f].pc \in Looping, e_group'[c] = "bare"
               PROVE  e_run'[f].pc = "cases" /\ Head(e_run'[f].todo)[1] = c
    BY DEF GroupsFit, E!Trial
  <2>1. f = e
    BY <1>2, <1>12 DEF OnlyMoves, Looping, E!Active
  <2>2. e_group[c] = "bare" => e_run[e].pc = "cases" /\ d = c
    BY <1>1 DEF RunInv, GroupsFit
  <2>3. c = d
    BY <1>4, <2>2
  <2> QED BY <1>2, <1>4, <2>1, <2>3 DEF E!Trial
<1> QED BY <1>5, <1>9, <1>10, <1>11, <1>13, <1>14 DEF RunInv

\* The directory of the trial's group is made, or is there.
LEMMA MakeGroupKeeps ==
  ASSUME RunInv, NEW e \in Evaluators, E!MakeGroup(e)
  PROVE  RunInv'
<1>1. e_run[e].pc = "group" /\ e_run[e].pc \in InTrial
  BY DEF E!MakeGroup, InTrial
<1>2. UNCHANGED <<e_world, e_edited, e_protocol, e_input, e_opened, e_record, e_partial,
                  e_bundle, e_orphans, e_overlap>>
  BY DEF E!MakeGroup, E!worldVars
<1>3. E!Trial(e)[1] \in HeldOut
  BY <1>1, OfATrial DEF E!Trials
<1>4. CASE e_group[E!Trial(e)[1]] = "whole"
  <2>1. e_group' = [e_group EXCEPT ![E!Trial(e)[1]] = "whole"] /\ E!Goto(e, "exists")
    BY <1>3, <1>4 DEF E!MakeGroup, RunInv, RunTyped
  <2> QED BY <1>1, <1>2, <2>1, GroupKeeps
<1>5. CASE e_group[E!Trial(e)[1]] # "whole"
  <2>1. e_group' = [e_group EXCEPT ![E!Trial(e)[1]] = "bare"] /\ E!Goto(e, "cases")
    BY <1>5 DEF E!MakeGroup
  <2> QED BY <1>1, <1>2, <2>1, GroupKeeps
<1> QED BY <1>4, <1>5

\* The directories below it are made.
LEMMA MakeCasesKeeps ==
  ASSUME RunInv, NEW e \in Evaluators, E!MakeCases(e)
  PROVE  RunInv'
<1>1. e_run[e].pc = "cases" /\ E!Goto(e, "exists")
      /\ e_group' = [e_group EXCEPT ![E!Trial(e)[1]] = "whole"]
      /\ UNCHANGED <<e_world, e_edited, e_protocol, e_input, e_opened, e_record, e_partial,
                     e_bundle, e_orphans, e_overlap>>
  BY DEF E!MakeCases, E!worldVars
<1> QED BY <1>1, GroupKeeps

\* What is recorded is no absence.
LEMMA NoneIsNoRecord == E!None \in Outcomes /\ E!None \notin E!Records /\ E!None.snapshot = 0
BY DEF E!None, E!Records, Outcomes

\* A recorded trial is not run again.
LEMMA TakeRecordKeeps ==
  ASSUME RunInv, NEW e \in Evaluators, E!TakeRecord(e)
  PROVE  RunInv'
<1> DEFINE r == [e_run[e] EXCEPT !.pc = "next", !.result = e_record[E!Trial(e)]]
<1>1. e_run[e].pc = "exists" /\ e_run[e].pc \in InTrial /\ e_run[e].pc \in E!Active
  BY DEF E!TakeRecord, InTrial, E!Active
<1>2. UNCHANGED <<e_world, e_edited, e_protocol, e_group, e_input, e_opened, e_record, e_partial,
                  e_bundle, e_orphans, e_overlap>>
  BY DEF E!TakeRecord, E!worldVars, E!fileVars
<1>3. E!Trial(e) \in E!Trials /\ e_run[e] \in Runs
  BY <1>1, OfATrial, OfAnEvaluator
<1>4. e_record[E!Trial(e)] \in Outcomes /\ e_record[E!Trial(e)] \in E!Records
  BY <1>3 DEF RunInv, RunTyped, E!TakeRecord, Outcomes
<1>5. /\ r \in Runs /\ r.pc = "next" /\ r.view = e_run[e].view /\ r.todo = e_run[e].todo
      /\ r.records = e_run[e].records /\ r.snapshot = e_run[e].snapshot
      /\ r.result = e_record[E!Trial(e)]
  <2>1. "next" \in E!Active
    BY DEF E!Active
  <2> QED BY <1>3, <1>4, <2>1 DEF Runs
<1>6. e_run' = [e_run EXCEPT ![e] = r]
  BY DEF E!TakeRecord
<1> HIDE DEF r
<1>7. OnlyMoves(e) /\ e_run'[e] = r
  BY <1>5, <1>6 DEF OnlyMoves, RunInv, RunTyped
<1>8. KnowsTheRecords(e_run[e])'
  BY <1>1, <1>2, <1>4, <1>5, <1>7, OfAnEvaluator
  DEF KnowsTheRecords, E!Active, Looping, InTrial, E!Trial
<1>9. KnowsItsAttempt(e_run[e])' /\ IsAlone(e_run[e])'
  BY <1>1, <1>2, <1>5, <1>7, OfAnEvaluator DEF KnowsItsAttempt, IsAlone, E!Active, Recording
<1>10. IsOfTheFirst(e_run[e])'
  BY <1>1, <1>2, <1>3, <1>5, <1>7, OfAnEvaluator
  DEF IsOfTheFirst, E!Active, RunInv, FilesHold, FirstVersion
<1>11. PartialFits'
  BY <1>2, SamePartial
<1> QED BY <1>1, <1>2, <1>5, <1>7, <1>8, <1>9, <1>10, <1>11, GoesOn DEF EvaluatorHolds, Looping

\* The next attempt has the first number that is free.
LEMMA ScanAttemptsKeeps ==
  ASSUME RunInv, NEW e \in Evaluators, E!ScanAttempts(e)
  PROVE  RunInv'
<1> DEFINE r == [e_run[e] EXCEPT !.pc = "launch", !.attempt = E!NextAttempt(E!Trial(e))]
<1>1. e_run[e].pc = "scan" /\ e_run[e].pc \in InTrial /\ e_run[e].pc \in E!Active
  BY DEF E!ScanAttempts, InTrial, E!Active
<1>2. UNCHANGED <<e_world, e_edited, e_protocol, e_group, e_input, e_opened, e_record, e_partial,
                  e_bundle, e_orphans, e_overlap>>
  BY DEF E!ScanAttempts, E!worldVars, E!fileVars
<1>3. E!Trial(e) \in E!Trials /\ e_run[e] \in Runs
  BY <1>1, OfATrial, OfAnEvaluator
<1>4. PICK n \in Nat : E!Numbers(E!Trial(e)) = 1..n
  BY <1>3 DEF RunInv, FilesHold, AttemptsFit
<1>5. E!NextAttempt(E!Trial(e)) = n + 1
  <2>1. E!Cardinality(1..n) = n
    BY SameCardinality, FS_Interval, 1 \in Int, n \in Int
  <2> QED BY <1>4, <2>1 DEF E!NextAttempt
<1>6. /\ r \in Runs /\ r.pc = "launch" /\ r.view = e_run[e].view /\ r.todo = e_run[e].todo
      /\ r.records = e_run[e].records /\ r.snapshot = e_run[e].snapshot
      /\ r.result = e_run[e].result /\ r.attempt = n + 1
  <2>1. "launch" \in E!Active
    BY DEF E!Active
  <2>2. E!NextAttempt(E!Trial(e)) \in Nat /\ E!NextAttempt(E!Trial(e)) = n + 1
    BY <1>5
  <2> QED BY <1>3, <2>1, <2>2 DEF Runs
<1>7. e_run' = [e_run EXCEPT ![e] = r]
  BY DEF E!ScanAttempts
<1> HIDE DEF r
<1>8. OnlyMoves(e) /\ e_run'[e] = r
  BY <1>6, <1>7 DEF OnlyMoves, RunInv, RunTyped
<1>9. E!Numbers(E!Trial(e))' = 1..n /\ Head(e_run'[e].todo) = E!Trial(e)
  <2>1. E!Trial(e)' = E!Trial(e) /\ e_opened' = e_opened
    BY <1>2, <1>6, <1>8 DEF E!Trial
  <2> QED BY <1>4, <2>1 DEF E!Numbers, E!Trial
<1>10. KnowsTheRecords(e_run[e])'
  BY <1>1, <1>2, <1>6, <1>8, OfAnEvaluator DEF KnowsTheRecords, E!Active, Looping, InTrial
<1>11. KnowsItsAttempt(e_run[e])' /\ IsAlone(e_run[e])'
  <2>1. E!Numbers(Head(e_run[e].todo))' = 1..n
    BY <1>9 DEF E!Trial
  <2>2. n + 1 # 0 /\ 1 .. (n + 1) - 1 \subseteq 1..n /\ n + 1 \notin 1..n
    OBVIOUS
  <2> QED BY <1>1, <1>2, <1>6, <1>8, <2>1, <2>2, OfAnEvaluator
          DEF KnowsItsAttempt, IsAlone, E!Active, Recording
<1>12. IsOfTheFirst(e_run[e])' /\ PartialFits'
  BY <1>1, <1>2, <1>6, <1>8, OfAnEvaluator, SamePartial DEF IsOfTheFirst, E!Active
<1> QED BY <1>1, <1>2, <1>6, <1>8, <1>10, <1>11, <1>12, GoesOn DEF EvaluatorHolds, Looping

\* The host takes its fingerprint of the candidate.
LEMMA HostSnapshotKeeps ==
  ASSUME RunInv, NEW e \in Evaluators, E!HostSnapshot(e)
  PROVE  RunInv'
<1> DEFINE r == [e_run[e] EXCEPT !.snapshot = e_world.candidate]
<1>1. e_run[e].pc = "host" /\ e_run[e].pc \in InTrial /\ e_run[e].pc \in E!Active
  BY DEF E!HostSnapshot, InTrial, E!Active
<1>2. UNCHANGED <<e_world, e_edited, e_protocol, e_group, e_input, e_opened, e_record, e_partial,
                  e_bundle, e_orphans, e_overlap>>
  BY DEF E!HostSnapshot, E!worldVars, E!fileVars
<1>3. e_run[e] \in Runs /\ e_world.candidate \in {0, 1}
  BY OfAnEvaluator DEF RunInv, RunTyped
<1>4. /\ r \in Runs /\ r.pc = e_run[e].pc /\ r.view = e_run[e].view /\ r.todo = e_run[e].todo
      /\ r.records = e_run[e].records /\ r.snapshot = e_world.candidate
      /\ r.result = e_run[e].result /\ r.attempt = e_run[e].attempt
  BY <1>3 DEF Runs
<1>5. e_run' = [e_run EXCEPT ![e] = r]
  BY DEF E!HostSnapshot
<1> HIDE DEF r
<1>6. OnlyMoves(e) /\ e_run'[e] = r
  BY <1>4, <1>5 DEF OnlyMoves, RunInv, RunTyped
<1>7. KnowsTheRecords(e_run[e])'
  BY <1>1, <1>2, <1>4, <1>6, OfAnEvaluator DEF KnowsTheRecords, E!Active, Looping, InTrial
<1>8. KnowsItsAttempt(e_run[e])' /\ IsAlone(e_run[e])'
  BY <1>1, <1>2, <1>4, <1>6, OfAnEvaluator DEF KnowsItsAttempt, IsAlone, E!Active, Recording
<1>9. IsOfTheFirst(e_run[e])' /\ PartialFits'
  <2>1. ~e_edited => e_world.candidate = 0
    BY DEF RunInv, FilesHold, FirstVersion
  <2> QED BY <1>1, <1>2, <1>4, <1>6, <2>1, OfAnEvaluator, SamePartial DEF IsOfTheFirst, E!Active
<1> QED BY <1>1, <1>2, <1>4, <1>6, <1>7, <1>8, <1>9, GoesOn DEF EvaluatorHolds, Looping

\* The candidate and the index are compared after the host.
LEMMA ValidateKeeps ==
  ASSUME RunInv, NEW e \in Evaluators, E!Validate(e)
  PROVE  RunInv'
<1>1. e_run[e].pc = "validate" /\ e_run[e].pc \in InTrial /\ e_run[e].pc \in E!Active
  BY DEF E!Validate, InTrial, E!Active
<1>2. UNCHANGED <<e_world, e_edited, e_protocol, e_group, e_input, e_opened, e_record, e_bundle,
                  e_orphans, e_overlap>>
  BY DEF E!Validate, E!worldVars
<1>3. CASE E!ContextHolds /\ E!IndexHolds(e)
  <2>1. /\ OnlyMoves(e)
        /\ e_run'[e].pc = "record" /\ e_run'[e].view = e_run[e].view
        /\ e_run'[e].todo = e_run[e].todo
        /\ e_run'[e].records = e_run[e].records /\ e_run'[e].attempt = e_run[e].attempt
        /\ e_run'[e].snapshot = e_run[e].snapshot /\ e_run'[e].result = e_run[e].result
        /\ e_run'[e].seal = e_run[e].seal
    BY <1>3, GotoMoves DEF E!Validate, RunInv, Places, E!Active
  <2>2. KnowsTheRecords(e_run[e])'
    BY <1>1, <1>2, <2>1, OfAnEvaluator DEF KnowsTheRecords, E!Active, Looping, InTrial
  <2>3. KnowsItsAttempt(e_run[e])' /\ IsAlone(e_run[e])' /\ IsOfTheFirst(e_run[e])'
    BY <1>1, <1>2, <2>1, OfAnEvaluator
    DEF KnowsItsAttempt, IsAlone, IsOfTheFirst, E!Active, Recording
  <2>4. PartialFits'
    BY <1>2, <1>3, SamePartial DEF E!Validate
  <2> QED BY <1>1, <1>2, <2>1, <2>2, <2>3, <2>4, GoesOn DEF EvaluatorHolds, Looping
<1>4. CASE ~(E!ContextHolds /\ E!IndexHolds(e))
  <2>1. E!Raise(e) /\ e_edited
    BY <1>1, <1>4, NothingMoved DEF E!Validate
  <2> QED BY <1>1, <1>2, <2>1, RaiseKeeps
<1> QED BY <1>3, <1>4

\* The record of a trial becomes one of the evaluator's, which goes on to the next trial.
LEMMA AdvanceKeeps ==
  ASSUME RunInv, NEW e \in Evaluators, E!Advance(e)
  PROVE  RunInv'
<1> DEFINE kept == [e_run[e].records EXCEPT ![E!Trial(e)] = e_run[e].result]
           r == [e_run[e] EXCEPT !.pc = "trial", !.todo = Tail(@), !.records = kept, !.result = E!None]
<1>1. e_run[e].pc = "next" /\ e_run[e].pc \in InTrial /\ e_run[e].pc \in E!Active
  BY DEF E!Advance, InTrial, E!Active
<1>2. UNCHANGED <<e_world, e_edited, e_protocol, e_group, e_input, e_opened, e_record, e_bundle,
                  e_orphans, e_overlap>>
  BY DEF E!Advance, E!worldVars
<1>3. /\ e_run[e].view = e_protocol /\ e_protocol \in Views /\ e_protocol.inputs \in 0..1
      /\ E!Trial(e) \in E!Trials /\ e_run[e] \in Runs
      /\ e_run[e].todo \in Seq(E!Expected(e_protocol.inputs)) /\ e_run[e].todo # <<>>
  BY <1>1, OfATrial, OfAnEvaluator
<1>4. e_run[e].result \in E!Records /\ e_run[e].result = e_record[E!Trial(e)]
  BY <1>1, OfAnEvaluator DEF KnowsTheRecords, E!Trial
<1>5. /\ kept \in [E!Trials -> Outcomes] /\ kept[E!Trial(e)] = e_run[e].result
      /\ \A t \in E!Trials : t # E!Trial(e) => kept[t] = e_run[e].records[t]
  BY <1>3, OfAnEvaluator
<1>6. Tail(e_run[e].todo) \in Seq(E!Expected(e_protocol.inputs))
      /\ Tail(e_run[e].todo) \in Seq(E!Trials)
  BY <1>3, OfAnEvaluator, HeadTailProperties
<1>7. \A t \in E!ToSet(e_run[e].todo) : t = E!Trial(e) \/ t \in E!ToSet(Tail(e_run[e].todo))
  <2> DEFINE s == e_run[e].todo
  <2>1. s \in Seq(E!Expected(e_protocol.inputs)) /\ s # <<>>
    BY <1>3
  <2> HIDE DEF s
  <2>2. Len(s) \in Nat /\ Len(s) # 0 /\ DOMAIN s = 1..Len(s)
    BY <2>1, EmptySeq
  <2>3. Len(Tail(s)) = Len(s) - 1 /\ \A i \in 1 .. Len(s) - 1 : Tail(s)[i] = s[i + 1]
    BY <2>1, <2>2, HeadTailProperties
  <2>4. DOMAIN Tail(s) = 1 .. Len(s) - 1
    BY <2>1, <2>3, HeadTailProperties
  <2> SUFFICES ASSUME NEW i \in 1..Len(s), i # 1 PROVE s[i] \in E!ToSet(Tail(s))
    BY <2>1, <2>2, HeadTailProperties DEF s, E!Trial, E!ToSet
  <2>5. i - 1 \in 1 .. Len(s) - 1 /\ Tail(s)[i - 1] = s[i]
    BY <2>2, <2>3
  <2> QED BY <2>4, <2>5 DEF E!ToSet
<1> HIDE DEF kept
<1>8. /\ r \in Runs /\ r.pc = "trial" /\ r.view = e_run[e].view /\ r.todo = Tail(e_run[e].todo)
      /\ r.records = kept /\ r.snapshot = e_run[e].snapshot /\ r.result = E!None
  <2>1. "trial" \in E!Active
    BY DEF E!Active
  <2> QED BY <1>3, <1>5, <1>6, <2>1, NoneIsNoRecord DEF Runs
<1>9. e_run' = [e_run EXCEPT ![e] = r]
      /\ e_partial' = E!PartialPayload(e_run[e].view.inputs, kept, {})
  BY DEF E!Advance, kept
<1> HIDE DEF r
<1>10. OnlyMoves(e) /\ e_run'[e] = r
  BY <1>8, <1>9 DEF OnlyMoves, RunInv, RunTyped
<1>11. \A t \in E!Trials : kept[t] # E!None => kept[t] = e_record[t]
  BY <1>4, <1>5, OfAnEvaluator DEF KnowsTheRecords
<1>12. KnowsTheRecords(e_run[e])'
  <2>1. r.view \in Views /\ r.view = e_protocol /\ r.pc \notin InTrial /\ r.pc \in Looping
    BY <1>3, <1>8 DEF InTrial, Looping
  <2>2. \A t \in E!Expected(e_protocol.inputs) : kept[t] # E!None \/ t \in E!ToSet(r.todo)
    <3> SUFFICES ASSUME NEW t \in E!Expected(e_protocol.inputs), t \notin E!ToSet(r.todo)
                 PROVE  kept[t] # E!None
      OBVIOUS
    <3>1. t \in E!Trials
      BY <1>3, ApprovedAreHeldOut
    <3>2. e_run[e].records[t] # E!None \/ t \in E!ToSet(e_run[e].todo)
      BY <1>1, <1>3, OfAnEvaluator DEF KnowsTheRecords, Looping
    <3>3. CASE t = E!Trial(e)
      BY <3>3, <1>4, <1>5, NoneIsNoRecord
    <3>4. CASE t # E!Trial(e)
      BY <3>1, <3>2, <3>4, <1>5, <1>7, <1>8
    <3> QED BY <3>3, <3>4
  <2> QED BY <1>2, <1>6, <1>8, <1>10, <1>11, <2>1, <2>2 DEF KnowsTheRecords
<1>13. KnowsItsAttempt(e_run[e])' /\ IsAlone(e_run[e])' /\ IsOfTheFirst(e_run[e])'
  BY <1>1, <1>2, <1>8, <1>10, OfAnEvaluator, NoneIsNoRecord
  DEF KnowsItsAttempt, IsAlone, IsOfTheFirst, E!Active, Recording
<1>14. PartialFits'
  <2>1. {} \in SUBSET E!Included(e_protocol.inputs)
    OBVIOUS
  <2> QED BY <1>2, <1>3, <1>5, <1>9, <1>11, <2>1, PartialIsWritten
<1> QED BY <1>1, <1>2, <1>8, <1>10, <1>12, <1>13, <1>14, GoesOn DEF EvaluatorHolds, Looping

\* Everything is recorded: the evidence is sealed.
LEMMA SealKeeps ==
  ASSUME RunInv, NEW e \in Evaluators, E!Seal(e)
  PROVE  RunInv'
<1>1. e_run[e].pc = "trial" /\ e_run[e].todo = <<>> /\ e_run[e].pc \in E!Active
      /\ e_run[e].pc \in Looping
  BY DEF E!Seal, E!Active, Looping
<1>2. UNCHANGED <<e_world, e_edited, e_protocol, e_group, e_input, e_opened, e_record, e_partial,
                  e_bundle, e_orphans, e_overlap>>
  BY DEF E!Seal, E!worldVars, E!fileVars
<1>3. e_run[e].view = e_protocol /\ e_protocol \in Views /\ e_protocol.inputs \in 0..1
  BY <1>1, OfAnEvaluator DEF KnowsTheRecords, Views
<1>4. E!Recorded(e_run[e].records) = E!Expected(e_protocol.inputs)
  <2>1. E!ToSet(e_run[e].todo) = {}
    BY <1>1 DEF E!ToSet
  <2>2. \A t \in E!Expected(e_protocol.inputs) : t \in E!Trials /\ e_run[e].records[t] # E!None
    BY <1>1, <1>3, <2>1, OfAnEvaluator, ApprovedAreHeldOut DEF KnowsTheRecords
  <2>3. \A t \in E!Trials : e_run[e].records[t] # E!None => t \in E!Expected(e_protocol.inputs)
    BY OfAnEvaluator DEF KnowsTheRecords, RunInv, FilesHold, RecordsFit
  <2> QED BY <2>2, <2>3 DEF E!Recorded
<1>5. PartialFits'
  BY <1>2, SamePartial
<1>6. CASE E!OneSnapshot(e_run[e].records) /\ E!ContextHolds
  <2> DEFINE r == [e_run[e] EXCEPT !.pc = "publish", !.seal = E!Evidence]
  <2>1. e_run' = [e_run EXCEPT ![e] = r]
    BY <1>3, <1>4, <1>6 DEF E!Seal, E!SealOf
  <2>2. E!Evidence \in Evidences
    BY DEF RunInv, RunTyped, E!Evidence, Evidences
  <2>3. /\ r \in Runs /\ r.pc = "publish" /\ r.view = e_run[e].view /\ r.todo = e_run[e].todo
        /\ r.records = e_run[e].records /\ r.snapshot = e_run[e].snapshot
        /\ r.result = e_run[e].result /\ r.seal = E!Evidence
    <3>1. "publish" \in E!Active /\ e_run[e] \in Runs
      BY OfAnEvaluator DEF E!Active
    <3> HIDE DEF E!Evidence
    <3> QED BY <2>2, <3>1 DEF Runs
  <2> HIDE DEF r
  <2>4. OnlyMoves(e) /\ e_run'[e] = r
    BY <2>1, <2>3 DEF OnlyMoves, RunInv, RunTyped
  <2>5. KnowsTheRecords(e_run[e])'
    BY <1>1, <1>2, <1>6, <2>3, <2>4, OfAnEvaluator DEF KnowsTheRecords, E!Active, Looping, InTrial
  <2>6. KnowsItsAttempt(e_run[e])' /\ IsOfTheFirst(e_run[e])'
    BY <1>1, <1>2, <2>3, <2>4, OfAnEvaluator DEF KnowsItsAttempt, IsOfTheFirst, E!Active
  <2>7. IsAlone(e_run[e])'
    BY <1>1, <1>2, <2>3, <2>4, OfAnEvaluator DEF IsAlone, E!Active, Recording, E!Evidence
  <2> QED BY <1>1, <1>2, <1>5, <2>3, <2>4, <2>5, <2>6, <2>7, GoesOn DEF EvaluatorHolds, Looping
<1>7. CASE ~(E!OneSnapshot(e_run[e].records) /\ E!ContextHolds)
  <2>1. e_run' = [e_run EXCEPT ![e] = [E!Idle EXCEPT !.pc = "failed"]]
    BY <1>3, <1>4, <1>7 DEF E!Seal, E!End
  <2>2. e_edited
    <3> SUFFICES ASSUME ~e_edited PROVE FALSE
      OBVIOUS
    <3>1. \A t \in E!Trials : e_run[e].records[t].snapshot = 0
      BY OfAnEvaluator, NoneIsNoRecord
      DEF KnowsTheRecords, RunInv, FilesHold, FirstVersion
    <3>2. E!OneSnapshot(e_run[e].records)
      BY <3>1, OfAnEvaluator, FirstIsOneSnapshot
    <3> QED BY <1>1, <1>7, <3>2, NothingMoved
  <2> QED BY <1>1, <1>2, <1>5, <2>1, <2>2, EndKeeps
<1> QED BY <1>6, <1>7

\* The context is validated a last time.
LEMMA EvaluatorLastCheckKeeps ==
  ASSUME RunInv, NEW e \in Evaluators, E!LastCheck(e)
  PROVE  RunInv'
<1>1. e_run[e].pc \in E!Active
  BY DEF E!LastCheck, E!Active
<1>2. UNCHANGED <<e_world, e_edited, e_protocol, e_group, e_input, e_opened, e_record, e_partial,
                  e_bundle, e_orphans, e_overlap>>
  BY DEF E!LastCheck, E!worldVars, E!fileVars
<1>3. PartialFits'
  BY <1>2, SamePartial
<1>4. CASE E!ContextHolds
  <2>1. e_run' = [e_run EXCEPT ![e] = [E!Idle EXCEPT !.pc = "done"]]
    BY <1>4 DEF E!LastCheck, E!End
  <2> QED BY <1>1, <1>2, <1>3, <2>1, EndKeeps
<1>5. CASE ~E!ContextHolds
  <2>1. e_run' = [e_run EXCEPT ![e] = [E!Idle EXCEPT !.pc = "failed"]]
    BY <1>5 DEF E!LastCheck, E!End
  <2> QED BY <1>1, <1>2, <1>3, <1>5, <2>1, NothingMoved, EndKeeps
<1> QED BY <1>4, <1>5

-----------------------------------------------------------------------------
(* Steps that publish, write or open a file.                               *)

\* The protocol is published, or is the same.
LEMMA PublishProtocolKeeps ==
  ASSUME RunInv, NEW e \in Evaluators, E!PublishProtocol(e)
  PROVE  RunInv'
<1>1. e_run[e].pc = "protocol" /\ e_run[e].pc \in E!Active /\ e_run[e].view \in Views
  BY OfAnEvaluator DEF E!PublishProtocol, E!Active, KnowsTheRecords
<1>2. UNCHANGED <<e_world, e_edited, e_group, e_input, e_opened, e_record, e_partial, e_bundle,
                  e_orphans, e_overlap>>
  BY DEF E!PublishProtocol, E!worldVars
<1>3. CASE E!Published(e_protocol, E!NoProtocol, e_run[e].view)
  <2>1. e_protocol' = e_run[e].view /\ (e_protocol' = e_protocol \/ e_protocol = E!NoProtocol)
    BY <1>3 DEF E!PublishProtocol, E!Published
  <2>2. /\ OnlyMoves(e)
        /\ e_run'[e].pc = "bundle" /\ e_run'[e].view = e_run[e].view
        /\ e_run'[e].todo = e_run[e].todo
        /\ e_run'[e].records = e_run[e].records /\ e_run'[e].attempt = e_run[e].attempt
        /\ e_run'[e].snapshot = e_run[e].snapshot /\ e_run'[e].result = e_run[e].result
        /\ e_run'[e].seal = e_run[e].seal
    BY <1>3, GotoMoves DEF E!PublishProtocol, RunInv, Places, E!Active
  <2>3. KnowsTheRecords(e_run[e])'
    BY <1>1, <1>2, <2>1, <2>2, OfAnEvaluator DEF KnowsTheRecords, E!Active, Looping, InTrial
  <2>4. KnowsItsAttempt(e_run[e])' /\ IsAlone(e_run[e])' /\ IsOfTheFirst(e_run[e])'
    BY <1>1, <1>2, <2>2, OfAnEvaluator
    DEF KnowsItsAttempt, IsAlone, IsOfTheFirst, E!Active, Recording
  <2>5. CASE e_protocol' = e_protocol
    BY <1>1, <1>2, <2>2, <2>3, <2>4, <2>5, SamePartial, GoesOn DEF EvaluatorHolds, Looping
  <2>6. CASE e_protocol = E!NoProtocol
    <3>0. e_protocol \notin Views
      BY <2>6 DEF E!NoProtocol, Views
    <3>1. RunTyped'
      BY <1>1, <1>2, <2>1, <2>2 DEF RunInv, RunTyped, OnlyMoves
    <3>2. \A t \in E!Trials : E!Numbers(t)' = E!Numbers(t)
      BY <1>2 DEF E!Numbers
    <3>3. \A f \in Evaluators \ {e} :
            e_run[f].pc = "host" => E!Attempt(f, TRUE) \in (e_opened \ e_orphans)'
      BY <1>2, OfAnEvaluator DEF KnowsItsAttempt, E!Attempt, E!Trial
    <3>4. EvaluatorsHold'
      BY <1>1, <1>2, <2>1, <2>2, <2>3, <2>4, <3>2, <3>3, OthersStay
      DEF EvaluatorsHold, EvaluatorHolds
    <3>5. Apart'
      BY <1>1, <1>2, <2>2, ApartStays
    <3>6. RecordsFit' /\ BundleFits' /\ PartialFits' /\ SealHolds'
      BY <1>2, <2>6, <3>0
      DEF RunInv, FilesHold, RecordsFit, BundleFits, E!BundleIsTheRecords, PartialFits,
          E!PartialNeverOverstates, SealHolds
    <3>7. AttemptsFit'
      BY <1>2, <3>2 DEF RunInv, FilesHold, AttemptsFit
    <3>8. FirstVersion'
      BY <1>1, <1>2, <2>1, OfAnEvaluator DEF RunInv, FilesHold, FirstVersion, IsOfTheFirst
    <3>9. FailedForCause' /\ GroupsFit'
      BY <1>2, <2>2, CauseStays DEF TornForGood, Looping
    <3> QED BY <3>1, <3>4, <3>5, <3>6, <3>7, <3>8, <3>9 DEF RunInv, FilesHold
  <2> QED BY <2>1, <2>5, <2>6
<1>4. CASE ~E!Published(e_protocol, E!NoProtocol, e_run[e].view)
  <2>1. e_run' = [e_run EXCEPT ![e] = [E!Idle EXCEPT !.pc = "failed"]] /\ e_protocol' = e_protocol
    BY <1>4 DEF E!PublishProtocol, E!End
  <2>2. e_edited
    BY <1>1, <1>4, OfAnEvaluator
    DEF E!Published, RunInv, FilesHold, FirstVersion, IsOfTheFirst
  <2>3. PartialFits'
    BY <1>2, <2>1, SamePartial
  <2> QED BY <1>1, <1>2, <2>1, <2>2, <2>3, EndKeeps
<1> QED BY <1>3, <1>4

\* A step inside a trial that changes its input only: nobody else has it torn for good.
LEMMA InputKeeps ==
  ASSUME RunInv, NEW e \in Evaluators, e_run[e].pc \in InTrial, NEW x \in {"torn", "whole"},
         e_run[e].pc # "cases", NEW pc \in {"write", "scan"}, E!Goto(e, pc),
         ~e_overlap => e_record[E!Trial(e)] = E!None,
         pc = "write" => x = "torn", e_input' = [e_input EXCEPT ![E!Trial(e)] = x],
         ~TornForGood(E!Trial(e)),
         UNCHANGED <<e_world, e_edited, e_protocol, e_group, e_opened, e_record, e_partial, e_bundle,
                     e_orphans, e_overlap>>
  PROVE  RunInv'
<1>1. e_run[e].pc \in E!Active /\ e_run[e].pc \in Looping /\ E!Trial(e) \in E!Trials
      /\ e_run[e].pc \notin {"protocol", "bundle", "check"}
  BY Stations, OfATrial DEF InTrial
<1>2. /\ OnlyMoves(e)
      /\ e_run'[e].pc = pc /\ e_run'[e].view = e_run[e].view /\ e_run'[e].todo = e_run[e].todo
      /\ e_run'[e].records = e_run[e].records /\ e_run'[e].attempt = e_run[e].attempt
      /\ e_run'[e].snapshot = e_run[e].snapshot /\ e_run'[e].result = e_run[e].result
      /\ e_run'[e].seal = e_run[e].seal
  <2>1. pc \in Places
    BY DEF Places, E!Active
  <2> QED BY <2>1, GotoMoves DEF RunInv
<1>3. pc \in E!Active /\ pc \in Looping /\ pc \in InTrial /\ pc \in Recording /\ pc # "protocol"
  BY DEF E!Active, Looping, InTrial, Recording
<1>4. KnowsTheRecords(e_run[e])'
  <2>1. e_run[e].view = e_protocol /\ e_run[e].todo # <<>>
    BY OfATrial
  <2> QED BY <1>1, <1>2, <1>3, <2>1, OfAnEvaluator DEF KnowsTheRecords
<1>5. KnowsItsAttempt(e_run[e])' /\ IsOfTheFirst(e_run[e])'
  BY <1>1, <1>2, <1>3, OfAnEvaluator DEF KnowsItsAttempt, IsOfTheFirst
<1>6. IsAlone(e_run[e])'
  BY <1>1, <1>2, <1>3, OfAnEvaluator DEF IsAlone, E!Trial
<1>7. RunTyped'
  BY <1>1, <1>2 DEF RunInv, RunTyped, OnlyMoves
<1>8. \A t \in E!Trials : E!Numbers(t)' = E!Numbers(t)
  BY DEF E!Numbers
<1>9. \A f \in Evaluators \ {e} :
        e_run[f].pc = "host" => E!Attempt(f, TRUE) \in (e_opened \ e_orphans)'
  BY OfAnEvaluator DEF KnowsItsAttempt, E!Attempt, E!Trial
<1>10. EvaluatorsHold'
  BY <1>1, <1>2, <1>4, <1>5, <1>6, <1>8, <1>9, OthersStay DEF EvaluatorsHold, EvaluatorHolds
<1>11. Apart'
  BY <1>1, <1>2, ApartStays
<1>12. RecordsFit' /\ BundleFits' /\ FirstVersion'
  BY DEF RunInv, FilesHold, RecordsFit, BundleFits, E!BundleIsTheRecords, FirstVersion
<1>13. AttemptsFit' /\ PartialFits'
  BY <1>8, SamePartial DEF RunInv, FilesHold, AttemptsFit
<1>14. SealHolds'
  BY <1>1, OfAnEvaluator DEF SealHolds, IsAlone
<1>15. FailedForCause' /\ GroupsFit'
  <2>1. ASSUME NEW t \in E!Trials, TornForGood(t)
        PROVE  e_input'[t] = "torn" /\ (e_run'[e].pc = "write" => Head(e_run'[e].todo) # t)
    BY <1>2, <2>1 DEF TornForGood, E!Trial, RunInv, RunTyped
  <2>2. e_run'[e].pc # "failed"
    BY <1>2
  <2> QED BY <1>1, <1>2, <2>1, <2>2, CauseStays
<1> QED BY <1>7, <1>10, <1>11, <1>12, <1>13, <1>14, <1>15 DEF RunInv, FilesHold

\* The input of the trial is created, found whole, or found torn.
LEMMA OpenInputKeeps ==
  ASSUME RunInv, NEW e \in Evaluators, E!OpenInput(e)
  PROVE  RunInv'
<1>1. e_run[e].pc = "exists" /\ e_run[e].pc \in InTrial /\ e_run[e].pc \in E!Active
      /\ e_record[E!Trial(e)] = E!None
  BY DEF E!OpenInput, InTrial, E!Active
<1>2. UNCHANGED <<e_world, e_edited, e_protocol, e_group, e_opened, e_record, e_bundle, e_orphans,
                  e_overlap>>
  BY DEF E!OpenInput, E!worldVars
<1>3. E!Trial(e) \in E!Trials /\ e_input[E!Trial(e)] \in {"none", "torn", "whole"}
  BY <1>1, OfATrial DEF RunInv, RunTyped
<1>4. CASE e_input[E!Trial(e)] = "none"
  <2>1. e_input' = [e_input EXCEPT ![E!Trial(e)] = "torn"] /\ E!Goto(e, "write")
        /\ UNCHANGED e_partial
    BY <1>4 DEF E!OpenInput
  <2>2. ~TornForGood(E!Trial(e))
    BY <1>4 DEF TornForGood
  <2> QED BY <1>1, <1>2, <2>1, <2>2, InputKeeps
<1>5. CASE e_input[E!Trial(e)] = "torn"
  <2>1. UNCHANGED e_input /\ E!Raise(e)
    BY <1>5 DEF E!OpenInput
  <2>2. ~e_overlap => Caused
    <3> SUFFICES ASSUME ~e_overlap, NEW f \in Evaluators, e_run[f].pc = "write"
                 PROVE  E!Trial(f) # E!Trial(e)
      BY <1>3, <1>5 DEF TornForGood, Caused
    <3>1. f # e /\ e_run[f].pc \in E!Active
      BY <1>1 DEF E!Active
    <3> QED BY <1>1, <3>1 DEF RunInv, Apart
  <2> QED BY <1>1, <1>2, <1>3, <2>1, <2>2, RaiseKeeps
<1>6. CASE e_input[E!Trial(e)] = "whole"
  <2>1. UNCHANGED <<e_input, e_partial>> /\ E!Goto(e, "scan")
    BY <1>6 DEF E!OpenInput
  <2>2. e_input' = [e_input EXCEPT ![E!Trial(e)] = "whole"]
    BY <1>3, <1>6, <2>1 DEF RunInv, RunTyped
  <2>3. ~TornForGood(E!Trial(e))
    BY <1>6 DEF TornForGood
  <2> QED BY <1>1, <1>2, <2>1, <2>2, <2>3, InputKeeps
<1> QED BY <1>3, <1>4, <1>5, <1>6

\* The input is written.
LEMMA WriteInputKeeps ==
  ASSUME RunInv, NEW e \in Evaluators, E!WriteInput(e)
  PROVE  RunInv'
<1>1. e_run[e].pc = "write" /\ e_run[e].pc \in InTrial /\ ~TornForGood(E!Trial(e))
  BY DEF E!WriteInput, InTrial, TornForGood
<1>2. UNCHANGED <<e_world, e_edited, e_protocol, e_group, e_opened, e_record, e_partial, e_bundle,
                  e_orphans, e_overlap>>
  BY DEF E!WriteInput, E!worldVars
<1>3. ~e_overlap => e_record[E!Trial(e)] = E!None
  BY <1>1, OfAnEvaluator, Stations DEF IsAlone, Recording, E!Trial, E!WriteInput
<1> QED BY <1>1, <1>2, <1>3, InputKeeps DEF E!WriteInput

\* Opening an attempt takes its number.
LEMMA OpenedNumbers ==
  ASSUME NEW t \in E!Trials, NEW n \in Nat \ {0},
         e_opened' = e_opened \cup {[trial |-> t, number |-> n, on |-> TRUE]}
  PROVE  \A u \in E!Trials : E!Numbers(u)' = IF u = t THEN E!Numbers(u) \cup {n} ELSE E!Numbers(u)
<1> DEFINE a == [trial |-> t, number |-> n, on |-> TRUE]
<1>1. a.trial = t /\ a.number = n
  OBVIOUS
<1>2. e_opened' = e_opened \cup {a}
  OBVIOUS
<1> HIDE DEF a
<1> QED BY <1>1, <1>2 DEF E!Numbers

\* Closing an attempt keeps its number, and opens no other.
LEMMA ClosedNumbers ==
  ASSUME e_opened \in SUBSET Attempts, NEW a \in e_opened, e_opened' = E!Closed(a)
  PROVE  /\ e_opened' \in SUBSET Attempts
         /\ \A t \in E!Trials : E!Numbers(t)' = E!Numbers(t)
         /\ \A b \in e_opened : b # a => b \in e_opened'
<1> DEFINE c == [a EXCEPT !.on = FALSE]
<1>1. c \in Attempts /\ c.trial = a.trial /\ c.number = a.number
  BY DEF Attempts
<1>2. e_opened' = (e_opened \ {a}) \cup {c}
  BY DEF E!Closed
<1> HIDE DEF c
<1>3. \A t \in E!Trials : E!Numbers(t)' = E!Numbers(t)
  BY <1>1, <1>2 DEF E!Numbers
<1> QED BY <1>1, <1>2, <1>3

\* An attempt that goes on has a number.
LEMMA AttemptIsNumbered ==
  ASSUME NEW t, NEW n, [trial |-> t, number |-> n, on |-> TRUE] \in e_opened
  PROVE  n \in E!Numbers(t)
<1> DEFINE a == [trial |-> t, number |-> n, on |-> TRUE]
<1>1. a \in e_opened /\ a.trial = t /\ a.number = n
  OBVIOUS
<1> HIDE DEF a
<1> QED BY <1>1 DEF E!Numbers

\* The attempt is opened under a free number, which is the next one.
LEMMA LaunchKeeps ==
  ASSUME RunInv, NEW e \in Evaluators, E!Launch(e)
  PROVE  RunInv'
<1>1. e_run[e].pc = "launch" /\ e_run[e].pc \in InTrial /\ e_run[e].pc \in E!Active
  BY DEF E!Launch, InTrial, E!Active
<1>2. UNCHANGED <<e_world, e_edited, e_protocol, e_group, e_input, e_record, e_bundle, e_orphans,
                  e_overlap>>
  BY DEF E!Launch, E!worldVars
<1>3. E!Trial(e) \in E!Trials /\ e_run[e].view = e_protocol /\ e_run[e].todo # <<>>
  BY <1>1, OfATrial
<1> DEFINE n == e_run[e].attempt
           free == E!ContextHolds /\ E!IndexHolds(e) /\ n \notin E!Numbers(E!Trial(e))
<1>4. CASE ~free
  <2>1. E!Raise(e) /\ UNCHANGED e_opened
    BY <1>4 DEF E!Launch
  <2>2. e_edited \/ e_overlap
    BY <1>1, <1>4, NothingMoved, OfAnEvaluator DEF IsAlone, E!Trial
  <2> QED BY <1>1, <1>2, <2>1, <2>2, RaiseKeeps
<1>5. CASE free
  <2>1. e_opened' = e_opened \cup {E!Attempt(e, TRUE)} /\ E!Goto(e, "host") /\ UNCHANGED e_partial
    BY <1>5 DEF E!Launch
  <2>2. /\ OnlyMoves(e)
        /\ e_run'[e].pc = "host" /\ e_run'[e].view = e_run[e].view
        /\ e_run'[e].todo = e_run[e].todo
        /\ e_run'[e].records = e_run[e].records /\ e_run'[e].attempt = e_run[e].attempt
        /\ e_run'[e].snapshot = e_run[e].snapshot /\ e_run'[e].result = e_run[e].result
        /\ e_run'[e].seal = e_run[e].seal
    BY <2>1, GotoMoves DEF RunInv, Places, E!Active
  <2>3. n \in Nat \ {0} /\ 1 .. n - 1 \subseteq E!Numbers(E!Trial(e))
        /\ n \notin E!Numbers(E!Trial(e))
    BY <1>1, <1>5, OfAnEvaluator DEF KnowsItsAttempt, E!Trial
  <2>4. e_opened' = e_opened \cup {[trial |-> E!Trial(e), number |-> n, on |-> TRUE]}
    BY <2>1 DEF E!Attempt
  <2>5. \A u \in E!Trials :
          E!Numbers(u)' = IF u = E!Trial(e) THEN E!Numbers(u) \cup {n} ELSE E!Numbers(u)
    BY <1>3, <2>3, <2>4, OpenedNumbers
  <2>6. [trial |-> E!Trial(e), number |-> n, on |-> TRUE] \notin e_opened
    BY <2>3, AttemptIsNumbered
  <2>7. KnowsTheRecords(e_run[e])'
    BY <1>1, <1>2, <1>3, <2>2, OfAnEvaluator DEF KnowsTheRecords, E!Active, Looping, InTrial
  <2>8. KnowsItsAttempt(e_run[e])'
    <3>1. [trial |-> E!Trial(e), number |-> n, on |-> TRUE] \in e_opened' \ e_orphans'
      BY <1>2, <2>4, <2>6 DEF RunInv, FilesHold, AttemptsFit
    <3> QED BY <2>2, <3>1 DEF KnowsItsAttempt, E!Trial
  <2>9. IsAlone(e_run[e])' /\ IsOfTheFirst(e_run[e])'
    BY <1>1, <1>2, <2>2, OfAnEvaluator DEF IsAlone, IsOfTheFirst, E!Active, Recording, E!Trial
  <2>10. RunTyped'
    <3>1. [trial |-> E!Trial(e), number |-> n, on |-> TRUE] \in Attempts
      BY <1>3, <2>3 DEF Attempts
    <3> QED BY <1>2, <2>2, <2>4, <3>1 DEF RunInv, RunTyped, OnlyMoves
  <2>11. EvaluatorsHold'
    <3>1. \A f \in Evaluators \ {e} :
            e_run[f].pc = "host" => E!Attempt(f, TRUE) \in (e_opened \ e_orphans)'
      BY <1>2, <2>4, OfAnEvaluator DEF KnowsItsAttempt, E!Attempt, E!Trial
    <3> QED BY <1>1, <1>2, <2>2, <2>5, <2>7, <2>8, <2>9, <3>1, OthersStay
            DEF EvaluatorsHold, EvaluatorHolds
  <2>12. Apart'
    <3>1. ASSUME NEW f \in Evaluators \ {e}, e_run[f].pc = "host"
          PROVE  E!Trial(e) # E!Trial(f) \/ n # e_run[f].attempt
      BY <2>6, <3>1, OfAnEvaluator DEF KnowsItsAttempt, E!Trial
    <3> QED BY <1>1, <1>2, <2>2, <3>1, ApartStays DEF E!Trial
  <2>13. RecordsFit' /\ BundleFits' /\ FirstVersion' /\ PartialFits'
    BY <1>2, <2>1, SamePartial
    DEF RunInv, FilesHold, RecordsFit, BundleFits, E!BundleIsTheRecords, FirstVersion
  <2>14. SealHolds'
    BY <1>1, <1>2, OfAnEvaluator DEF SealHolds, IsAlone
  <2>15. AttemptsFit'
    <3>1. e_orphans' \subseteq {a \in e_opened' : a.on}
      BY <1>2, <2>1 DEF RunInv, FilesHold, AttemptsFit
    <3>2. ASSUME NEW t \in E!Trials PROVE \E m \in Nat : E!Numbers(t)' = 1..m
      <4>1. PICK m \in Nat : E!Numbers(t) = 1..m
        BY DEF RunInv, FilesHold, AttemptsFit
      <4>2. CASE t # E!Trial(e)
        BY <2>5, <4>1, <4>2
      <4>3. CASE t = E!Trial(e)
        <5>1. n = m + 1
          <6>1. 1 .. n - 1 \subseteq 1..m /\ n \notin 1..m /\ n \in Nat \ {0}
            BY <2>3, <4>1, <4>3
          <6>2. n > m
            BY <6>1
          <6>3. n - 1 <= m
            <7>1. CASE n = 1
              BY <7>1
            <7>2. CASE n # 1
              <8>1. n - 1 \in 1 .. n - 1
                BY <6>1, <7>2
              <8> QED BY <6>1, <8>1
            <7> QED BY <7>1, <7>2
          <6> QED BY <6>1, <6>2, <6>3
        <5>2. E!Numbers(t)' = (1..m) \cup {m + 1}
          BY <2>5, <4>1, <4>3, <5>1
        <5>3. (1..m) \cup {m + 1} = 1 .. m + 1 /\ m + 1 \in Nat
          OBVIOUS
        <5> QED BY <5>2, <5>3
      <4> QED BY <4>2, <4>3
    <3> QED BY <3>1, <3>2 DEF AttemptsFit
  <2>16. FailedForCause' /\ GroupsFit'
    BY <1>1, <1>2, <2>2, CauseStays DEF TornForGood, Looping
  <2> QED BY <2>10, <2>11, <2>12, <2>13, <2>14, <2>15, <2>16 DEF RunInv, FilesHold
<1> QED BY <1>4, <1>5

\* The host ends with a result, and the attempt is closed.
LEMMA HostEndsKeeps ==
  ASSUME RunInv, NEW e \in Evaluators, E!HostEnds(e)
  PROVE  RunInv'
<1>1. e_run[e].pc = "host" /\ e_run[e].pc \in InTrial /\ e_run[e].pc \in E!Active
  BY DEF E!HostEnds, InTrial, E!Active
<1>2. UNCHANGED <<e_world, e_edited, e_protocol, e_group, e_input, e_record, e_partial, e_bundle,
                  e_orphans, e_overlap>>
  BY DEF E!HostEnds, E!worldVars
<1>3. E!Trial(e) \in E!Trials /\ e_run[e].view = e_protocol /\ e_run[e].todo # <<>>
      /\ e_run[e] \in Runs
  BY <1>1, OfATrial, OfAnEvaluator
<1>4. PICK x \in E!Records :
        /\ x.outcome = "completed" => x.snapshot = e_run[e].snapshot /\ x.snapshot = e_world.candidate
        /\ e_run' = [e_run EXCEPT ![e].pc = "validate", ![e].result = x, ![e].attempt = 0,
                                ![e].snapshot = 0 - 1]
  BY DEF E!HostEnds
<1> DEFINE r == [e_run[e] EXCEPT !.pc = "validate", !.result = x, !.attempt = 0, !.snapshot = 0 - 1]
<1>5. /\ r \in Runs /\ r.pc = "validate" /\ r.view = e_run[e].view /\ r.todo = e_run[e].todo
      /\ r.records = e_run[e].records /\ r.snapshot = 0 - 1 /\ r.result = x
  <2>1. "validate" \in E!Active /\ x \in Outcomes
    BY DEF E!Active, Outcomes
  <2> QED BY <1>3, <2>1 DEF Runs
<1>6. e_run' = [e_run EXCEPT ![e] = r]
  BY <1>4
<1> HIDE DEF r
<1>7. OnlyMoves(e) /\ e_run'[e] = r
  BY <1>5, <1>6 DEF OnlyMoves, RunInv, RunTyped
<1> DEFINE a == E!Attempt(e, TRUE)
<1>8. a \in e_opened /\ a \notin e_orphans /\ e_opened' = E!Closed(a)
  BY <1>1, OfAnEvaluator DEF E!HostEnds, KnowsItsAttempt, E!Attempt, E!Trial
<1>9. /\ e_opened' \in SUBSET Attempts
      /\ \A t \in E!Trials : E!Numbers(t)' = E!Numbers(t)
      /\ \A b \in e_opened : b # a => b \in e_opened'
  <2> HIDE DEF a
  <2> QED BY <1>8, ClosedNumbers DEF RunInv, RunTyped
<1>10. KnowsTheRecords(e_run[e])'
  BY <1>1, <1>2, <1>3, <1>5, <1>7, OfAnEvaluator
  DEF KnowsTheRecords, E!Active, Looping, InTrial
<1>11. KnowsItsAttempt(e_run[e])' /\ IsAlone(e_run[e])'
  BY <1>1, <1>2, <1>5, <1>7, OfAnEvaluator DEF KnowsItsAttempt, IsAlone, E!Active, Recording
<1>12. IsOfTheFirst(e_run[e])'
  <2>1. ~e_edited => x.snapshot = 0
    BY <1>4 DEF RunInv, FilesHold, FirstVersion, E!Records, E!None
  <2> QED BY <1>1, <1>2, <1>5, <1>7, <2>1, OfAnEvaluator DEF IsOfTheFirst
<1>13. RunTyped'
  BY <1>2, <1>7, <1>9 DEF RunInv, RunTyped, OnlyMoves
<1>14. \A f \in Evaluators \ {e} : e_run[f].pc = "host" => E!Attempt(f, TRUE) # a
  BY <1>1 DEF RunInv, Apart, E!Attempt, E!Trial
<1>15. EvaluatorsHold'
  <2>1. \A f \in Evaluators \ {e} :
          e_run[f].pc = "host" => E!Attempt(f, TRUE) \in e_opened /\ E!Attempt(f, TRUE) \notin e_orphans
    BY OfAnEvaluator DEF KnowsItsAttempt, E!Attempt, E!Trial
  <2>2. \A f \in Evaluators \ {e} :
          e_run[f].pc = "host" => E!Attempt(f, TRUE) \in (e_opened \ e_orphans)'
    <3> HIDE DEF a
    <3> QED BY <1>2, <1>9, <1>14, <2>1
  <2> QED BY <1>1, <1>2, <1>7, <1>9, <1>10, <1>11, <1>12, <2>2, OthersStay
          DEF EvaluatorsHold, EvaluatorHolds
<1>16. Apart'
  BY <1>1, <1>2, <1>5, <1>7, ApartStays
<1>17. RecordsFit' /\ BundleFits' /\ FirstVersion' /\ PartialFits'
  BY <1>2, SamePartial
  DEF RunInv, FilesHold, RecordsFit, BundleFits, E!BundleIsTheRecords, FirstVersion
<1>18. SealHolds'
  BY <1>1, <1>2, OfAnEvaluator DEF SealHolds, IsAlone
<1>19. AttemptsFit'
  <2>1. e_orphans' \subseteq {b \in e_opened' : b.on}
    <3> HIDE DEF a
    <3> QED BY <1>2, <1>8, <1>9 DEF RunInv, FilesHold, AttemptsFit
  <2> QED BY <1>9, <2>1 DEF RunInv, FilesHold, AttemptsFit
<1>20. FailedForCause' /\ GroupsFit'
  BY <1>1, <1>2, <1>5, <1>7, CauseStays DEF TornForGood, Looping
<1> QED BY <1>13, <1>15, <1>16, <1>17, <1>18, <1>19, <1>20 DEF RunInv, FilesHold

\* The record of a trial is linked into place, or is there with these bytes.
LEMMA RecordTrialKeeps ==
  ASSUME RunInv, NEW e \in Evaluators, E!RecordTrial(e)
  PROVE  RunInv'
<1>1. e_run[e].pc = "record" /\ e_run[e].pc \in InTrial /\ e_run[e].pc \in E!Active
      /\ e_run[e].result \in E!Records
  BY OfAnEvaluator DEF E!RecordTrial, InTrial, E!Active, KnowsTheRecords
<1>2. UNCHANGED <<e_world, e_edited, e_protocol, e_group, e_input, e_opened, e_bundle, e_orphans,
                  e_overlap>>
  BY DEF E!RecordTrial, E!worldVars
<1>3. /\ E!Trial(e) \in E!Trials /\ e_run[e].view = e_protocol /\ e_run[e].todo # <<>>
      /\ e_protocol \in Views /\ E!Trial(e) \in E!Expected(e_protocol.inputs)
  BY <1>1, OfATrial
<1>4. CASE ~E!MayRecord(e)
  <2>1. E!Raise(e) /\ UNCHANGED e_record
    BY <1>4 DEF E!RecordTrial
  <2>2. e_overlap
    BY <1>1, <1>4, OfAnEvaluator DEF E!MayRecord, E!Published, IsAlone, Recording, E!Trial
  <2> QED BY <1>1, <1>2, <2>1, <2>2, RaiseKeeps
<1>5. CASE E!MayRecord(e)
  <2>1. e_record' = [e_record EXCEPT ![E!Trial(e)] = e_run[e].result] /\ E!Goto(e, "next")
        /\ UNCHANGED e_partial
    BY <1>5 DEF E!RecordTrial
  <2>2. /\ OnlyMoves(e)
        /\ e_run'[e].pc = "next" /\ e_run'[e].view = e_run[e].view
        /\ e_run'[e].todo = e_run[e].todo
        /\ e_run'[e].records = e_run[e].records /\ e_run'[e].attempt = e_run[e].attempt
        /\ e_run'[e].snapshot = e_run[e].snapshot /\ e_run'[e].result = e_run[e].result
        /\ e_run'[e].seal = e_run[e].seal
    BY <2>1, GotoMoves DEF RunInv, Places, E!Active
  <2>3. /\ e_record' \in [E!Trials -> Outcomes] /\ e_record'[E!Trial(e)] = e_run[e].result
        /\ \A t \in E!Trials : t # E!Trial(e) => e_record'[t] = e_record[t]
    BY <1>1, <1>3, <2>1 DEF RunInv, RunTyped, Outcomes
  <2>4. \A t \in E!Trials : e_record[t] # E!None => e_record'[t] = e_record[t]
    BY <1>5, <2>3 DEF E!MayRecord, E!Published
  <2>5. RunTyped'
    BY <1>2, <2>2, <2>3 DEF RunInv, RunTyped, OnlyMoves
  <2>6. \A t \in E!Trials : E!Numbers(t)' = E!Numbers(t)
    BY <1>2 DEF E!Numbers
  <2>7. KnowsTheRecords(e_run[e])'
    <3>1. \A t \in E!Trials : e_run[e].records[t] # E!None => e_run[e].records[t] = e_record'[t]
      BY <2>4, OfAnEvaluator DEF KnowsTheRecords
    <3> QED BY <1>1, <1>2, <1>3, <2>2, <2>3, <3>1, OfAnEvaluator
            DEF KnowsTheRecords, E!Active, Looping, InTrial, E!Trial
  <2>8. KnowsItsAttempt(e_run[e])' /\ IsAlone(e_run[e])' /\ IsOfTheFirst(e_run[e])'
    BY <1>1, <1>2, <2>2, OfAnEvaluator
    DEF KnowsItsAttempt, IsAlone, IsOfTheFirst, E!Active, Recording
  <2>9. EvaluatorsHold'
    <3>1. \A f \in Evaluators \ {e} :
            e_run[f].pc = "host" => E!Attempt(f, TRUE) \in (e_opened \ e_orphans)'
      BY <1>2, OfAnEvaluator DEF KnowsItsAttempt, E!Attempt, E!Trial
    <3> QED BY <1>1, <1>2, <2>2, <2>4, <2>6, <2>7, <2>8, <3>1, OthersStay
            DEF EvaluatorsHold, EvaluatorHolds
  <2>10. Apart'
    BY <1>1, <1>2, <2>2, ApartStays
  <2>11. RecordsFit'
    <3>1. e_protocol # E!NoProtocol
      BY <1>3 DEF Views, E!NoProtocol
    <3> QED BY <1>2, <1>3, <2>3, <3>1 DEF RunInv, FilesHold, RecordsFit
  <2>12. BundleFits'
    <3> SUFFICES ASSUME e_bundle # E!NoBundle PROVE BundleFits'
      BY <1>2 DEF BundleFits, E!BundleIsTheRecords
    <3>1. e_protocol.inputs \in 0..1 /\ E!Expected(e_protocol.inputs) \subseteq E!Trials
      BY <1>3, ApprovedAreHeldOut DEF Views
    <3>2. \A t \in E!Expected(e_protocol.inputs) : e_record[t] # E!None /\ e_record'[t] = e_record[t]
      BY <2>4, <3>1 DEF RunInv, FilesHold, BundleFits, E!BundleIsTheRecords
    <3>3. /\ e_protocol \in Views /\ e_bundle.protocol = e_protocol
          /\ DOMAIN e_bundle.results = E!Expected(e_protocol.inputs)
          /\ \A t \in E!Expected(e_protocol.inputs) : e_bundle.results[t] = e_record[t]
          /\ \A t, u \in E!Expected(e_protocol.inputs) :
               {e_record[t].outcome, e_record[u].outcome} = {"completed"} =>
                 e_record[t].snapshot = e_record[u].snapshot
      BY DEF RunInv, FilesHold, BundleFits, E!BundleIsTheRecords
    <3>4. \A t \in E!Expected(e_protocol.inputs) :
            e_bundle.results[t] = e_record'[t] /\ e_record'[t] # E!None
      BY <3>2, <3>3
    <3>5. \A t, u \in E!Expected(e_protocol.inputs) :
            {e_record'[t].outcome, e_record'[u].outcome} = {"completed"} =>
              e_record'[t].snapshot = e_record'[u].snapshot
      BY <3>2, <3>3
    <3> QED BY <1>2, <3>3, <3>4, <3>5 DEF BundleFits, E!BundleIsTheRecords
  <2>13. PartialFits'
    <3> SUFFICES ASSUME e_partial # E!NoPartial PROVE PartialFits'
      BY <2>1 DEF PartialFits, E!PartialNeverOverstates
    <3>1. PartialFits /\ e_protocol.inputs \in 0..1
      BY <1>3 DEF RunInv, FilesHold, Views
    <3>2. \A c \in e_partial.completed \cup e_partial.failed, m \in E!ToSet(E!Modes) :
            e_record[<<c, m>>] # E!None
      BY <3>1 DEF PartialFits, E!PartialNeverOverstates
    <3>3. \A c \in e_partial.completed \cup e_partial.failed, m \in E!ToSet(E!Modes) :
            <<c, m>> \in E!Trials
      <4>1. e_partial.completed \cup e_partial.failed \subseteq E!Included(e_protocol.inputs)
        BY <3>1 DEF PartialFits, E!PartialNeverOverstates
      <4> QED BY <3>1, <4>1, ApprovedAreHeldOut DEF E!Trials
    <3>4. \A c \in e_partial.completed \cup e_partial.failed, m \in E!ToSet(E!Modes) :
            e_record'[<<c, m>>] = e_record[<<c, m>>]
      BY <2>4, <3>2, <3>3
    <3> QED BY <1>2, <2>1, <3>1, <3>2, <3>4 DEF PartialFits, E!PartialNeverOverstates
  <2>14. AttemptsFit'
    BY <1>2, <2>6 DEF RunInv, FilesHold, AttemptsFit
  <2>15. SealHolds'
    BY <1>1, <1>2, OfAnEvaluator DEF SealHolds, IsAlone
  <2>16. FirstVersion'
    BY <1>2, <2>3, OfAnEvaluator DEF RunInv, FilesHold, FirstVersion, IsOfTheFirst
  <2>17. FailedForCause' /\ GroupsFit'
    BY <1>1, <1>2, <2>2, CauseStays DEF TornForGood, Looping
  <2> QED BY <2>5, <2>9, <2>10, <2>11, <2>12, <2>13, <2>14, <2>15, <2>16, <2>17
          DEF RunInv, FilesHold
<1> QED BY <1>4, <1>5

\* The bundle is linked into place.
LEMMA PublishBundleKeeps ==
  ASSUME RunInv, NEW e \in Evaluators, E!PublishBundle(e)
  PROVE  RunInv'
<1>1. e_run[e].pc = "publish" /\ e_run[e].pc \in E!Active /\ e_run[e].pc \in Looping
      /\ e_run[e].todo = <<>> /\ E!OneSnapshot(e_run[e].records)
  BY OfAnEvaluator DEF E!PublishBundle, E!Active, Looping, KnowsTheRecords
<1>2. UNCHANGED <<e_world, e_edited, e_protocol, e_group, e_input, e_opened, e_record, e_partial,
                  e_orphans, e_overlap>>
  BY DEF E!PublishBundle, E!worldVars
<1>3. e_run[e].view = e_protocol /\ e_protocol \in Views /\ e_protocol.inputs \in 0..1
  BY <1>1, OfAnEvaluator DEF KnowsTheRecords, Views
<1>4. PartialFits'
  BY <1>2, SamePartial
<1>5. CASE e_bundle # E!NoBundle /\ UNCHANGED e_bundle /\ E!End(e, "failed")
  <2>1. e_overlap
    BY <1>1, <1>5, OfAnEvaluator DEF IsAlone
  <2>2. e_run' = [e_run EXCEPT ![e] = [E!Idle EXCEPT !.pc = "failed"]]
    BY <1>5 DEF E!End
  <2> QED BY <1>1, <1>2, <1>4, <1>5, <2>1, <2>2, EndKeeps
<1>6. CASE E!Goto(e, "check")
  <2>1. /\ OnlyMoves(e)
        /\ e_run'[e].pc = "check" /\ e_run'[e].view = e_run[e].view
        /\ e_run'[e].todo = e_run[e].todo
        /\ e_run'[e].records = e_run[e].records /\ e_run'[e].attempt = e_run[e].attempt
        /\ e_run'[e].snapshot = e_run[e].snapshot /\ e_run'[e].result = e_run[e].result
        /\ e_run'[e].seal = e_run[e].seal
    BY <1>6, GotoMoves DEF RunInv, Places, E!Active
  <2>2. KnowsTheRecords(e_run[e])'
    BY <1>1, <1>2, <2>1, OfAnEvaluator DEF KnowsTheRecords, E!Active, Looping, InTrial
  <2>3. KnowsItsAttempt(e_run[e])' /\ IsAlone(e_run[e])' /\ IsOfTheFirst(e_run[e])'
    BY <1>1, <1>2, <2>1, OfAnEvaluator
    DEF KnowsItsAttempt, IsAlone, IsOfTheFirst, E!Active, Recording
  <2>4. CASE UNCHANGED e_bundle
    BY <1>1, <1>2, <1>4, <2>1, <2>2, <2>3, <2>4, GoesOn DEF EvaluatorHolds, Looping
  <2>5. CASE e_bundle = E!NoBundle /\ e_bundle' = E!NewBundle(e)
    <3>1. RunTyped'
      BY <1>2, <2>1 DEF RunInv, RunTyped, OnlyMoves
    <3>2. \A t \in E!Trials : E!Numbers(t)' = E!Numbers(t)
      BY <1>2 DEF E!Numbers
    <3>3. \A f \in Evaluators \ {e} :
            e_run[f].pc = "host" => E!Attempt(f, TRUE) \in (e_opened \ e_orphans)'
      BY <1>2, OfAnEvaluator DEF KnowsItsAttempt, E!Attempt, E!Trial
    <3>4. EvaluatorsHold'
      BY <1>1, <1>2, <2>1, <2>2, <2>3, <3>2, <3>3, OthersStay
      DEF EvaluatorsHold, EvaluatorHolds
    <3>5. Apart'
      BY <1>1, <1>2, <2>1, ApartStays
    <3>6. RecordsFit' /\ FirstVersion'
      BY <1>2 DEF RunInv, FilesHold, RecordsFit, FirstVersion
    <3>7. BundleFits'
      <4> DEFINE all == E!Expected(e_protocol.inputs)
      <4>1. /\ e_bundle'.protocol = e_protocol /\ e_bundle'.seal = e_run[e].seal
            /\ e_bundle'.results = [t \in all |-> e_run[e].records[t]]
        BY <1>3, <2>5 DEF E!NewBundle
      <4>2. all \subseteq E!Trials
        BY <1>3, ApprovedAreHeldOut
      <4>3. \A t \in all : e_run[e].records[t] # E!None /\ e_run[e].records[t] = e_record[t]
        <5>1. E!ToSet(e_run[e].todo) = {}
          BY <1>1 DEF E!ToSet
        <5> QED BY <1>1, <1>3, <4>2, <5>1, OfAnEvaluator DEF KnowsTheRecords
      <4>4. \A t, u \in all : {e_record[t].outcome, e_record[u].outcome} = {"completed"} =>
                                e_record[t].snapshot = e_record[u].snapshot
        <5> SUFFICES ASSUME NEW t \in all, NEW u \in all,
                            {e_record[t].outcome, e_record[u].outcome} = {"completed"}
                     PROVE  e_record[t].snapshot = e_record[u].snapshot
          OBVIOUS
        <5>1. e_run[e].records[t].outcome = "completed"
              /\ e_run[e].records[u].outcome = "completed"
          BY <4>3
        <5>2. e_run[e].records[t].snapshot = e_run[e].records[u].snapshot
          BY <1>1, <4>2, <5>1, OfAnEvaluator, OneSnapshotMeans
        <5> QED BY <4>3, <5>2
      <4>5. /\ DOMAIN e_bundle'.results = all
            /\ \A t \in all : e_bundle'.results[t] = e_record[t]
        BY <4>1, <4>3
      <4> QED BY <1>2, <1>3, <4>1, <4>3, <4>4, <4>5 DEF BundleFits, E!BundleIsTheRecords
    <3>8. AttemptsFit'
      BY <1>2, <3>2 DEF RunInv, FilesHold, AttemptsFit
    <3>9. SealHolds'
      <4>1. e_bundle'.seal = e_run[e].seal
        BY <2>5 DEF E!NewBundle
      <4> QED BY <1>1, <1>2, <4>1, OfAnEvaluator DEF SealHolds, IsAlone, E!Evidence
    <3>10. FailedForCause' /\ GroupsFit'
      BY <1>1, <1>2, <2>1, CauseStays DEF TornForGood, Looping
    <3> QED BY <1>4, <3>1, <3>4, <3>5, <3>6, <3>7, <3>8, <3>9, <3>10 DEF RunInv, FilesHold
  <2> QED BY <1>5, <1>6, <2>4, <2>5 DEF E!PublishBundle
<1> QED BY <1>5, <1>6 DEF E!PublishBundle

-----------------------------------------------------------------------------
(* Beginning, and what happens around the evaluators.                      *)

\* A run beside another one is an overlap.
LEMMA EvaluatorBeginKeeps ==
  ASSUME RunInv, NEW e \in Evaluators, E!Begin(e)
  PROVE  RunInv'
<1> DEFINE r == [E!Idle EXCEPT !.pc = "protocol",
                             !.view = [inputs |-> e_world.inputs, index |-> e_world.index]]
<1>1. UNCHANGED <<e_world, e_edited, e_protocol, e_group, e_input, e_opened, e_record, e_partial,
                  e_bundle, e_orphans>>
  BY DEF E!Begin, E!worldVars, E!fileVars
<1>2. e_run[e].pc \in {"idle", "done", "failed"} /\ e_run' = [e_run EXCEPT ![e] = r]
  BY DEF E!Begin
<1>3. [inputs |-> e_world.inputs, index |-> e_world.index] \in Views
  BY DEF RunInv, RunTyped, Views
<1>4. /\ r \in Runs /\ r.pc = "protocol" /\ r.view \in Views
      /\ r.view = [inputs |-> e_world.inputs, index |-> e_world.index]
      /\ r.records = [t \in E!Trials |-> E!None] /\ r.snapshot = 0 - 1 /\ r.result = E!None
  <2>1. "protocol" \in E!Active
    BY DEF E!Active
  <2> QED BY <1>3, <2>1, IdleIsTyped DEF Runs, E!Idle
<1> HIDE DEF r
<1>5. OnlyMoves(e) /\ e_run'[e] = r
  BY <1>2, <1>4 DEF OnlyMoves, RunInv, RunTyped
<1>6. /\ e_overlap' \in BOOLEAN /\ (e_overlap => e_overlap')
      /\ ~e_overlap' => e_orphans = {} /\ \A f \in Evaluators \ {e} : e_run[f].pc \notin E!Active
  BY DEF E!Begin, RunInv, RunTyped
<1>7. RunTyped'
  BY <1>1, <1>5, <1>6 DEF RunInv, RunTyped, OnlyMoves
<1>8. \A t \in E!Trials : E!Numbers(t)' = E!Numbers(t)
  BY <1>1 DEF E!Numbers
<1>9. EvaluatorsHold'
  <2> SUFFICES ASSUME NEW f \in Evaluators PROVE EvaluatorHolds(e_run[f])'
    BY DEF EvaluatorsHold
  <2>1. CASE f = e
    <3>1. KnowsTheRecords(e_run[f])'
      BY <1>4, <1>5, <2>1 DEF KnowsTheRecords, Looping, InTrial
    <3>2. KnowsItsAttempt(e_run[f])' /\ IsAlone(e_run[f])'
      BY <1>1, <1>4, <1>5, <1>6, <2>1 DEF KnowsItsAttempt, IsAlone, Recording
    <3>3. IsOfTheFirst(e_run[f])'
      BY <1>1, <1>4, <1>5, <2>1, NoneIsNoRecord
      DEF IsOfTheFirst, RunInv, FilesHold, FirstVersion, FirstView
    <3> QED BY <3>1, <3>2, <3>3 DEF EvaluatorHolds
  <2>2. CASE f # e
    <3>1. e_run'[f] = e_run[f] /\ e_run[f] \in Runs /\ EvaluatorHolds(e_run[f])
      BY <1>5, <2>2, OfAnEvaluator DEF OnlyMoves, EvaluatorHolds
    <3>2. e_run[f].pc \in E!Active => e_overlap'
      BY <1>6, <2>2
    <3>3. e_run[f].pc \in InTrial => E!Trial(f) \in E!Trials
      BY OfATrial
    <3>4. e_run[f].pc = "host" => E!Attempt(f, TRUE) \in (e_opened \ e_orphans)'
      BY <1>1, OfAnEvaluator DEF KnowsItsAttempt, E!Attempt, E!Trial
    <3> QED BY <1>1, <1>8, <3>1, <3>2, <3>3, <3>4, EvaluatorOthersHold DEF InTrial
  <2> QED BY <2>1, <2>2
<1>10. Apart'
  <2> SUFFICES ASSUME NEW f \in Evaluators, NEW g \in Evaluators, f # g
               PROVE  /\ e_run'[f].pc = "host" /\ e_run'[g].pc = "host" =>
                           Head(e_run'[f].todo) # Head(e_run'[g].todo)
                           \/ e_run'[f].attempt # e_run'[g].attempt
                      /\ e_run'[f].pc \in E!Active /\ e_run'[g].pc \in E!Active => e_overlap'
    BY DEF Apart, E!Trial
  <2>1. CASE f # e /\ g # e
    BY <1>5, <1>6, <2>1 DEF OnlyMoves, RunInv, Apart, E!Trial
  <2>2. CASE f = e
    BY <1>4, <1>5, <1>6, <2>2 DEF OnlyMoves
  <2>3. CASE g = e
    BY <1>4, <1>5, <1>6, <2>3 DEF OnlyMoves
  <2> QED BY <2>1, <2>2, <2>3
<1>11. RecordsFit' /\ BundleFits' /\ FirstVersion' /\ PartialFits'
  BY <1>1, SamePartial
  DEF RunInv, FilesHold, RecordsFit, BundleFits, E!BundleIsTheRecords, FirstVersion
<1>12. AttemptsFit' /\ SealHolds'
  BY <1>1, <1>6, <1>8 DEF RunInv, FilesHold, AttemptsFit, SealHolds, E!Evidence
<1>13. FailedForCause'
  <2> SUFFICES ASSUME NEW f \in Evaluators, e_run'[f].pc = "failed", ~e_edited, ~e_overlap',
                      Approved[0] # <<>>
               PROVE  Caused'
    BY <1>1 DEF FailedForCause
  <2>1. e_run[f].pc = "failed" /\ ~e_overlap
    BY <1>4, <1>5, <1>6 DEF OnlyMoves
  <2>2. Caused
    BY <2>1 DEF RunInv, FailedForCause
  <2>3. \A g \in Evaluators : e_run'[g].pc \in {"write", "cases"} => e_run'[g] = e_run[g]
    BY <1>4, <1>5 DEF OnlyMoves
  <2>4. ASSUME NEW t \in E!Trials, TornForGood(t) PROVE TornForGood(t)'
    BY <1>1, <2>3, <2>4 DEF TornForGood, E!Trial
  <2>5. ASSUME NEW c \in HeldOut, BareForGood(c) PROVE BareForGood(c)'
    BY <1>1, <2>3, <2>5 DEF BareForGood, E!Trial
  <2> QED BY <2>2, <2>4, <2>5 DEF Caused
<1>14. GroupsFit'
  <2>1. "protocol" \notin Looping
    BY DEF Looping
  <2> QED BY <1>1, <1>4, <1>5, <1>6, <2>1 DEF OnlyMoves, RunInv, GroupsFit, E!Trial
<1> QED BY <1>7, <1>9, <1>10, <1>11, <1>12, <1>13, <1>14 DEF RunInv, FilesHold

\* An evaluator is killed; its host dies with it, or becomes an orphan.
LEMMA CrashKeeps ==
  ASSUME RunInv, NEW e \in Evaluators, E!Crash(e)
  PROVE  RunInv'
<1>1. e_run[e].pc \in E!Active
      /\ UNCHANGED <<e_world, e_edited, e_protocol, e_group, e_input, e_opened, e_record, e_partial,
                     e_bundle, e_overlap>>
  BY DEF E!Crash, E!worldVars, E!fileVars
<1>2. e_run' = [e_run EXCEPT ![e] = [E!Idle EXCEPT !.pc = "idle"]]
  BY DEF E!Crash, E!Idle
<1>3. PartialFits'
  BY <1>1, SamePartial
<1>4. CASE e_orphans' = e_orphans
  BY <1>1, <1>2, <1>3, <1>4, EndKeeps
<1>5. CASE e_run[e].pc = "host" /\ e_orphans' = e_orphans \cup {E!Attempt(e, TRUE)}
  <2> DEFINE a == E!Attempt(e, TRUE)
  <2>1. /\ OnlyMoves(e) /\ e_run'[e].pc = "idle" /\ EvaluatorHolds(e_run[e])'
    <3>1. /\ OnlyMoves(e) /\ e_run'[e].pc = "idle"
          /\ e_run'[e].records = [t \in E!Trials |-> E!None]
          /\ e_run'[e].snapshot = 0 - 1 /\ e_run'[e].result = E!None
      BY <1>2, EndMoves DEF RunInv, Places
    <3> QED BY <3>1, RestHolds
  <2>2. a \in e_opened /\ a \notin e_orphans /\ a.on
    BY <1>5, OfAnEvaluator DEF KnowsItsAttempt, E!Attempt, E!Trial
  <2>3. \A f \in Evaluators \ {e} : e_run[f].pc = "host" => E!Attempt(f, TRUE) # a
    BY <1>5 DEF RunInv, Apart, E!Attempt, E!Trial
  <2>4. \A f \in Evaluators \ {e} :
          e_run[f].pc = "host" => E!Attempt(f, TRUE) \in (e_opened \ e_orphans)'
    <3>1. \A f \in Evaluators \ {e} :
            e_run[f].pc = "host" => E!Attempt(f, TRUE) \in e_opened /\ E!Attempt(f, TRUE) \notin e_orphans
      BY OfAnEvaluator DEF KnowsItsAttempt, E!Attempt, E!Trial
    <3> HIDE DEF a
    <3> QED BY <1>1, <1>5, <2>3, <3>1 DEF a
  <2>5. RunTyped'
    <3> HIDE DEF a
    <3> QED BY <1>1, <1>5, <2>1, <2>2 DEF RunInv, RunTyped, OnlyMoves, a
  <2>6. \A t \in E!Trials : E!Numbers(t)' = E!Numbers(t)
    BY <1>1 DEF E!Numbers
  <2>7. EvaluatorsHold'
    BY <1>1, <2>1, <2>4, <2>6, OthersStay DEF EvaluatorsHold
  <2>8. Apart'
    BY <1>1, <2>1, ApartStays
  <2>9. RecordsFit' /\ BundleFits' /\ FirstVersion'
    BY <1>1 DEF RunInv, FilesHold, RecordsFit, BundleFits, E!BundleIsTheRecords, FirstVersion
  <2>10. AttemptsFit'
    <3>1. e_orphans' \subseteq {b \in e_opened' : b.on}
      <4> HIDE DEF a
      <4> QED BY <1>1, <1>5, <2>2 DEF RunInv, FilesHold, AttemptsFit, a
    <3> QED BY <2>6, <3>1 DEF RunInv, FilesHold, AttemptsFit
  <2>11. SealHolds'
    BY <1>1, <1>5, OfAnEvaluator DEF SealHolds, IsAlone
  <2>12. FailedForCause' /\ GroupsFit'
    BY <1>1, <2>1, CauseStays DEF TornForGood, Looping
  <2> QED BY <1>3, <2>5, <2>7, <2>8, <2>9, <2>10, <2>11, <2>12 DEF RunInv, FilesHold
<1> QED BY <1>4, <1>5 DEF E!Crash

\* The host an evaluator left behind ends.
LEMMA OrphanEndsKeeps ==
  ASSUME RunInv, E!OrphanEnds
  PROVE  RunInv'
<1>1. PICK a \in e_orphans : e_orphans' = e_orphans \ {a} /\ e_opened' = E!Closed(a)
  BY DEF E!OrphanEnds
<1>2. UNCHANGED <<e_world, e_edited, e_protocol, e_group, e_input, e_record, e_partial, e_bundle, e_run,
                  e_overlap>>
  BY DEF E!OrphanEnds, E!worldVars
<1>3. a \in e_opened /\ e_opened \in SUBSET Attempts
  BY DEF RunInv, RunTyped, FilesHold, AttemptsFit
<1>4. /\ e_opened' \in SUBSET Attempts
      /\ \A t \in E!Trials : E!Numbers(t)' = E!Numbers(t)
      /\ \A b \in e_opened : b # a => b \in e_opened'
  BY <1>1, <1>3, ClosedNumbers
<1>5. RunTyped'
  BY <1>1, <1>2, <1>4 DEF RunInv, RunTyped
<1>6. EvaluatorsHold'
  <2> SUFFICES ASSUME NEW f \in Evaluators PROVE EvaluatorHolds(e_run[f])'
    BY DEF EvaluatorsHold
  <2>1. e_run'[f] = e_run[f] /\ e_run[f] \in Runs /\ EvaluatorHolds(e_run[f])
    BY <1>2, OfAnEvaluator DEF EvaluatorHolds
  <2>2. e_run[f].pc \in E!Active => e_overlap'
    BY <1>1, <1>2, OfAnEvaluator DEF IsAlone, RunInv, RunTyped
  <2>3. e_run[f].pc \in InTrial => E!Trial(f) \in E!Trials
    BY OfATrial
  <2>4. e_run[f].pc = "host" => E!Attempt(f, TRUE) \in (e_opened \ e_orphans)'
    <3>1. e_run[f].pc = "host" => E!Attempt(f, TRUE) \in e_opened /\ E!Attempt(f, TRUE) \notin e_orphans
      BY OfAnEvaluator DEF KnowsItsAttempt, E!Attempt, E!Trial
    <3> QED BY <1>1, <1>4, <3>1
  <2> QED BY <1>2, <1>4, <2>1, <2>2, <2>3, <2>4, EvaluatorOthersHold DEF InTrial
<1>7. Apart' /\ FailedForCause' /\ GroupsFit'
  BY <1>2 DEF RunInv, Apart, E!Trial, FailedForCause, Caused, TornForGood, BareForGood, GroupsFit
<1>8. RecordsFit' /\ BundleFits' /\ FirstVersion' /\ PartialFits'
  BY <1>2, SamePartial
  DEF RunInv, FilesHold, RecordsFit, BundleFits, E!BundleIsTheRecords, FirstVersion
<1>9. AttemptsFit'
  <2>1. e_orphans' \subseteq {b \in e_opened' : b.on}
    BY <1>1, <1>4 DEF RunInv, FilesHold, AttemptsFit
  <2> QED BY <1>4, <2>1 DEF RunInv, FilesHold, AttemptsFit
<1>10. SealHolds'
  BY <1>1, <1>2 DEF RunInv, FilesHold, SealHolds
<1> QED BY <1>5, <1>6, <1>7, <1>8, <1>9, <1>10 DEF RunInv, FilesHold

\* Somebody changes a part of the world.
LEMMA EditKeeps ==
  ASSUME RunInv, E!Edit
  PROVE  RunInv'
<1>1. UNCHANGED <<e_protocol, e_group, e_input, e_opened, e_record, e_partial, e_bundle, e_run,
                  e_orphans, e_overlap>>
      /\ e_edited' = TRUE
  BY DEF E!Edit, E!fileVars
<1>2. e_world' \in [candidate : 0..1, inputs : 0..1, index : 0..1]
  <2>1. e_world \in [candidate : 0..1, inputs : 0..1, index : 0..1]
    BY DEF RunInv, RunTyped
  <2>2. PICK part \in DOMAIN e_world : e_world' = [e_world EXCEPT ![part] = 1 - @]
    BY DEF E!Edit
  <2>3. part \in {"candidate", "inputs", "index"}
    BY <2>1, <2>2
  <2>4. CASE part = "candidate"
    BY <2>1, <2>2, <2>4
  <2>5. CASE part = "inputs"
    BY <2>1, <2>2, <2>5
  <2>6. CASE part = "index"
    BY <2>1, <2>2, <2>6
  <2> QED BY <2>3, <2>4, <2>5, <2>6
<1>3. \A t \in E!Trials : E!Numbers(t)' = E!Numbers(t)
  BY <1>1 DEF E!Numbers
<1>4. RunTyped'
  BY <1>1, <1>2 DEF RunInv, RunTyped
<1>5. EvaluatorsHold'
  <2> SUFFICES ASSUME NEW f \in Evaluators PROVE EvaluatorHolds(e_run[f])'
    BY DEF EvaluatorsHold
  <2>1. KnowsTheRecords(e_run[f])'
    BY <1>1, OfAnEvaluator DEF KnowsTheRecords
  <2>2. KnowsItsAttempt(e_run[f])' /\ IsAlone(e_run[f])'
    BY <1>1, OfAnEvaluator DEF KnowsItsAttempt, IsAlone, E!Evidence, E!Numbers
  <2>3. IsOfTheFirst(e_run[f])'
    BY <1>1 DEF IsOfTheFirst
  <2> QED BY <2>1, <2>2, <2>3 DEF EvaluatorHolds
<1>6. Apart' /\ FailedForCause' /\ FirstVersion' /\ GroupsFit'
  BY <1>1 DEF RunInv, Apart, E!Trial, FailedForCause, FirstVersion, GroupsFit
<1>7. RecordsFit' /\ BundleFits' /\ PartialFits' /\ SealHolds'
  BY <1>1, SamePartial
  DEF RunInv, FilesHold, RecordsFit, BundleFits, E!BundleIsTheRecords, SealHolds, E!Evidence
<1>8. AttemptsFit'
  BY <1>1, <1>3 DEF RunInv, FilesHold, AttemptsFit
<1> QED BY <1>4, <1>5, <1>6, <1>7, <1>8 DEF RunInv, FilesHold

-----------------------------------------------------------------------------
(* The invariant, and what it is for.                                      *)

\* Nothing is there yet, and everybody rests.
LEMMA RunStarts == E!Init => RunInv
<1> SUFFICES ASSUME E!Init PROVE RunInv
  OBVIOUS
<1>1. /\ e_world = [candidate |-> 0, inputs |-> 0, index |-> 0]
      /\ e_protocol = E!NoProtocol /\ e_bundle = E!NoBundle /\ e_partial = E!NoPartial
      /\ e_group = [c \in HeldOut |-> "none"] /\ e_input = [t \in E!Trials |-> "none"] /\ e_opened = {} /\ e_orphans = {}
      /\ e_record = [t \in E!Trials |-> E!None] /\ e_run = [e \in Evaluators |-> E!Idle]
      /\ e_edited = FALSE /\ e_overlap = FALSE
  BY DEF E!Init
<1>2. RunTyped
  <2>1. e_record \in [E!Trials -> Outcomes] /\ e_run \in [Evaluators -> Runs]
    BY <1>1, IdleIsTyped, NoneIsNoRecord
  <2>2. e_protocol \in Views \cup {E!NoProtocol}
    BY <1>1
  <2>3. e_world \in [candidate : 0..1, inputs : 0..1, index : 0..1]
    BY <1>1
  <2> QED BY <1>1, <2>1, <2>2, <2>3 DEF RunTyped
<1>3. \A e \in Evaluators :
        /\ e_run[e].pc = "idle" /\ e_run[e].records = [t \in E!Trials |-> E!None]
        /\ e_run[e].snapshot = 0 - 1 /\ e_run[e].result = E!None
  BY <1>1, IdleIsTyped
<1>4. "idle" \notin E!Active /\ "idle" \notin Looping /\ "idle" \notin InTrial
  BY DEF E!Active, Looping, InTrial
<1>5. EvaluatorsHold
  <2> SUFFICES ASSUME NEW e \in Evaluators PROVE EvaluatorHolds(e_run[e])
    BY DEF EvaluatorsHold
  <2>1. KnowsTheRecords(e_run[e])
    BY <1>3, <1>4 DEF KnowsTheRecords
  <2>2. KnowsItsAttempt(e_run[e]) /\ IsAlone(e_run[e]) /\ IsOfTheFirst(e_run[e])
    BY <1>3, <1>4, NoneIsNoRecord DEF KnowsItsAttempt, IsAlone, IsOfTheFirst
  <2> QED BY <2>1, <2>2 DEF EvaluatorHolds
<1>6. Apart /\ FailedForCause /\ GroupsFit
  BY <1>3, <1>4 DEF Apart, FailedForCause, GroupsFit
<1>7. RecordsFit /\ BundleFits /\ PartialFits /\ SealHolds
  BY <1>1
  DEF RecordsFit, BundleFits, E!BundleIsTheRecords, PartialFits, E!PartialNeverOverstates,
  SealHolds
<1>8. AttemptsFit
  <2>1. \A t \in E!Trials : E!Numbers(t) = 1..0
    BY <1>1 DEF E!Numbers
  <2> QED BY <1>1, <2>1 DEF AttemptsFit
<1>9. FirstVersion
  BY <1>1, NoneIsNoRecord DEF FirstVersion
<1> QED BY <1>2, <1>5, <1>6, <1>7, <1>8, <1>9 DEF RunInv, FilesHold

\* Every step keeps the invariant.
LEMMA RunIsKept == RunInv /\ [E!Next]_E!vars => RunInv'
<1> SUFFICES ASSUME RunInv, [E!Next]_E!vars PROVE RunInv'
  OBVIOUS
<1>1. ASSUME NEW e \in Evaluators, E!Step(e) PROVE RunInv'
  BY <1>1, PublishProtocolKeeps, ExistingBundleKeeps, LoadRecordsKeeps, StartTrialKeeps,
     MakeGroupKeeps, MakeCasesKeeps, TakeRecordKeeps, OpenInputKeeps, WriteInputKeeps, ScanAttemptsKeeps, LaunchKeeps,
     HostSnapshotKeeps, HostEndsKeeps, ValidateKeeps, RecordTrialKeeps, AdvanceKeeps,
     SealKeeps, PublishBundleKeeps, EvaluatorLastCheckKeeps DEF E!Step
<1>2. ASSUME NEW e \in Evaluators, E!Begin(e) \/ E!Crash(e) PROVE RunInv'
  BY <1>2, EvaluatorBeginKeeps, CrashKeeps
<1>3. CASE E!OrphanEnds \/ E!Edit
  BY <1>3, OrphanEndsKeeps, EditKeeps
<1>4. CASE UNCHANGED E!vars
  <2>1. UNCHANGED <<e_world, e_edited, e_protocol, e_group, e_input, e_opened, e_record, e_partial,
                    e_bundle, e_run,
                    e_orphans, e_overlap>>
    BY <1>4 DEF E!vars, E!worldVars, E!fileVars
  <2>2. \A t \in E!Trials : E!Numbers(t)' = E!Numbers(t)
    BY <2>1 DEF E!Numbers
  <2>3. RunTyped' /\ Apart' /\ FailedForCause' /\ GroupsFit'
    BY <2>1 DEF RunInv, RunTyped, Apart, E!Trial, FailedForCause, Caused, TornForGood, BareForGood,
         GroupsFit
  <2>4. EvaluatorsHold'
    <3> SUFFICES ASSUME NEW f \in Evaluators PROVE EvaluatorHolds(e_run[f])'
      BY DEF EvaluatorsHold
    <3>1. KnowsTheRecords(e_run[f])'
      BY <2>1, OfAnEvaluator DEF KnowsTheRecords
    <3>2. KnowsItsAttempt(e_run[f])' /\ IsAlone(e_run[f])' /\ IsOfTheFirst(e_run[f])'
      BY <2>1, OfAnEvaluator DEF KnowsItsAttempt, IsAlone, IsOfTheFirst, E!Evidence, E!Numbers
    <3> QED BY <3>1, <3>2 DEF EvaluatorHolds
  <2>5. FilesHold'
    BY <2>1, FilesStay, SamePartial
  <2> QED BY <2>3, <2>4, <2>5 DEF RunInv
<1> QED BY <1>1, <1>2, <1>3, <1>4 DEF E!Next

\* The invariant is enough for the named parts of EvaluationRun.
LEMMA RunInvIsEnough ==
  RunInv => E!TypeOK /\ E!BundleIsTheRecords /\ E!PartialNeverOverstates /\ E!SealedEvidenceHolds
            /\ E!RefusedForCause
<1> SUFFICES ASSUME RunInv
             PROVE  E!TypeOK /\ E!BundleIsTheRecords /\ E!PartialNeverOverstates
                    /\ E!SealedEvidenceHolds /\ E!RefusedForCause
  OBVIOUS
<1>1. E!TypeOK
  <2>1. \A e \in Evaluators : e_run[e].pc \in E!Active \cup {"idle", "done", "failed"}
                              /\ E!Range(e_run[e].todo) \subseteq E!Trials
    <3> SUFFICES ASSUME NEW e \in Evaluators
                 PROVE  e_run[e].pc \in Places /\ E!Range(e_run[e].todo) \subseteq E!Trials
      BY DEF Places
    <3>1. e_run[e].todo \in Seq(E!Trials) /\ e_run[e].pc \in Places
      BY OfAnEvaluator
    <3> QED BY <3>1 DEF E!Range
  <2>2. e_orphans \subseteq e_opened
    BY DEF RunInv, FilesHold, AttemptsFit
  <2>3. \A a \in e_opened : a.trial \in E!Trials /\ a.number \in Nat \ {0} /\ a.on \in BOOLEAN
    BY DEF RunInv, RunTyped, Attempts
  <2>4. e_record \in [E!Trials -> E!Records \cup {E!None}]
    BY DEF RunInv, RunTyped, Outcomes
  <2>5. e_protocol = E!NoProtocol \/ e_protocol \in [inputs : 0..1, index : 0..1]
    BY DEF RunInv, RunTyped, Views
  <2> QED BY <2>1, <2>2, <2>3, <2>4, <2>5 DEF RunInv, RunTyped, E!TypeOK
<1>2. E!BundleIsTheRecords /\ E!PartialNeverOverstates /\ E!SealedEvidenceHolds
  BY DEF RunInv, FilesHold, BundleFits, PartialFits, SealHolds, E!SealedEvidenceHolds
<1>3. E!RefusedForCause
  BY DEF RunInv, FailedForCause, Caused, TornForGood, BareForGood, E!RefusedForCause,
     E!GroupsReadable
<1> QED BY <1>1, <1>2, <1>3

\* What the evaluator publishes, for any cases and reviews, any number of evaluators and any
\* number of mishaps: the types, and the named parts of EvaluationRun.
THEOREM RunHolds ==
  E!Spec => [](E!TypeOK /\ E!BundleIsTheRecords /\ E!PartialNeverOverstates /\ E!SealedEvidenceHolds
             /\ E!RefusedForCause)
<1> QED BY RunStarts, RunIsKept, RunInvIsEnough, PTL DEF E!Spec

\* What one step may not do to what is published.
KeptAsPublished ==
  /\ e_protocol # E!NoProtocol => e_protocol' = e_protocol
  /\ \A t \in E!Trials : e_record[t] # E!None => e_record'[t] = e_record[t]
  /\ e_bundle # E!NoBundle => e_bundle' = e_bundle

\* The protocol, the record of a trial and the bundle are linked into place, or are there.
LEMMA PublishedOnceByAStep == RunInv /\ [E!Next]_E!vars => [KeptAsPublished]_E!vars
<1> SUFFICES ASSUME RunInv, [E!Next]_E!vars PROVE KeptAsPublished
  OBVIOUS
<1>1. CASE UNCHANGED <<e_protocol, e_record, e_bundle>>
  BY <1>1 DEF KeptAsPublished
<1>2. ASSUME NEW e \in Evaluators, E!PublishProtocol(e) PROVE KeptAsPublished
  BY <1>2 DEF E!PublishProtocol, E!Published, KeptAsPublished
<1>3. ASSUME NEW e \in Evaluators, E!RecordTrial(e) PROVE KeptAsPublished
  <2>1. CASE UNCHANGED e_record
    BY <1>3, <2>1 DEF E!RecordTrial, KeptAsPublished
  <2>2. CASE E!MayRecord(e) /\ e_record' = [e_record EXCEPT ![E!Trial(e)] = e_run[e].result]
    <3>1. \A t \in E!Trials : e_record[t] # E!None => e_record'[t] = e_record[t]
      BY <2>2 DEF E!MayRecord, E!Published, RunInv, RunTyped
    <3> QED BY <1>3, <3>1 DEF E!RecordTrial, KeptAsPublished
  <2> QED BY <1>3, <2>1, <2>2 DEF E!RecordTrial
<1>4. ASSUME NEW e \in Evaluators, E!PublishBundle(e) PROVE KeptAsPublished
  BY <1>4 DEF E!PublishBundle, KeptAsPublished
<1>5. ASSUME NEW e \in Evaluators, E!Step(e) PROVE KeptAsPublished
  BY <1>1, <1>2, <1>3, <1>4, <1>5
  DEF E!Step, E!ExistingBundle, E!LoadRecords, E!StartTrial, E!MakeGroup, E!MakeCases, E!TakeRecord, E!OpenInput,
  E!WriteInput,
      E!ScanAttempts, E!Launch, E!HostSnapshot, E!HostEnds, E!Validate, E!Advance, E!Seal,
      E!LastCheck,
      E!fileVars
<1>6. ASSUME NEW e \in Evaluators, E!Begin(e) \/ E!Crash(e) PROVE KeptAsPublished
  BY <1>1, <1>6 DEF E!Begin, E!Crash, E!fileVars
<1>7. CASE E!OrphanEnds \/ E!Edit
  BY <1>1, <1>7 DEF E!OrphanEnds, E!Edit, E!fileVars
<1>8. CASE UNCHANGED E!vars
  BY <1>1, <1>8 DEF E!vars, E!fileVars
<1> QED BY <1>5, <1>6, <1>7, <1>8 DEF E!Next

\* What was published is never replaced.
THEOREM EachIsPublishedOnce == E!Spec => E!PublishedOnce
<1>1. E!Spec => [][KeptAsPublished]_E!vars
  BY RunStarts, RunIsKept, PublishedOnceByAStep, PTL DEF E!Spec
<1> QED BY <1>1 DEF E!PublishedOnce, KeptAsPublished

-----------------------------------------------------------------------------
(* The tools together.                                                     *)

\* Every step of the tools is a step of each of them, or leaves it alone.
LEMMA EachAlone == ToolsSpec => C!Spec /\ R!Spec /\ E!Spec
<1>1. ToolsInit => C!Init /\ R!Init /\ E!Init
  BY DEF ToolsInit
<1>2. [ToolsNext]_tools => [C!Next]_C!vars
  BY DEF ToolsNext, TrialNext, EvaluationNext, RuntimeNext, ReleaseNext, tools, c_vars, C!vars
<1>3. [ToolsNext]_tools => [R!Next]_R!vars
  BY DEF ToolsNext, TrialNext, EvaluationNext, RuntimeNext, ReleaseNext, tools, r_vars, R!vars,
         R!published, R!inputs
<1>4. [ToolsNext]_tools => [E!Next]_E!vars
  BY DEF ToolsNext, TrialNext, EvaluationNext, RuntimeNext, ReleaseNext, tools, e_vars, E!vars,
         E!worldVars, E!fileVars
<1> QED
  BY <1>1, <1>2, <1>3, <1>4, PTL DEF ToolsSpec, C!Spec, R!Spec, E!Spec

\* A favourable decision rests on one candidate from end to end, and so does the evidence
\* below it.
THEOREM DecisionIsEarnedAlways == ToolsSpec => []DecisionIsEarned
<1>1. DecisionIsEarned <=> R!TypeOK /\ R!FrozenIsTheCommit /\ R!AcceptedIsValidated
                           /\ R!PairIsOne /\ R!NoneIsLeftAlone /\ R!ReadyIsEarned
  BY DEF DecisionIsEarned
<1> QED
  BY <1>1, EachAlone, EvidenceHolds, PTL

\* What a cleanup tells is so, what rests can be cleaned, and a verification that passed ran
\* the frozen bytes.
THEOREM RuntimeIsAccountedForAlways == ToolsSpec => []RuntimeIsAccountedFor
<1>1. RuntimeIsAccountedFor <=> C!TypeOK /\ C!CleanedMeansGone /\ C!RestIsCleanable
                                /\ C!PassedIsFrozen
  BY DEF RuntimeIsAccountedFor
<1> QED
  BY <1>1, EachAlone, RuntimeHolds, PTL

\* The results a bundle tells are the trials on disk, a partial result never overstates,
\* sealed evidence stays as it was without an overlap, and a run is refused for cause.
THEOREM ResultsAreTheTrialsAlways == ToolsSpec => []ResultsAreTheTrials
<1>1. ResultsAreTheTrials <=> E!TypeOK /\ E!BundleIsTheRecords /\ E!PartialNeverOverstates
                              /\ E!SealedEvidenceHolds /\ E!RefusedForCause
  BY DEF ResultsAreTheTrials
<1> QED
  BY <1>1, EachAlone, RunHolds, PTL

\* What was published stays published, whoever runs whatever next, but for a decision.json that
\* is taken back as R!NothingIsReplaced says; and what somebody else has put into a runtime is
\* never removed by this code.
THEOREM NothingIsReplacedAlways == ToolsSpec => NothingIsReplaced
<1> QED
  BY EachAlone, EvidenceIsNotReplaced, EachIsPublishedOnce, OnlyOwnIsEverRemoved, PTL
  DEF NothingIsReplaced
=============================================================================
