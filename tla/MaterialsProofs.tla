--------------------------- MODULE MaterialsProofs ---------------------------
(***************************************************************************)
(* Proofs about Materials for every number of blocks and every bound: what *)
(* the status rows say of the products is true, the guard of a job trusts  *)
(* the job's own work, and a video gets its final name only when all of it *)
(* is up to date.                                                          *)
(***************************************************************************)
EXTENDS Materials, TLAPS, WellFoundedInduction

-----------------------------------------------------------------------------
(* The inductive invariant, in named parts.                                  *)

\* The coroutine is in front of a stage, in one, or on its way to publication.
Working == Running /\ run.at # "raised"

\* A coroutine belongs to a running job; only the report of a late exception
\* outlives it.
JobsMatch ==
    /\ Working => job.status = "running"
    /\ Running => job.id \in JobIds
    /\ job.status # "none" => job.id \in JobIds

\* Before the blocks exist nothing is done, and no stage but the split can begin.
BeforeSplit ==
    /\ ~split => \A b \in Blocks, s \in Stages : status[b][s] = "pending"
    /\ Running /\ ~split => /\ run.at = "between"
                            /\ "split" \in run.todo \/ run.todo \subseteq {"render"}
    /\ Running /\ "split" \in run.todo => ~split /\ Stages \subseteq run.todo

\* A finished plan is on record, and an image counts as done only beside one.
PlansFirst ==
    \A b \in Blocks :
        /\ status[b]["plan"] = "completed" => content[b]["plan"] \in Worth("plan")
        /\ status[b]["image"] = "completed" => status[b]["plan"] = "completed"

\* Where a plan is part of the work it is not done before its stage and done
\* after it; where only the image is, it was done already.
PlanWork ==
    Working => \A b \in Blocks :
        /\ "image" \in run.work[b] /\ "plan" \notin run.work[b] => status[b]["plan"] = "completed"
        /\ "plan" \in run.work[b] /\ "plan" \notin run.todo => status[b]["plan"] = "completed"
        /\ "plan" \in run.work[b] /\ "plan" \in run.todo /\ run.at = "between"
           => status[b]["plan"] # "completed"

\* The product of the block in work may be committed.
CurrentIsWorth(s) ==
    /\ content[Current][s] \in Worth(s) \union {"altered"}
    /\ s = "image" => SlidesAreTheirs(Current)
    /\ s = "render" => VideoIsExplained(Current)

\* What is left of a stage is part of the work and counts as not done.
StageWork ==
    Running =>
        /\ run.at \in {"plan", "image", "audio"} => \A b \in run.left :
               run.at \in run.work[b] /\ (run.block # "failed" => status[b][run.at] # "completed")
        /\ run.at = "plan" => \A b \in Blocks : "plan" \in run.work[b] => b \in run.left
        /\ run.at \in Files => "plan" \notin run.todo
        /\ run.block \in {"writing", "written"} => run.left # {} /\ run.at \in Files
        /\ run.block = "written" => CurrentIsWorth(run.at)
        /\ run.block = "failed" => run.at = "plan"
        /\ run.at \in {"between", "candidate", "renamed", "raised"}
           => run.left = {} /\ run.block = "idle"

\* The render stage and the publication have an image and a narration of every
\* block, known to the guard; the videos of the blocks passed over are done.
RenderWork ==
    Running /\ run.at \in {"render", "candidate", "renamed"} => \A b \in Blocks :
        /\ \A s \in {"image", "audio"} :
               /\ status[b][s] = "completed"
               /\ <<b, s>> \in run.expected
               /\ content[b][s] = "absent" => <<b, s>> \in run.written
        /\ b \notin run.left => status[b]["render"] = "completed"

\* Between two stages the guard expects the files that count as done, and no
\* other as long as nobody else removed one.
Recorded ==
    Running /\ run.at = "between" =>
        /\ CompletedMaterials \subseteq run.expected
        /\ outside = 0 => run.expected \subseteq CompletedMaterials

\* A video in the guard's list is encoded again only when that was planned.
Excused ==
    Working /\ run.at = "render" /\ outside = 0 => \A b \in run.left :
        <<b, "render">> \in run.expected => "render" \in run.work[b]

\* What somebody else exchanged during a job that began genuine is in the way
\* of the guard.
AlteredIsSeen ==
    Working /\ run.genuine => \A b \in Blocks, s \in Stages :
        content[b][s] = "altered" => <<b, s>> \in (run.expected \intersect run.written) \ Mutable

\* The renamed video is there until its row is.
RenamedIsThere == Running /\ run.at = "renamed" => "final" \in directory[job.id]

Inv ==
    /\ TypeOK /\ JobsMatch /\ BeforeSplit /\ PlansFirst /\ PlanWork /\ StageWork /\ RenderWork
    /\ StatusesAreTruthful /\ Recorded /\ Excused /\ AlteredIsSeen /\ GuardTrustsOwnWork
    /\ RenamedIsThere /\ PublishedVideoStays

-----------------------------------------------------------------------------
(* Type correctness                                                          *)

RunRow ==
    [at : {"between", "plan", "image", "audio", "render", "candidate", "renamed", "raised"},
     todo : SUBSET DOMAIN Rank, work : [Blocks -> SUBSET Stages], left : SUBSET Blocks,
     block : {"idle", "writing", "written", "failed"},
     expected : SUBSET FileProducts, written : SUBSET FileProducts, genuine : BOOLEAN]

\* A coroutine has a place among the stages, no coroutine has none.
LEMMA RunCases ==
    ASSUME TypeOK
    PROVE  /\ Running => run \in RunRow
           /\ run.at = "none" <=> ~Running
  <1>1. NoRun.at = "none"
    BY DEF NoRun
  <1>2. run \in RunRow => run.at # "none"
    BY DEF RunRow
  <1> QED
    BY <1>1, <1>2 DEF TypeOK, Running, RunRow

\* A set of blocks has a first one: the block a stage is on is one that is left.
LEMMA CurrentIsLeft ==
    ASSUME run.left \subseteq Blocks, run.left # {}
    PROVE  Current \in run.left
  <1>1. run.left \subseteq Nat
    BY DEF Blocks
  <1>2. PICK m \in run.left : \A x \in run.left : ~(<<x, m>> \in OpToRel(<, Nat))
    BY <1>1, NatLessThanWellFounded, WFMin, Zenon
  <1>3. \A x \in run.left : m <= x
    <2> TAKE x \in run.left
    <2>1. ~(x < m)
      BY <1>1, <1>2 DEF OpToRel
    <2>2. x \in Nat /\ m \in Nat
      BY <1>1
    <2> QED
      BY <2>1, <2>2
  <1> QED
    BY <1>3 DEF Current

\* An update of one block's row in a function of rows.
LEMMA RowUpdate ==
    ASSUME NEW T, NEW f \in [Blocks -> T], NEW b \in Blocks, NEW x \in T
    PROVE  [f EXCEPT ![b] = x] \in [Blocks -> T]
  OBVIOUS

\* Edits of the inputs of a product leave a product.
LEMMA OutdateType ==
    ASSUME NEW products \in [Stages -> Content], NEW readers
    PROVE  Outdate(products, readers) \in [Stages -> Content]
  BY DEF Outdate, Outdated, Content

\* What differs from the records are files.
LEMMA DiffersType ==
    ASSUME TypeOK, NEW written
    PROVE  Differs(written) \in [Layers -> SUBSET FileProducts]
  BY DEF Differs, TypeOK

\* The files that count as done are files.
LEMMA CompletedType == CompletedMaterials \subseteq FileProducts
  BY DEF CompletedMaterials

\* The work of a job consists of stages.
LEMMA WorkType ==
    ASSUME NEW kind \in Kinds, NEW target
    PROVE  /\ WorkOf(kind, target) \in [Blocks -> SUBSET Stages]
           /\ StagesOf(kind, WorkOf(kind, target)) \subseteq DOMAIN Rank
  <1>1. \A b \in Blocks : Needed(b) \subseteq Stages
    BY DEF Needed, Stages, Files
  <1>2. \A b \in Blocks : WithEffects(Needed(b)) \subseteq Stages
    BY <1>1 DEF WithEffects, Stages
  <1>3. \A b \in Blocks : PlanOf(b, kind, target) \subseteq Stages
    BY <1>1, <1>2 DEF PlanOf, Kinds, Stages
  <1>4. WorkOf(kind, target) \in [Blocks -> SUBSET Stages]
    BY <1>3 DEF WorkOf
  <1>5. DOMAIN Rank = {"split"} \union Stages
    BY DEF Rank, Stages
  <1>6. UNION {WorkOf(kind, target)[b] : b \in Blocks} \subseteq Stages
    BY <1>4
  <1> DEFINE W == UNION {WorkOf(kind, target)[b] : b \in Blocks}
  <1>7. W \subseteq {"split"} \union Stages
    BY <1>6
  <1> HIDE DEF W
  <1>8. StagesOf(kind, WorkOf(kind, target)) =
            (IF split \/ kind # "full" THEN {} ELSE {"split"} \union Stages) \union W
            \union (IF kind \in WholeKinds THEN {"render"} ELSE {})
    BY DEF StagesOf, W
  <1>9. "render" \in Stages
    BY DEF Stages
  <1> QED
    BY <1>4, <1>5, <1>7, <1>8, <1>9

\* The rows of a new project have their types.
LEMMA TypeInit == Init => TypeOK
  <1> SUFFICES ASSUME Init PROVE TypeOK
    OBVIOUS
  <1>1. /\ status \in [Blocks -> [Stages -> Status]]
        /\ content \in [Blocks -> [Stages -> Content]]
        /\ visual \in [Blocks -> {"drawn", "ai"}] /\ slides \in [Blocks -> {"none", "fresh", "untracked", "stale"}]
    BY DEF Init, Status, Content
  <1>2. job \in [id : 0 .. MaxJobs, kind : Kinds, target : Blocks \union {None},
                status : {"none", "pending", "running", "completed", "failed"}]
    BY MaterialsAssumption DEF Init, Kinds, None
  <1>3. edits \in 0 .. MaxEdits /\ outside \in 0 .. MaxFaults /\ crashes \in 0 .. MaxFaults
    BY MaterialsAssumption DEF Init
  <1> QED
    BY <1>1, <1>2, <1>3 DEF Init, TypeOK

\* A coroutine that moves on stays one.
LEMMA LeaveType ==
    ASSUME NEW s, run \in RunRow, CompletedMaterials' \subseteq FileProducts
    PROVE  Leave(s) \in RunRow
  BY DEF Leave, RunRow

\* A checkpoint records files.
LEMMA CheckpointType ==
    ASSUME TypeOK, Checkpoint, CompletedMaterials' \subseteq FileProducts
    PROVE  known' \in [Layers -> SUBSET FileProducts] /\ changed' \in [Layers -> SUBSET FileProducts]
  BY DEF Checkpoint, TypeOK, Layers

\* ... after a step as well.
LEMMA CompletedTypeNext == CompletedMaterials' \subseteq FileProducts
  BY DEF CompletedMaterials

\* What an encoded video is worth.
LEMMA EncodedCases ==
    ASSUME NEW b
    PROVE  LET inputs == {content[b]["image"], content[b]["audio"], slides[b]} \ {"none"} IN
           \/ inputs = {"fresh"} /\ Encoded(b) = "fresh"
           \/ "altered" \in inputs /\ Encoded(b) = "altered"
           \/ inputs # {"fresh"} /\ inputs \subseteq {"fresh", "untracked"} /\ Encoded(b) = "untracked"
           \/ "altered" \notin inputs /\ ~(inputs \subseteq {"fresh", "untracked"}) /\ Encoded(b) = "stale"
  <1> DEFINE inputs == {content[b]["image"], content[b]["audio"], slides[b]} \ {"none"}
  <1>1. Encoded(b) = CASE inputs = {"fresh"} -> "fresh"
                       [] "altered" \in inputs -> "altered"
                       [] inputs # {"fresh"} /\ inputs \subseteq {"fresh", "untracked"} -> "untracked"
                       [] OTHER -> "stale"
    BY DEF Encoded
  <1> SUFFICES \/ inputs = {"fresh"} /\ Encoded(b) = "fresh"
               \/ "altered" \in inputs /\ Encoded(b) = "altered"
               \/ inputs # {"fresh"} /\ inputs \subseteq {"fresh", "untracked"} /\ Encoded(b) = "untracked"
               \/ "altered" \notin inputs /\ ~(inputs \subseteq {"fresh", "untracked"}) /\ Encoded(b) = "stale"
    OBVIOUS
  <1> HIDE DEF inputs
  <1>2. CASE inputs = {"fresh"}
    BY <1>1, <1>2
  <1>3. CASE "altered" \in inputs
    BY <1>1, <1>3
  <1>4. CASE inputs # {"fresh"} /\ inputs \subseteq {"fresh", "untracked"}
    BY <1>1, <1>4
  <1>5. CASE "altered" \notin inputs /\ ~(inputs \subseteq {"fresh", "untracked"})
    <2>1. inputs # {"fresh"}
      BY <1>5
    <2> QED
      BY <1>1, <1>5, <2>1
  <1> QED
    BY <1>2, <1>3, <1>4, <1>5

\* Every action keeps every row, file and record within its type.
LEMMA TypeStep == TypeOK /\ JobsMatch /\ StageWork /\ [Next]_vars => TypeOK'
  <1> SUFFICES ASSUME TypeOK, JobsMatch, StageWork, [Next]_vars PROVE TypeOK'
    OBVIOUS
  <1>a. "split" \in DOMAIN Rank /\ Stages \subseteq DOMAIN Rank
    BY DEF Rank, Stages
  <1>1. ASSUME NEW b \in Blocks, NEW source \in BOOLEAN, NEW tts \in BOOLEAN,
               NEW plan \in {"keep", "new", "same", "null"}, NEW type \in {"drawn", "ai"},
               PatchBlock(b, source, tts, plan, type)
        PROVE  TypeOK'
    <2>1. status' \in [Blocks -> [Stages -> Status]]
      BY <1>1 DEF PatchBlock, TypeOK, Status
    <2> DEFINE readers == (IF source THEN Readers("source") ELSE {})
                          \union (IF tts THEN Readers("tts") \ {"plan", "image"} ELSE {})
                          \union (IF plan \in {"new", "null"} THEN Readers("plan") ELSE {})
               reworded == IF tts THEN {"plan", "image"} \ readers ELSE {}
    <2>2. /\ content' = [content EXCEPT ![b] = [s \in Stages |->
                 IF s = "plan" /\ plan # "keep" THEN IF plan = "null" THEN "absent" ELSE "fresh"
                 ELSE IF s \in reworded THEN Untracked(@[s]) ELSE Outdate(@, readers)[s]]]
          /\ slides' = [slides EXCEPT ![b] =
                 IF "image" \in reworded THEN Untracked(@) ELSE OutdateSlides(b, readers)]
      BY <1>1 DEF PatchBlock
    <2> HIDE DEF readers, reworded
    <2>3. Outdate(content[b], readers) \in [Stages -> Content]
      BY OutdateType DEF TypeOK
    <2>4. content' \in [Blocks -> [Stages -> Content]]
      <3>1. \A s \in Stages : Untracked(content[b][s]) \in Content
        BY DEF TypeOK, Content, Untracked
      <3>2. "fresh" \in Content /\ "absent" \in Content
        BY DEF Content
      <3>3. [s \in Stages |->
                 IF s = "plan" /\ plan # "keep" THEN IF plan = "null" THEN "absent" ELSE "fresh"
                 ELSE IF s \in reworded THEN Untracked(content[b][s])
                 ELSE Outdate(content[b], readers)[s]] \in [Stages -> Content]
        BY <2>3, <3>1, <3>2
      <3> QED
        BY <2>2, <3>3, RowUpdate DEF TypeOK
    <2>5. slides' \in [Blocks -> {"none", "fresh", "untracked", "stale"}]
      BY <2>2 DEF TypeOK, OutdateSlides, Outdated, Untracked
    <2>6. visual' \in [Blocks -> {"drawn", "ai"}] /\ edits' \in 0 .. MaxEdits
      BY <1>1, MaterialsAssumption DEF PatchBlock, TypeOK
    <2> QED
      BY ZenonT(60), <1>1, <2>1, <2>4, <2>5, <2>6 DEF PatchBlock, TypeOK, RunRow
  <1>2. ASSUME NEW setting \in Settings, ChangeSettings(setting) PROVE TypeOK'
    <2>1. status' \in [Blocks -> [Stages -> Status]]
      BY <1>2 DEF ChangeSettings, TypeOK, Status
    <2>2. \A b \in Blocks : Outdate(content[b], Readers(setting)) \in [Stages -> Content]
      BY OutdateType DEF TypeOK
    <2>3. content' \in [Blocks -> [Stages -> Content]]
      BY <1>2, <2>2 DEF ChangeSettings
    <2>4. slides' \in [Blocks -> {"none", "fresh", "untracked", "stale"}]
      BY <1>2 DEF ChangeSettings, OutdateSlides, Outdated, TypeOK
    <2>5. pacing' \in {"fixed", "adaptive"} /\ edits' \in 0 .. MaxEdits
      BY <1>2, MaterialsAssumption DEF ChangeSettings, TypeOK
    <2> QED
      BY <1>2, <2>1, <2>3, <2>4, <2>5 DEF ChangeSettings, TypeOK
  <1>3. ASSUME NEW kind \in Kinds, NEW target \in Blocks \union {None}, Request(kind, target)
        PROVE  TypeOK'
    BY <1>3, MaterialsAssumption DEF Request, TypeOK, blockVars, counters
  <1>4. CASE Begin
    <2>1. run' \in RunRow
      BY <1>4, WorkType, CompletedType DEF Begin, TypeOK, RunRow
    <2>2. job' \in [id : 0 .. MaxJobs, kind : Kinds, target : Blocks \union {None},
                    status : {"none", "pending", "running", "completed", "failed"}]
      BY <1>4 DEF Begin, TypeOK
    <2> QED
      BY <1>4, <2>1, <2>2 DEF Begin, TypeOK, RunRow, blockVars, counters
  <1>5. CASE Split
    <2>1. run \in RunRow
      BY <1>5, RunCases DEF Split, Guard
    <2>2. Leave("split") \in RunRow
      BY <2>1, LeaveType, CompletedTypeNext
    <2>3. run' \in RunRow
      BY <1>5, <2>2 DEF Split, RunRow
    <2>4. known' \in [Layers -> SUBSET FileProducts] /\ changed' \in [Layers -> SUBSET FileProducts]
      BY <1>5, CheckpointType, CompletedTypeNext DEF Split
    <2> QED
      BY <1>5, <2>3, <2>4 DEF Split, TypeOK, RunRow, counters
  <1>6. ASSUME NEW s \in Stages, BeginStage(s) PROVE TypeOK'
    <2>1. run \in RunRow
      BY <1>6, RunCases DEF BeginStage, Guard
    <2>2. run' \in RunRow
      BY <1>6, <2>1 DEF BeginStage, RunRow, Stages
    <2>3. status' \in [Blocks -> [Stages -> Status]]
      BY <1>6 DEF BeginStage, Reset, TypeOK, Status
    <2> QED
      BY <1>6, <2>2, <2>3 DEF BeginStage, TypeOK, RunRow, counters
  <1>7. ASSUME NEW failing \in SUBSET Blocks, PlanStage(failing) PROVE TypeOK'
    <2>1. run \in RunRow
      BY <1>7, RunCases DEF PlanStage, Guard
    <2>2. status' \in [Blocks -> [Stages -> Status]]
      BY <1>7 DEF PlanStage, TypeOK, Status
    <2>3. \A b \in Blocks : Outdate(content[b], Readers("plan")) \in [Stages -> Content]
      BY OutdateType DEF TypeOK
    <2>4. content' \in [Blocks -> [Stages -> Content]]
      BY <1>7, <2>3 DEF PlanStage, TypeOK, Content
    <2>5. slides' \in [Blocks -> {"none", "fresh", "untracked", "stale"}]
      BY <1>7 DEF PlanStage, OutdateSlides, Outdated, TypeOK
    <2>6. visual' \in [Blocks -> {"drawn", "ai"}]
      BY <1>7 DEF PlanStage
    <2>7. /\ run' \in RunRow
          /\ known' \in [Layers -> SUBSET FileProducts] /\ changed' \in [Layers -> SUBSET FileProducts]
      <3>1. CASE failing = {}
        BY <1>7, <2>1, <3>1, LeaveType, CheckpointType, CompletedTypeNext DEF PlanStage
      <3>2. CASE failing # {}
        <4>1. run' = [run EXCEPT !.block = "failed"] /\ UNCHANGED <<known, changed>>
          BY <1>7, <3>2 DEF PlanStage
        <4> QED
          BY <2>1, <4>1 DEF RunRow, TypeOK
      <3> QED
        BY <3>1, <3>2
    <2> QED
      BY <1>7, <2>2, <2>4, <2>5, <2>6, <2>7 DEF PlanStage, TypeOK, RunRow, counters
  <1>8. CASE StartMaterial
    <2>1. run \in RunRow /\ Current \in run.left /\ run.at \in Files /\ Current \in Blocks
      BY <1>8, RunCases, CurrentIsLeft DEF StartMaterial, Guard, RunRow
    <2>2. <<Current, run.at>> \in FileProducts
      BY <2>1 DEF FileProducts
    <2>3. run' \in RunRow
      BY <1>8, <2>1, <2>2 DEF StartMaterial, RunRow
    <2>4. content' \in [Blocks -> [Stages -> Content]] /\ changed' \in [Layers -> SUBSET FileProducts]
      <3>1. CASE run.at = "render"
        BY <1>8, <3>1 DEF StartMaterial, TypeOK
      <3>2. CASE run.at # "render"
        <4>1. content' = [content EXCEPT ![Current][run.at] = "torn"]
              /\ changed' = Differs({<<Current, run.at>>})
          BY <1>8, <3>2 DEF StartMaterial
        <4>2. "torn" \in Content
          BY DEF Content
        <4>3. content' \in [Blocks -> [Stages -> Content]]
          BY <4>1, <4>2 DEF TypeOK
        <4> QED
          BY <4>1, <4>3, DiffersType
      <3> QED
        BY <3>1, <3>2
    <2>5. slides' \in [Blocks -> {"none", "fresh", "untracked", "stale"}]
      BY <1>8 DEF StartMaterial, SlidesMeanwhile, TypeOK
    <2> QED
      BY <1>8, <2>3, <2>4, <2>5 DEF StartMaterial, TypeOK, RunRow, counters
  <1>9. CASE WriteMaterial
    <2>1. run \in RunRow
      BY <1>9, RunCases DEF WriteMaterial
    <2>2. content' \in [Blocks -> [Stages -> Content]]
      <3>1. PICK b : content' = [content EXCEPT ![b] =
               IF run.at = "render" THEN [@ EXCEPT !["render"] = Encoded(b)]
               ELSE [Outdate(@, Readers(run.at)) EXCEPT ![run.at] = "fresh"]]
        BY <1>9 DEF WriteMaterial
      <3>2. Encoded(b) \in Content /\ "fresh" \in Content
        BY EncodedCases DEF Content
      <3>3. CASE run.at = "render"
        BY <3>1, <3>2, <3>3 DEF TypeOK
      <3>4. CASE run.at # "render"
        <4>1. \A c \in Blocks : Outdate(content[c], Readers(run.at)) \in [Stages -> Content]
          BY OutdateType DEF TypeOK
        <4> QED
          BY <3>1, <3>2, <3>4, <4>1 DEF TypeOK
      <3> QED
        BY <3>3, <3>4
    <2>3. slides' \in [Blocks -> {"none", "fresh", "untracked", "stale"}]
      <3>1. PICK several :
                slides' = [slides EXCEPT ![Current] = IF run.at = "image" THEN SlidesAfter(Current, several) ELSE @]
        BY <1>9 DEF WriteMaterial
      <3>2. SlidesAfter(Current, several) \in {"none", "fresh", "untracked", "stale"}
        BY DEF SlidesAfter
      <3> QED
        BY <3>1, <3>2 DEF TypeOK
    <2>4. changed' \in [Layers -> SUBSET FileProducts]
      BY <1>9, DiffersType DEF WriteMaterial
    <2>5. run.at \in Files /\ Current \in Blocks
      BY <1>9, <2>1, CurrentIsLeft DEF WriteMaterial, StageWork, RunRow
    <2>6. <<Current, run.at>> \in FileProducts
      BY <2>5 DEF FileProducts
    <2>7. run' \in RunRow
      BY <1>9, <2>1, <2>6 DEF WriteMaterial, RunRow
    <2> QED
      BY <1>9, <2>2, <2>3, <2>4, <2>7 DEF WriteMaterial, TypeOK, RunRow, counters
  <1>10. CASE CommitMaterial
    <2>1. run \in RunRow
      BY <1>10, RunCases DEF CommitMaterial, Guard
    <2>2. status' \in [Blocks -> [Stages -> Status]]
      BY <1>10 DEF CommitMaterial, TypeOK, Status
    <2>3. /\ run' \in RunRow
          /\ known' \in [Layers -> SUBSET FileProducts] /\ changed' \in [Layers -> SUBSET FileProducts]
      <3>1. CASE run.at # "render" /\ run.left = {Current}
        BY <1>10, <2>1, <3>1, LeaveType, CheckpointType, CompletedTypeNext DEF CommitMaterial
      <3>2. CASE ~(run.at # "render" /\ run.left = {Current})
        <4>1. /\ run' = [run EXCEPT !.left = @ \ {Current}, !.block = "idle"]
              /\ UNCHANGED <<known, changed>>
          BY <1>10, <3>2 DEF CommitMaterial
        <4> QED
          BY <2>1, <4>1 DEF RunRow, TypeOK
      <3> QED
        BY <3>1, <3>2
    <2> QED
      BY <1>10, <2>2, <2>3 DEF CommitMaterial, TypeOK, RunRow, counters
  <1>11. CASE Concatenate
    BY <1>11, RunCases DEF Concatenate, Guard, TypeOK, RunRow, blockVars, counters
  <1>12. CASE Rename
    BY <1>12, RunCases DEF Rename, Guard, TypeOK, RunRow, blockVars, counters
  <1>13. ASSUME NEW raises \in BOOLEAN, Publish(raises) PROVE TypeOK'
    <2>1. run' = NoRun \/ run' \in RunRow
      BY <1>13, RunCases DEF Publish, RunRow
    <2>2. known' \in [Layers -> SUBSET FileProducts] /\ changed' \in [Layers -> SUBSET FileProducts]
      BY <1>13 DEF Publish, TypeOK
    <2>3. artifact' \in SUBSET JobIds
      BY <1>13 DEF Publish, JobsMatch, TypeOK
    <2>4. job' \in [id : 0 .. MaxJobs, kind : Kinds, target : Blocks \union {None},
                    status : {"none", "pending", "running", "completed", "failed"}]
      BY <1>13 DEF Publish, TypeOK
    <2> QED
      BY <1>13, <2>1, <2>2, <2>3, <2>4 DEF Publish, TypeOK, RunRow, blockVars, counters
  <1>14. CASE FinishPart
    BY <1>14 DEF FinishPart, TypeOK, blockVars, counters
  <1>15. CASE Fail
    <2>1. status' \in [Blocks -> [Stages -> Status]]
      BY <1>15 DEF Fail, TypeOK, Status
    <2>2. directory' \in [JobIds -> SUBSET {"candidate", "final"}]
      <3>1. job.id \in JobIds
        BY <1>15 DEF Fail, JobsMatch
      <3>2. Discarded \in SUBSET {"candidate", "final"}
        BY <3>1 DEF Discarded, TypeOK
      <3> QED
        BY <1>15, <3>2 DEF Fail, TypeOK
    <2>3. job' \in [id : 0 .. MaxJobs, kind : Kinds, target : Blocks \union {None},
                    status : {"none", "pending", "running", "completed", "failed"}]
      BY <1>15 DEF Fail, TypeOK
    <2>4. run' = NoRun /\ UNCHANGED <<split, pacing, visual, content, slides, known, changed, artifact, counters>>
      BY <1>15 DEF Fail
    <2> QED
      BY <2>1, <2>2, <2>3, <2>4 DEF TypeOK, counters
  <1>16. CASE Crash
    BY <1>16, MaterialsAssumption DEF Crash, TypeOK, blockVars, counters
  <1>17. CASE Restart
    <2>1. job' \in [id : 0 .. MaxJobs, kind : Kinds, target : Blocks \union {None},
                    status : {"none", "pending", "running", "completed", "failed"}]
      BY <1>17 DEF Restart, TypeOK
    <2> QED
      BY <1>17, <2>1 DEF Restart, TypeOK, blockVars, counters
  <1>18. ASSUME NEW b \in Blocks, NEW s \in Files, NEW how \in {"absent", "altered"},
                OutsideChange(b, s, how)
         PROVE  TypeOK'
    <2>1. content' \in [Blocks -> [Stages -> Content]]
      BY <1>18 DEF OutsideChange, TypeOK, Content
    <2>2. run' = NoRun \/ run' \in RunRow
      BY <1>18, RunCases DEF OutsideChange, RunRow, Running, FileProducts
    <2>3. outside' \in 0 .. MaxFaults
      BY <1>18, MaterialsAssumption DEF OutsideChange, TypeOK
    <2> QED
      BY <1>18, <2>1, <2>2, <2>3, DiffersType DEF OutsideChange, TypeOK, RunRow
  <1>19. CASE UNCHANGED vars
    BY <1>19 DEF TypeOK, vars
  <1> QED
    BY <1>1, <1>2, <1>3, <1>4, <1>5, <1>6, <1>7, <1>8, <1>9, <1>10, <1>11, <1>12, <1>13,
       <1>14, <1>15, <1>16, <1>17, <1>18, <1>19 DEF Next

-----------------------------------------------------------------------------
(* Edits and requests                                                        *)

\* While inputs may be edited no coroutine is at work.
LEMMA IdleMeansNoWork == Inv /\ Idle => ~Working
  BY DEF Inv, JobsMatch, Idle

\* Without a coroutine at work nothing but the rows is at stake.
LEMMA RestsKeep ==
    ASSUME Inv, ~Working, UNCHANGED <<run, split, directory, artifact>>
    PROVE  /\ PlanWork' /\ StageWork' /\ RenderWork' /\ Recorded' /\ Excused' /\ AlteredIsSeen'
           /\ GuardTrustsOwnWork' /\ RenamedIsThere' /\ PublishedVideoStays'
  <1>1. ~Working'
    BY DEF Working, Running
  <1>2. Running => run.at = "raised"
    BY DEF Working
  <1>3. PlanWork' /\ Excused' /\ AlteredIsSeen' /\ PublishedVideoStays'
    BY <1>1 DEF PlanWork, Excused, AlteredIsSeen, PublishedVideoStays, Inv
  <1>4. RenderWork' /\ Recorded' /\ RenamedIsThere' /\ GuardTrustsOwnWork'
    BY <1>2 DEF RenderWork, Recorded, RenamedIsThere, GuardTrustsOwnWork, Running
  <1>5. StageWork'
    BY <1>2 DEF StageWork, Inv, Running, Files
  <1> QED
    BY <1>3, <1>4, <1>5

\* What the statuses of one block say of its products.
TruthfulOf(b) ==
    /\ \A s \in Stages : Done(b, s) => content[b][s] \in Worth(s) \union Damaged
    /\ Done(b, "image") => SlidesAreTheirs(b)
    /\ Done(b, "render") => VideoIsExplained(b)

\* The statuses are truthful block by block.
LEMMA BlockByBlock ==
    /\ StatusesAreTruthful <=> \A b \in Blocks : TruthfulOf(b)
    /\ StatusesAreTruthful' <=> \A b \in Blocks : TruthfulOf(b)'
  BY DEF StatusesAreTruthful, TruthfulOf

\* A block whose products stay as they are may lose statuses.
LEMMA SameBlock ==
    ASSUME Inv, NEW b \in Blocks, content'[b] = content[b], slides'[b] = slides[b],
           visual'[b] = visual[b], \A s \in Stages : Done(b, s)' => Done(b, s)
    PROVE  TruthfulOf(b)'
  <1>1. TruthfulOf(b)
    BY BlockByBlock DEF Inv
  <1> QED
    BY <1>1 DEF TruthfulOf, SlidesAreTheirs, VideoIsExplained, Stages

\* PATCH /api/blocks/{id} resets every status whose product it outdates, but for
\* what was made from an older narration text.
LEMMA PatchKeeps ==
    ASSUME Inv, TypeOK', NEW b \in Blocks, NEW source \in BOOLEAN, NEW tts \in BOOLEAN,
           NEW plan \in {"keep", "new", "same", "null"}, NEW type \in {"drawn", "ai"},
           PatchBlock(b, source, tts, plan, type)
    PROVE  Inv'
  <1>1. ~Working
    BY IdleMeansNoWork DEF PatchBlock
  <1>2. /\ PlanWork' /\ StageWork' /\ RenderWork' /\ Recorded' /\ Excused' /\ AlteredIsSeen'
        /\ GuardTrustsOwnWork' /\ RenamedIsThere' /\ PublishedVideoStays'
    BY <1>1, RestsKeep DEF PatchBlock
  <1>3. JobsMatch' /\ BeforeSplit'
    BY <1>1 DEF PatchBlock, Inv, JobsMatch, BeforeSplit, Running, Working
  <1> DEFINE readers == (IF source THEN Readers("source") ELSE {})
                        \union (IF tts THEN Readers("tts") \ {"plan", "image"} ELSE {})
                        \union (IF plan \in {"new", "null"} THEN Readers("plan") ELSE {})
             reworded == IF tts THEN {"plan", "image"} \ readers ELSE {}
  <1>4. /\ \A c \in Blocks : c # b => /\ status'[c] = status[c] /\ content'[c] = content[c]
                                     /\ slides'[c] = slides[c] /\ visual'[c] = visual[c]
        /\ \A s \in Stages :
               /\ status'[b][s] =
                      IF s = "plan" /\ plan # "keep" THEN IF plan = "null" THEN "pending" ELSE "completed"
                      ELSE IF s \in PatchInvalidates(source, tts, plan) THEN "pending" ELSE status[b][s]
               /\ content'[b][s] =
                      IF s = "plan" /\ plan # "keep" THEN IF plan = "null" THEN "absent" ELSE "fresh"
                      ELSE IF s \in reworded THEN Untracked(content[b][s]) ELSE Outdate(content[b], readers)[s]
        /\ slides'[b] = IF "image" \in reworded THEN Untracked(slides[b]) ELSE OutdateSlides(b, readers)
        /\ plan \in {"keep", "same"} => visual'[b] = visual[b]
    BY DEF PatchBlock, Inv, TypeOK
  <1>5. /\ "plan" \in readers => source
        /\ "image" \in readers => source \/ plan \in {"new", "null"}
        /\ "audio" \in readers => tts \/ (plan \in {"new", "null"} /\ pacing = "adaptive")
        /\ "render" \in readers => tts \/ plan \in {"new", "null"}
    <2>1. /\ Readers("source") = {"plan", "image"} /\ Readers("tts") \ {"plan", "image"} = {"audio", "render"}
          /\ Readers("plan") = {"image", "render"} \union (IF pacing = "adaptive" THEN {"audio"} ELSE {})
      BY DEF Readers
    <2> QED
      BY <2>1
  <1>6. \A s \in Stages : s \in readers /\ ~(s = "plan" /\ plan \in {"new", "same"})
                          => status'[b][s] = "pending"
    BY <1>4, <1>5 DEF Stages, PatchInvalidates
  <1>7. \A s \in Stages : status'[b][s] = "completed" /\ s # "plan"
            => /\ status[b][s] = "completed"
               /\ content'[b][s] = IF s \in reworded THEN Untracked(content[b][s]) ELSE content[b][s]
    BY <1>4, <1>6 DEF Outdate
  <1>8. status'[b]["plan"] = "completed" => content'[b]["plan"] \in Worth("plan")
    <2>1. CASE plan \in {"new", "same"}
      <3> HIDE DEF readers, reworded
      <3>1. "plan" \in Stages
        BY DEF Stages
      <3>2. content'[b]["plan"] = "fresh"
        BY <1>4, <2>1, <3>1
      <3> QED
        BY <3>2 DEF Worth
    <2>2. CASE plan = "null"
      BY <1>4, <2>2 DEF Stages
    <2>3. CASE plan = "keep"
      <3> SUFFICES ASSUME status'[b]["plan"] = "completed" PROVE content'[b]["plan"] \in Worth("plan")
        OBVIOUS
      <3>1. "plan" \notin readers
        BY <1>6, <2>3 DEF Stages
      <3>2. status[b]["plan"] = "completed"
        BY <1>4, <2>3 DEF Stages
      <3>3. content'[b]["plan"] \in {content[b]["plan"], Untracked(content[b]["plan"])}
        <4> HIDE DEF readers, reworded
        <4> QED
          BY <1>4, <2>3, <3>1 DEF Outdate, Stages
      <3> QED
        BY <3>2, <3>3 DEF Untracked, Worth, Inv, PlansFirst
    <2> QED
      BY <2>1, <2>2, <2>3
  <1>9. status'[b]["image"] = "completed" => status'[b]["plan"] = "completed"
    BY <1>4, <1>7 DEF Inv, PlansFirst, Stages, PatchInvalidates
  <1>10. PlansFirst'
    BY <1>4, <1>8, <1>9 DEF Inv, PlansFirst
  <1>11. TruthfulOf(b)
    BY BlockByBlock DEF Inv
  <1>12. status'[b]["image"] = "completed" => ~source /\ plan \in {"keep", "same"} /\ "image" \notin readers
    <2>1. status'[b]["image"] = "completed" => "image" \notin PatchInvalidates(source, tts, plan)
      BY <1>4 DEF Stages
    <2> QED
      BY <1>5, <2>1 DEF PatchInvalidates
  <1>13. status'[b]["render"] = "completed" => ~tts
    BY <1>4 DEF Stages, PatchInvalidates
  <1>14. \A s \in Stages : Done(b, s)' => content'[b][s] \in Worth(s) \union Damaged
    <2> SUFFICES ASSUME NEW s \in Stages, Done(b, s)', s # "plan"
                 PROVE  content'[b][s] \in Worth(s) \union Damaged
      BY <1>8 DEF Done
    <2>1. Done(b, s)
      BY <1>7 DEF Done, Stages
    <2>2. content[b][s] \in Worth(s) \union Damaged
      BY <1>11, <2>1 DEF TruthfulOf
    <2>3. CASE s \in reworded
      <3>1. s = "image" /\ content'[b][s] = Untracked(content[b][s])
        BY <1>7, <2>3 DEF Done
      <3> QED
        BY <2>2, <3>1 DEF Untracked, Worth, Damaged
    <2>4. CASE s \notin reworded
      BY <1>7, <2>2, <2>4 DEF Done
    <2> QED
      BY <2>3, <2>4
  <1>15. Done(b, "image")' => SlidesAreTheirs(b)'
    <2> SUFFICES ASSUME Done(b, "image")' PROVE SlidesAreTheirs(b)'
      OBVIOUS
    <2>1. /\ plan \in {"keep", "same"} /\ "image" \notin readers /\ visual'[b] = visual[b]
          /\ Done(b, "image")
      BY <1>4, <1>7, <1>12 DEF Done, Stages
    <2>2. SlidesAreTheirs(b) /\ content[b]["image"] \in Worth("image") \union Damaged
      BY <1>11, <2>1 DEF TruthfulOf, Stages
    <2>3. CASE tts
      <3>1. /\ slides'[b] = Untracked(slides[b]) /\ content'[b]["image"] = Untracked(content[b]["image"])
        BY <1>4, <2>1, <2>3 DEF Stages
      <3> QED
        BY <2>1, <2>2, <3>1 DEF SlidesAreTheirs, Untracked, Worth, Damaged
    <2>4. CASE ~tts
      <3>1. slides'[b] = slides[b] /\ content'[b]["image"] = content[b]["image"]
        BY <1>4, <2>1, <2>4 DEF OutdateSlides, Outdate, Stages
      <3> QED
        BY <2>1, <2>2, <3>1 DEF SlidesAreTheirs
    <2> QED
      BY <2>3, <2>4
  <1>16. Done(b, "render")' => VideoIsExplained(b)'
    <2> SUFFICES ASSUME Done(b, "render")' PROVE VideoIsExplained(b)'
      OBVIOUS
    <2>1. /\ "image" \notin readers /\ ~tts /\ Done(b, "render")
      BY <1>7, <1>12, <1>13 DEF Done, Stages
    <2>2. /\ slides'[b] = slides[b] /\ content'[b]["image"] = content[b]["image"]
          /\ content'[b]["render"] = content[b]["render"]
      BY <1>4, <1>7, <2>1 DEF OutdateSlides, Outdate, Stages, Done
    <2> QED
      BY <1>11, <2>1, <2>2 DEF TruthfulOf, VideoIsExplained
  <1>17. StatusesAreTruthful'
    <2>1. TruthfulOf(b)'
      BY <1>14, <1>15, <1>16 DEF TruthfulOf
    <2>2. \A c \in Blocks : c # b => TruthfulOf(c)'
      BY <1>4, SameBlock DEF Done
    <2> QED
      BY <2>1, <2>2, BlockByBlock
  <1> QED
    BY <1>2, <1>3, <1>10, <1>17 DEF Inv

\* A change of settings resets every status whose product it outdates.
LEMMA SettingsKeep ==
    ASSUME Inv, TypeOK', NEW setting \in Settings, ChangeSettings(setting)
    PROVE  Inv'
  <1>1. ~Working
    BY IdleMeansNoWork DEF ChangeSettings
  <1>2. /\ PlanWork' /\ StageWork' /\ RenderWork' /\ Recorded' /\ Excused' /\ AlteredIsSeen'
        /\ GuardTrustsOwnWork' /\ RenamedIsThere' /\ PublishedVideoStays'
    BY <1>1, RestsKeep DEF ChangeSettings
  <1>3. JobsMatch' /\ BeforeSplit'
    BY <1>1 DEF ChangeSettings, Inv, JobsMatch, BeforeSplit, Running, Working
  <1>4. \A b \in Blocks, s \in Stages :
            /\ status'[b][s] = IF s \in DependenciesForSettings(setting) THEN "pending" ELSE status[b][s]
            /\ content'[b][s] = Outdate(content[b], Readers(setting))[s]
            /\ slides'[b] = OutdateSlides(b, Readers(setting)) /\ visual'[b] = visual[b]
    BY DEF ChangeSettings
  <1>5. \A s \in Stages : s \in Readers(setting) => s \in DependenciesForSettings(setting)
    BY DEF Settings, Readers, DependenciesForSettings
  <1>6. "plan" \notin DependenciesForSettings(setting)
    BY DEF Settings, DependenciesForSettings
  <1>7. \A b \in Blocks, s \in Stages : status'[b][s] = "completed"
            => status[b][s] = "completed" /\ content'[b][s] = content[b][s]
    BY <1>4, <1>5 DEF Outdate
  <1>8. PlansFirst'
    BY <1>4, <1>6, <1>7 DEF Inv, PlansFirst, Stages
  <1>9. \A b \in Blocks : status'[b]["image"] = "completed" => slides'[b] = slides[b]
    BY <1>4, <1>5 DEF OutdateSlides, Stages
  <1>10. StatusesAreTruthful'
    <2> SUFFICES ASSUME NEW b \in Blocks PROVE TruthfulOf(b)'
      BY BlockByBlock
    <2>1. TruthfulOf(b) /\ visual'[b] = visual[b]
      BY <1>4, BlockByBlock DEF Inv, Stages
    <2>2. \A s \in Stages : Done(b, s)' => Done(b, s) /\ content'[b][s] = content[b][s]
      BY <1>7 DEF Done, Stages
    <2>3. Done(b, "image")' => slides'[b] = slides[b] /\ content'[b]["image"] = content[b]["image"]
      BY <1>7, <1>9 DEF Done, Stages
    <2>4. Done(b, "render")' => Done(b, "image")'
      BY DEF Done
    <2>5. Done(b, "image")' => SlidesAreTheirs(b)'
      BY <2>1, <2>2, <2>3 DEF TruthfulOf, SlidesAreTheirs, Stages
    <2>6. Done(b, "render")' => VideoIsExplained(b)'
      BY <2>1, <2>2, <2>3, <2>4 DEF TruthfulOf, VideoIsExplained, Stages
    <2> QED
      BY <2>1, <2>2, <2>5, <2>6 DEF TruthfulOf
  <1> QED
    BY <1>2, <1>3, <1>8, <1>10 DEF Inv

\* A request adds a row and touches nothing else.
LEMMA RequestKeeps ==
    ASSUME Inv, TypeOK', NEW kind \in Kinds, NEW target \in Blocks \union {None},
           Request(kind, target)
    PROVE  Inv'
  <1>1. ~Working /\ UNCHANGED <<split, pacing, visual, status, content, slides, run, directory, artifact>>
    BY IdleMeansNoWork DEF Request, blockVars
  <1>2. /\ PlanWork' /\ StageWork' /\ RenderWork' /\ Recorded' /\ Excused' /\ AlteredIsSeen'
        /\ GuardTrustsOwnWork' /\ RenamedIsThere' /\ PublishedVideoStays'
    BY <1>1, RestsKeep
  <1>3. job.id \in 0 .. MaxJobs /\ job'.id = job.id + 1 /\ job'.id <= MaxJobs
    BY MaterialsAssumption DEF Request, Inv, TypeOK
  <1>4. job'.id \in JobIds
    BY <1>3, MaterialsAssumption DEF JobIds
  <1>5. JobsMatch'
    BY <1>1, <1>4 DEF JobsMatch, Working, Running
  <1>6. BeforeSplit' /\ PlansFirst' /\ StatusesAreTruthful'
    BY <1>1 DEF Inv, BeforeSplit, PlansFirst, StatusesAreTruthful, SlidesAreTheirs, VideoIsExplained, Running, Done
  <1> QED
    BY <1>2, <1>5, <1>6 DEF Inv

-----------------------------------------------------------------------------
(* The coroutine: claim, split and the head of the stage loop                *)

\* What the plan of the work says of plans: an image alone is asked for only
\* beside a finished plan, and a plan only where there is none.
LEMMA PlanOfWork ==
    ASSUME Inv, NEW kind \in Kinds, NEW target, NEW b \in Blocks
    PROVE  LET work == WorkOf(kind, target)[b] IN
           /\ "plan" \in work => status[b]["plan"] # "completed"
           /\ "image" \in work /\ "plan" \notin work => status[b]["plan"] = "completed"
  <1>1. WorkOf(kind, target)[b] = IF split THEN PlanOf(b, kind, target) ELSE {}
    BY DEF WorkOf
  <1>2. "plan" \in Needed(b) <=> status[b]["plan"] # "completed"
    <2>1. status[b]["plan"] = "completed" => Exists(b, "plan")
      BY DEF Inv, PlansFirst, Worth, Exists
    <2> QED
      BY <2>1 DEF Needed, Files
  <1>3. "plan" \in WithEffects(Needed(b)) <=> "plan" \in Needed(b)
    BY DEF WithEffects
  <1>4. CASE kind = "full"
    BY <1>1, <1>2, <1>3, <1>4 DEF PlanOf
  <1>5. CASE kind = "block_visual"
    BY <1>1, <1>2, <1>5 DEF PlanOf
  <1>6. CASE kind \in {"rerender", "block_audio"}
    BY <1>1, <1>6 DEF PlanOf
  <1> QED
    BY <1>4, <1>5, <1>6 DEF Kinds

\* A claimed job starts with the work its plan finds, and an empty list of rewritten files.
LEMMA BeginKeeps == ASSUME Inv, TypeOK', Begin PROVE Inv'
  <1> DEFINE work == WorkOf(job.kind, job.target)
  <1>1. /\ run' = [at |-> "between", todo |-> StagesOf(job.kind, work), work |-> work,
                   left |-> {}, block |-> "idle", expected |-> CompletedMaterials, written |-> {},
                   genuine |-> \A b \in Blocks, s \in Stages : content[b][s] # "altered"]
        /\ job.status = "pending" /\ job' = [job EXCEPT !.status = "running"]
        /\ UNCHANGED <<split, pacing, visual, status, content, slides, directory, artifact, outside>>
    BY DEF Begin, blockVars, counters
  <1>2. job.kind \in Kinds /\ job'.status = "running" /\ job'.id = job.id /\ job.id \in JobIds
    BY <1>1 DEF Inv, TypeOK, JobsMatch
  <1>3. JobsMatch'
    BY <1>2 DEF JobsMatch
  <1>4. work \in [Blocks -> SUBSET Stages] /\ "split" \notin Stages
    BY <1>2, WorkType DEF Stages
  <1>5. BeforeSplit'
    <2>1. CASE split
      <3>1. "split" \notin StagesOf(job.kind, work)
        BY <1>4, <2>1 DEF StagesOf
      <3> QED
        BY <1>1, <2>1, <3>1 DEF BeforeSplit
    <2>2. CASE ~split /\ job.kind = "full"
      <3>1. "split" \in StagesOf(job.kind, work) /\ Stages \subseteq StagesOf(job.kind, work)
        BY <2>2 DEF StagesOf
      <3> QED
        BY <1>1, <2>2, <3>1 DEF BeforeSplit, Inv
    <2>3. CASE ~split /\ job.kind # "full"
      <3>1. \A b \in Blocks : work[b] = {}
        BY <2>3 DEF WorkOf
      <3>2. StagesOf(job.kind, work) \subseteq {"render"}
        BY <2>3, <3>1 DEF StagesOf
      <3> QED
        BY <1>1, <2>3, <3>2 DEF BeforeSplit, Inv
    <2> QED
      BY <2>1, <2>2, <2>3
  <1>6. PlansFirst' /\ StatusesAreTruthful' /\ PublishedVideoStays'
    BY <1>1 DEF Inv, PlansFirst, StatusesAreTruthful, SlidesAreTheirs, VideoIsExplained,
                PublishedVideoStays, Done
  <1>7. PlanWork'
    <2> SUFFICES ASSUME NEW b \in Blocks
                 PROVE  /\ "image" \in work[b] /\ "plan" \notin work[b] => status[b]["plan"] = "completed"
                        /\ "plan" \in work[b] => "plan" \in StagesOf(job.kind, work)
                        /\ "plan" \in work[b] => status[b]["plan"] # "completed"
      BY <1>1 DEF PlanWork
    <2>1. "plan" \in work[b] => "plan" \in StagesOf(job.kind, work)
      BY DEF StagesOf
    <2> QED
      BY <1>2, <2>1, PlanOfWork
  <1>8. StageWork' /\ RenderWork' /\ Excused' /\ RenamedIsThere'
    BY <1>1 DEF StageWork, RenderWork, Excused, RenamedIsThere, Files
  <1>9. Recorded'
    BY <1>1 DEF Recorded, CompletedMaterials, Exists
  <1>10. GuardTrustsOwnWork'
    BY <1>1 DEF GuardTrustsOwnWork, Guard, Running
  <1>11. AlteredIsSeen'
    BY <1>1 DEF AlteredIsSeen
  <1> QED
    BY <1>3, <1>5, <1>6, <1>7, <1>8, <1>9, <1>10, <1>11 DEF Inv

\* The stage that comes next is the first of those left.
LEMMA FirstStage ==
    ASSUME NEW s \in DOMAIN Rank, IsNext(s)
    PROVE  /\ "split" \in run.todo => s = "split"
           /\ s \in {"image", "audio", "render"} => "plan" \notin run.todo
  BY DEF IsNext, Rank

\* A guard between two stages excuses nothing.
LEMMA NothingExcused ==
    ASSUME run.at = "between"
    PROVE  Mutable = {} /\ (Guard => run.expected \intersect run.written = {})
  BY DEF Mutable, Guard, FileProducts, Files

\* A genuine job whose guard is content has met no altered file.
LEMMA NothingAltered ==
    ASSUME Inv, Working, Guard, run.genuine, NEW b \in Blocks, NEW s \in Stages
    PROVE  content[b][s] # "altered"
  BY DEF Inv, AlteredIsSeen, Guard

\* What a stage leaves behind: the guard's list is taken anew.
LEMMA LeaveKeeps ==
    ASSUME NEW s, run \in RunRow, run' = Leave(s)
    PROVE  /\ RenderWork' /\ Excused' /\ RenamedIsThere' /\ Recorded' /\ GuardTrustsOwnWork'
           /\ StageWork'
  <1>1. /\ run'.at = "between" /\ run'.left = {} /\ run'.block = "idle" /\ run'.written = {}
        /\ run'.expected = CompletedMaterials'
    BY DEF Leave, RunRow
  <1>2. Running'
    BY <1>1 DEF Running, NoRun
  <1> QED
    BY <1>1, <1>2 DEF RenderWork, Excused, RenamedIsThere, Recorded, GuardTrustsOwnWork, Guard,
                      StageWork, Files

\* After the split stage everything is to be done.
LEMMA SplitKeeps == ASSUME Inv, TypeOK', Split PROVE Inv'
  <1>1. /\ run \in RunRow /\ Running /\ Guard /\ run.at = "between" /\ IsNext("split")
        /\ split' = TRUE /\ UNCHANGED <<visual, status, content, slides, job, directory, artifact, outside>>
        /\ run' = [Leave("split") EXCEPT !.work = [b \in Blocks |-> Stages]]
    BY RunCases DEF Split, Inv, Guard, counters
  <1>2. /\ run'.at = "between" /\ run'.left = {} /\ run'.block = "idle" /\ run'.written = {}
        /\ run'.expected = CompletedMaterials' /\ run'.work = [b \in Blocks |-> Stages]
        /\ run'.todo = run.todo \ {"split"} /\ run'.genuine = run.genuine
    BY <1>1 DEF Leave, RunRow
  <1>3. Running' /\ Working
    BY <1>1, <1>2 DEF Running, NoRun, Working
  <1>4. ~split /\ Stages \subseteq run.todo
    BY <1>1 DEF IsNext, Inv, BeforeSplit
  <1>5. \A b \in Blocks, s \in Stages : status'[b][s] = "pending"
    BY <1>1, <1>4 DEF Inv, BeforeSplit
  <1>6. JobsMatch' /\ PublishedVideoStays'
    BY <1>1, <1>3 DEF Inv, JobsMatch, Working, PublishedVideoStays
  <1>7. BeforeSplit'
    BY <1>1, <1>2 DEF BeforeSplit
  <1>8. PlansFirst' /\ StatusesAreTruthful'
    BY <1>1 DEF Inv, PlansFirst, StatusesAreTruthful, SlidesAreTheirs, VideoIsExplained, Done
  <1>9. PlanWork'
    BY <1>2, <1>4, <1>5 DEF PlanWork, Stages
  <1>10. StageWork' /\ RenderWork' /\ Excused' /\ RenamedIsThere' /\ Recorded' /\ GuardTrustsOwnWork'
    BY <1>2, <1>3 DEF StageWork, RenderWork, Excused, RenamedIsThere, Recorded,
                      GuardTrustsOwnWork, Guard, Files
  <1>11. AlteredIsSeen'
    BY <1>1, <1>2, <1>3, NothingAltered DEF AlteredIsSeen
  <1> QED
    BY <1>6, <1>7, <1>8, <1>9, <1>10, <1>11 DEF Inv

\* A stage resets what it selects; the render stage finds its inputs recorded.
LEMMA BeginStageKeeps ==
    ASSUME Inv, TypeOK', NEW s \in Stages, BeginStage(s)
    PROVE  Inv'
  <1> DEFINE selected == {b \in Blocks : s \in run.work[b]}
  <1>1. /\ run \in RunRow /\ Running /\ Guard /\ run.at = "between" /\ IsNext(s)
        /\ UNCHANGED <<split, pacing, visual, content, slides, job, directory, artifact, outside>>
        /\ s = "render" => split /\ MediaReady /\ RenderInputsExist
    BY RunCases DEF BeginStage, Inv, Guard, counters
  <1>2. /\ run'.at = s /\ run'.todo = run.todo /\ run'.work = run.work /\ run'.block = run.block
        /\ run'.expected = run.expected /\ run'.written = run.written /\ run'.genuine = run.genuine
        /\ s # "render" => run'.left = selected
        /\ s = "render" => run'.left = {b \in Blocks : status'[b]["render"] # "completed"
                                                       \/ ~Exists(b, "render")}
    BY <1>1 DEF BeginStage, RunRow
  <1>3. Running' /\ Working /\ Working'
    BY <1>1, <1>2 DEF Running, NoRun, Working, Stages
  <1>4. \A b \in Blocks, t \in Stages :
            status'[b][t] = IF b \in selected /\ t = s THEN "pending" ELSE status[b][t]
    <2>1. status' = Reset(s, selected)
      BY DEF BeginStage
    <2>2. status \in [Blocks -> [Stages -> Status]]
      BY DEF Inv, TypeOK
    <2> HIDE DEF selected
    <2> QED
      BY <2>1, <2>2 DEF Reset
  <1>5. run.block = "idle" /\ s \in run.todo
    BY <1>1 DEF Inv, StageWork, IsNext
  <1>6. /\ "split" \notin run.todo
        /\ s \in {"image", "audio", "render"} => "plan" \notin run.todo
    BY <1>1, FirstStage DEF Stages, Rank
  <1>7. split
    BY <1>1, <1>5, <1>6 DEF Inv, BeforeSplit
  <1>8. JobsMatch' /\ BeforeSplit' /\ PublishedVideoStays'
    BY <1>1, <1>2, <1>3, <1>6, <1>7 DEF Inv, JobsMatch, BeforeSplit, PublishedVideoStays
  <1>9. PlansFirst'
    <2>1. s = "plan" => \A b \in selected : status[b]["image"] # "completed"
      BY <1>1, <1>3, <1>5 DEF Inv, PlanWork, PlansFirst
    <2> QED
      BY <1>1, <1>4, <2>1 DEF Inv, PlansFirst, Stages
  <1>10. PlanWork'
    BY <1>2, <1>3, <1>4, <1>5 DEF Inv, PlanWork, Stages
  <1>11. StageWork'
    BY <1>2, <1>4, <1>5, <1>6 DEF StageWork, Stages, Files
  <1>12. StatusesAreTruthful'
    BY <1>1, <1>4, SameBlock, BlockByBlock DEF Done, Stages
  <1>13. RenderWork'
    <2> SUFFICES ASSUME s = "render", NEW b \in Blocks
                 PROVE  /\ \A t \in {"image", "audio"} :
                               /\ status'[b][t] = "completed"
                               /\ <<b, t>> \in run.expected
                               /\ content'[b][t] = "absent" => <<b, t>> \in run.written
                        /\ b \notin run'.left => status'[b]["render"] = "completed"
      BY <1>2 DEF RenderWork, Stages
    <2>1. b \notin run'.left => status'[b]["render"] = "completed"
      BY <1>2
    <2>2. \A t \in {"image", "audio"} : status[b][t] = "completed" /\ Exists(b, t)
      BY <1>1 DEF MediaReady, RenderInputsExist
    <2>3. \A t \in {"image", "audio"} : <<b, t>> \in CompletedMaterials
      BY <2>2 DEF CompletedMaterials, FileProducts, Files
    <2>4. \A t \in {"image", "audio"} : <<b, t>> \in run.expected
      BY <1>1, <2>3 DEF Inv, Recorded
    <2> QED
      BY <1>1, <1>4, <2>1, <2>2, <2>4 DEF Stages, Exists
  <1>14. Excused'
    <2> SUFFICES ASSUME s = "render", outside = 0, NEW b \in run'.left, <<b, "render">> \in run.expected
                 PROVE  "render" \in run.work[b]
      BY <1>1, <1>2 DEF Excused
    <2>1. <<b, "render">> \in CompletedMaterials /\ b \in Blocks
      BY <1>1, <1>2 DEF Inv, Recorded
    <2>2. status[b]["render"] = "completed" /\ Exists(b, "render")
      BY <2>1 DEF CompletedMaterials
    <2>3. status'[b]["render"] # "completed"
      BY <1>2, <2>2
    <2> QED
      BY <1>4, <2>1, <2>2, <2>3 DEF Stages
  <1>15. Recorded' /\ RenamedIsThere'
    BY <1>2 DEF Recorded, RenamedIsThere, Stages
  <1>16. GuardTrustsOwnWork'
    BY <1>1, <1>2, <1>3, NothingExcused DEF GuardTrustsOwnWork, Guard
  <1>17. AlteredIsSeen'
    BY <1>1, <1>2, <1>3, NothingAltered DEF AlteredIsSeen
  <1> QED
    BY <1>8, <1>9, <1>10, <1>11, <1>12, <1>13, <1>14, <1>15, <1>16, <1>17 DEF Inv

-----------------------------------------------------------------------------
(* The stages                                                                *)

\* Planned blocks lose the statuses their new plan outdates; failed ones had none to lose.
LEMMA PlanStageKeeps ==
    ASSUME Inv, TypeOK', NEW failing \in SUBSET Blocks, PlanStage(failing)
    PROVE  Inv'
  <1> DEFINE planned == run.left \ failing
             reset == {"image", "render"} \union (IF pacing = "adaptive" THEN {"audio"} ELSE {})
  <1>1. /\ run \in RunRow /\ Running /\ Guard /\ run.at = "plan" /\ run.block = "idle"
        /\ failing \subseteq run.left /\ run.left \subseteq Blocks
        /\ UNCHANGED <<split, pacing, job, directory, artifact, outside>>
    BY RunCases DEF PlanStage, Inv, Guard, counters, RunRow
  <1>2. Working
    BY <1>1 DEF Working
  <1>3. \A b \in Blocks, s \in Stages :
            status'[b][s] = CASE s = "plan" /\ b \in planned -> "completed"
                              [] s = "plan" /\ b \in failing -> "failed"
                              [] s \in reset /\ b \in planned -> "pending"
                              [] OTHER -> status[b][s]
    BY DEF PlanStage
  <1>4. /\ \A b \in Blocks : b \notin planned => content'[b] = content[b]
        /\ \A b \in Blocks : b \notin planned => slides'[b] = slides[b] /\ visual'[b] = visual[b]
        /\ \A b \in planned : content'[b]["plan"] = "fresh"
        /\ \A b \in planned, s \in Stages : s # "plan" /\ s \notin reset => content'[b][s] = content[b][s]
        /\ \A b \in planned, s \in Stages : s # "plan" =>
               content'[b][s] = content[b][s] \/ content'[b][s] = "stale"
    <2>1. /\ \A b \in Blocks : b \notin planned =>
                 content'[b] = content[b] /\ slides'[b] = slides[b] /\ visual'[b] = visual[b]
          /\ \A b \in planned : content'[b] = [Outdate(content[b], Readers("plan")) EXCEPT !["plan"] = "fresh"]
      BY <1>1 DEF PlanStage
    <2>2. \A b \in planned, s \in Stages : content'[b][s] =
              IF s = "plan" THEN "fresh" ELSE Outdate(content[b], Readers("plan"))[s]
      BY <2>1 DEF Outdate
    <2>3. Readers("plan") = {"image", "render"} \union (IF pacing = "adaptive" THEN {"audio"} ELSE {})
      BY DEF Readers
    <2> QED
      BY <2>1, <2>2, <2>3 DEF Outdate, Outdated, Stages
  <1>5. \A b \in run.left : /\ "plan" \in run.work[b] /\ status[b]["plan"] # "completed"
                            /\ status[b]["image"] # "completed"
    BY <1>1 DEF Inv, StageWork, PlansFirst
  <1>6. \A b \in Blocks : "plan" \in run.work[b] => b \in run.left
    BY <1>1 DEF Inv, StageWork
  <1>7. split /\ "split" \notin run.todo
    BY <1>1 DEF Inv, BeforeSplit
  <1>8. PlansFirst'
    BY <1>1, <1>3, <1>4, <1>5 DEF Inv, PlansFirst, Worth, Stages
  <1>9. StatusesAreTruthful'
    <2> SUFFICES ASSUME NEW b \in Blocks PROVE TruthfulOf(b)'
      BY BlockByBlock
    <2>1. CASE b \in planned
      <3>1. ~Done(b, "image")' /\ ~Done(b, "render")'
        BY <1>3, <2>1 DEF Done, Stages
      <3>2. content'[b]["plan"] \in Worth("plan")
        BY <1>4, <2>1 DEF Worth
      <3>3. \A s \in Stages : Done(b, s)' /\ s # "plan" => Done(b, s) /\ content'[b][s] = content[b][s]
        BY <1>3, <1>4, <2>1 DEF Done
      <3>4. TruthfulOf(b)
        BY BlockByBlock DEF Inv
      <3> QED
        BY <3>1, <3>2, <3>3, <3>4 DEF TruthfulOf
    <2>2. CASE b \notin planned
      <3>1. \A s \in Stages : Done(b, s)' => Done(b, s)
        BY <1>3, <2>2 DEF Done, Stages
      <3> QED
        BY <1>4, <2>2, <3>1, SameBlock
    <2> QED
      BY <2>1, <2>2
  <1>10. \A b \in Blocks, s \in Stages : content'[b][s] = "altered" => content[b][s] = "altered"
    BY <1>4 DEF Stages
  <1>11. JobsMatch' /\ PublishedVideoStays'
    BY <1>1, <1>2 DEF Inv, JobsMatch, PublishedVideoStays, Working
  <1>12. CASE failing = {}
    <2>1. run' = Leave("plan")
      BY <1>12 DEF PlanStage
    <2>2. /\ run'.at = "between" /\ run'.todo = run.todo \ {"plan"} /\ run'.work = run.work
          /\ run'.genuine = run.genuine
      BY <1>1, <2>1 DEF Leave, RunRow
    <2>3. /\ RenderWork' /\ Excused' /\ RenamedIsThere' /\ Recorded' /\ GuardTrustsOwnWork' /\ StageWork'
      BY <1>1, <2>1, LeaveKeeps
    <2>4. BeforeSplit'
      BY <1>1, <1>7, <2>2 DEF BeforeSplit
    <2>5. PlanWork'
      <3>1. \A b \in Blocks : "plan" \in run.work[b] => status'[b]["plan"] = "completed"
        BY <1>3, <1>6, <1>12 DEF Stages
      <3>2. \A b \in Blocks : "plan" \notin run.work[b] => status'[b]["plan"] = status[b]["plan"]
        BY <1>1, <1>3, <1>5 DEF Stages
      <3> QED
        BY <1>2, <2>2, <3>1, <3>2 DEF Inv, PlanWork
    <2>6. AlteredIsSeen'
      BY <1>1, <1>2, <1>10, <2>2, NothingAltered DEF AlteredIsSeen
    <2> QED
      BY <1>8, <1>9, <1>11, <2>3, <2>4, <2>5, <2>6 DEF Inv
  <1>13. CASE failing # {}
    <2>1. run' = [run EXCEPT !.block = "failed"]
      BY <1>13 DEF PlanStage
    <2>2. /\ run'.at = "plan" /\ run'.todo = run.todo /\ run'.work = run.work /\ run'.left = run.left
          /\ run'.genuine = run.genuine /\ run'.block = "failed"
          /\ run'.expected = run.expected /\ run'.written = run.written
      BY <1>1, <2>1 DEF RunRow
    <2>3. BeforeSplit'
      BY <1>1, <1>7, <2>2 DEF BeforeSplit
    <2>4. PlanWork'
      <3>1. "plan" \in run.todo
        BY <1>1, <1>2, <1>5, <1>13 DEF Inv, PlanWork
      <3>2. \A b \in Blocks : "plan" \notin run.work[b] => status'[b]["plan"] = status[b]["plan"]
        BY <1>1, <1>3, <1>5 DEF Stages
      <3> QED
        BY <1>2, <2>2, <3>1, <3>2 DEF Inv, PlanWork
    <2>5. StageWork'
      BY <1>5, <1>6, <2>2 DEF StageWork, Files
    <2>6. RenderWork' /\ Excused' /\ RenamedIsThere' /\ Recorded'
      BY <2>2 DEF RenderWork, Excused, RenamedIsThere, Recorded
    <2>7. GuardTrustsOwnWork'
      BY <1>1, <2>2 DEF GuardTrustsOwnWork, Guard, Mutable, Running
    <2>8. AlteredIsSeen'
      BY <1>1, <1>2, <1>10, <2>2, NothingAltered DEF AlteredIsSeen
    <2> QED
      BY <1>8, <1>9, <1>11, <2>3, <2>4, <2>5, <2>6, <2>7, <2>8 DEF Inv
  <1> QED
    BY <1>12, <1>13

\* The block a stage is on, in the middle of its work.
LEMMA AtWork ==
    ASSUME Inv, Running, run.left # {}, run.at \in Files
    PROVE  /\ run \in RunRow /\ Working /\ split /\ "plan" \notin run.todo
           /\ Current \in run.left /\ Current \in Blocks
           /\ run.at \in {"image", "audio"} =>
                  run.at \in run.work[Current]
                  /\ (run.block # "failed" => status[Current][run.at] # "completed")
  <1>1. run \in RunRow /\ run.left \subseteq Blocks
    BY RunCases DEF Inv, RunRow
  <1>2. Current \in run.left
    BY <1>1, CurrentIsLeft
  <1> QED
    BY <1>1, <1>2 DEF Inv, Working, StageWork, BeforeSplit, Files

\* A file is torn only when its status is not completed and the guard excuses it.
LEMMA StartKeeps == ASSUME Inv, TypeOK', StartMaterial PROVE Inv'
  <1>1. /\ Running /\ Guard /\ run.at \in Files /\ run.left # {} /\ run.block = "idle"
        /\ UNCHANGED <<split, pacing, status, job, directory, artifact, outside>>
    BY DEF StartMaterial, Guard, counters
  <1>2. /\ run \in RunRow /\ Working /\ split /\ Current \in run.left /\ Current \in Blocks
        /\ run.at \in {"image", "audio"} =>
               run.at \in run.work[Current] /\ status[Current][run.at] # "completed"
    BY <1>1, AtWork
  <1> DEFINE product == <<Current, run.at>>
  <1>3. /\ run'.at = run.at /\ run'.todo = run.todo /\ run'.work = run.work /\ run'.left = run.left
        /\ run'.block = "writing" /\ run'.expected = run.expected /\ run'.genuine = run.genuine
        /\ run'.written = IF run.at = "render" THEN run.written ELSE run.written \union {product}
    BY <1>1, <1>2 DEF StartMaterial, RunRow
  <1>4. \A b \in Blocks, s \in Stages : content'[b][s] =
            IF run.at # "render" /\ b = Current /\ s = run.at THEN "torn" ELSE content[b][s]
    <2>1. content \in [Blocks -> [Stages -> Content]]
      BY DEF Inv, TypeOK
    <2>2. CASE run.at = "render"
      BY <2>2 DEF StartMaterial
    <2>3. CASE run.at # "render"
      <3>1. content' = [content EXCEPT ![Current][run.at] = "torn"]
        BY <2>3 DEF StartMaterial
      <3> QED
        BY <2>1, <2>3, <3>1
    <2> QED
      BY <2>2, <2>3
  <1>5. Working' /\ Running'
    BY <1>2, <1>3 DEF Working, Running, NoRun, RunRow
  <1>6. JobsMatch' /\ BeforeSplit' /\ PublishedVideoStays'
    BY <1>1, <1>2, <1>3, <1>5 DEF Inv, JobsMatch, BeforeSplit, PublishedVideoStays
  <1>7. PlansFirst'
    BY <1>1, <1>4 DEF Inv, PlansFirst, Stages, Files
  <1>8. PlanWork' /\ StageWork'
    BY <1>1, <1>2, <1>3 DEF Inv, PlanWork, StageWork, Files
  <1>9. StatusesAreTruthful'
    <2> SUFFICES ASSUME NEW b \in Blocks PROVE TruthfulOf(b)'
      BY BlockByBlock
    <2>1. visual'[b] = visual[b] /\ (b # Current \/ run.at # "image" => slides'[b] = slides[b])
      BY DEF StartMaterial, Inv, TypeOK
    <2>2. content'[b] \in [Stages -> Content] /\ content[b] \in [Stages -> Content]
      BY DEF Inv, TypeOK
    <2>3. CASE b # Current \/ run.at = "render"
      <3>1. content'[b] = content[b]
        BY <1>4, <2>2, <2>3
      <3> QED
        BY <1>1, <2>1, <2>3, <3>1, SameBlock DEF Done
    <2>4. CASE b = Current /\ run.at # "render"
      <3>1. \A s \in Stages : Done(b, s)' => Done(b, s) /\ s # run.at /\ s # "render"
        BY <1>1, <1>2, <2>4 DEF Done, Files
      <3>2. Done(b, "image")' => content'[b]["image"] = content[b]["image"] /\ slides'[b] = slides[b]
        BY <1>4, <2>1, <3>1 DEF Stages
      <3>3. \A s \in Stages : Done(b, s)' => content'[b][s] = content[b][s]
        BY <1>4, <3>1
      <3>4. TruthfulOf(b)
        BY BlockByBlock DEF Inv
      <3>5. Done(b, "image")' => SlidesAreTheirs(b)'
        BY <2>1, <3>1, <3>2, <3>4 DEF TruthfulOf, SlidesAreTheirs, Stages
      <3> QED
        BY <3>1, <3>3, <3>4, <3>5 DEF TruthfulOf, Stages
    <2> QED
      BY <2>3, <2>4
  <1>10. RenderWork'
    <2>1. run.at = "render" => content' = content /\ run'.written = run.written
      BY <1>3 DEF StartMaterial
    <2> QED
      BY <1>1, <1>3, <2>1 DEF Inv, RenderWork, Files
  <1>11. Recorded' /\ RenamedIsThere'
    BY <1>1, <1>3 DEF Recorded, RenamedIsThere, Files
  <1>12. Excused'
    BY <1>1, <1>2, <1>3 DEF Inv, Excused
  <1>13. Mutable' = Mutable /\ (run.at # "render" => product \in Mutable)
    <2>1. Mutable' = Mutable
      BY <1>3 DEF Mutable
    <2>2. run.at # "render" => product \in Mutable
      BY <1>1, <1>2 DEF Mutable, FileProducts, Files
    <2> QED
      BY <2>1, <2>2
  <1>14. GuardTrustsOwnWork'
    BY <1>1, <1>3, <1>5, <1>13 DEF GuardTrustsOwnWork, Guard
  <1>15. AlteredIsSeen'
    BY <1>1, <1>2, <1>3, <1>4, NothingAltered DEF AlteredIsSeen
  <1> QED
    BY <1>6, <1>7, <1>8, <1>9, <1>10, <1>11, <1>12, <1>14, <1>15 DEF Inv

\* The images and narrations that the guard lets through are there.
LEMMA InputsAreThere ==
    ASSUME Inv, Running, Guard, run.at \in {"render", "candidate", "renamed"},
           NEW b \in Blocks, NEW s \in {"image", "audio"}
    PROVE  content[b][s] \in Worth(s) \union {"altered"} /\ Done(b, s)
  <1>1. status[b][s] = "completed" /\ <<b, s>> \in run.expected
        /\ (content[b][s] = "absent" => <<b, s>> \in run.written)
    BY DEF Inv, RenderWork
  <1>2. <<b, s>> \notin Mutable
    BY DEF Mutable
  <1>3. content[b][s] # "absent"
    BY <1>1, <1>2 DEF Guard
  <1>4. Done(b, s)
    BY <1>1 DEF Done
  <1> QED
    BY <1>3, <1>4 DEF Inv, StatusesAreTruthful, Damaged, Stages

\* A written file reflects the inputs the guard has let through.
LEMMA WriteKeeps == ASSUME Inv, TypeOK', WriteMaterial PROVE Inv'
  <1>1. /\ Running /\ run.block = "writing" /\ run.left # {} /\ run.at \in Files
        /\ run.at = "render" => Guard
        /\ UNCHANGED <<split, pacing, status, job, directory, artifact, outside>>
    BY DEF WriteMaterial, counters, Inv, StageWork
  <1>2. /\ run \in RunRow /\ Working /\ split /\ Current \in run.left /\ Current \in Blocks
        /\ run.at \in {"image", "audio"} =>
               run.at \in run.work[Current] /\ status[Current][run.at] # "completed"
    BY <1>1, AtWork
  <1> DEFINE product == <<Current, run.at>>
  <1>3. /\ run'.at = run.at /\ run'.todo = run.todo /\ run'.work = run.work /\ run'.left = run.left
        /\ run'.block = "written" /\ run'.expected = run.expected /\ run'.genuine = run.genuine
        /\ run'.written = run.written \union {product}
    BY <1>1, <1>2 DEF WriteMaterial, RunRow
  <1>4. Current' = Current
    BY <1>3 DEF Current
  <1>5. /\ \A b \in Blocks : b # Current => content'[b] = content[b]
        /\ run.at = "render" => content'[Current] = [content[Current] EXCEPT !["render"] = Encoded(Current)]
        /\ run.at # "render" => content'[Current] =
               [Outdate(content[Current], {"render"}) EXCEPT ![run.at] = "fresh"]
    <2>1. content' = [content EXCEPT ![Current] =
               IF run.at = "render" THEN [@ EXCEPT !["render"] = Encoded(Current)]
               ELSE [Outdate(@, Readers(run.at)) EXCEPT ![run.at] = "fresh"]]
      BY DEF WriteMaterial
    <2>2. run.at \in {"image", "audio"} => Readers(run.at) = {"render"}
      BY DEF Readers
    <2>3. content \in [Blocks -> [Stages -> Content]]
      BY DEF Inv, TypeOK
    <2>4. run.at = "render" \/ run.at \in {"image", "audio"}
      BY <1>1 DEF Files
    <2> QED
      BY <1>2, <2>1, <2>2, <2>3, <2>4
  <1>6. \A s \in Stages : content'[Current][s] =
            CASE run.at = "render" /\ s = "render" -> Encoded(Current)
              [] run.at # "render" /\ s = run.at -> "fresh"
              [] run.at # "render" /\ s = "render" -> Outdated(content[Current]["render"])
              [] OTHER -> content[Current][s]
    <2>1. content[Current] \in [Stages -> Content]
      BY <1>2 DEF Inv, TypeOK
    <2>2. CASE run.at = "render"
      BY <1>5, <2>1, <2>2
    <2>3. CASE run.at # "render"
      BY <1>1, <1>5, <2>1, <2>3 DEF Outdate, Files, Stages
    <2> QED
      BY <2>2, <2>3
  <1>7. run.at = "render" =>
            /\ Encoded(Current) \in Worth("render") \union {"altered"}
            /\ (Encoded(Current) = "altered" => content[Current]["image"] = "altered"
                                                \/ content[Current]["audio"] = "altered")
            /\ (Encoded(Current) = "untracked" => slides[Current] = "untracked"
                                                  \/ content[Current]["image"] = "untracked")
    <2> SUFFICES ASSUME run.at = "render"
                 PROVE  /\ Encoded(Current) \in Worth("render") \union {"altered"}
                        /\ (Encoded(Current) = "altered" => content[Current]["image"] = "altered"
                                                            \/ content[Current]["audio"] = "altered")
                        /\ (Encoded(Current) = "untracked" => slides[Current] = "untracked"
                                                              \/ content[Current]["image"] = "untracked")
      OBVIOUS
    <2>1. /\ content[Current]["image"] \in {"fresh", "untracked", "altered"}
          /\ content[Current]["audio"] \in {"fresh", "altered"} /\ Done(Current, "image")
      BY <1>1, <1>2, InputsAreThere DEF Worth
    <2>2. slides[Current] \in {"none", "fresh", "untracked"}
      BY <1>2, <2>1 DEF Inv, StatusesAreTruthful, SlidesAreTheirs
    <2> DEFINE inputs == {content[Current]["image"], content[Current]["audio"], slides[Current]} \ {"none"}
    <2>3. /\ inputs \subseteq {"fresh", "untracked", "altered"} /\ inputs # {}
          /\ ("altered" \in inputs => content[Current]["image"] = "altered" \/ content[Current]["audio"] = "altered")
          /\ ("untracked" \in inputs => slides[Current] = "untracked" \/ content[Current]["image"] = "untracked")
      BY <2>1, <2>2
    <2>4. \/ inputs = {"fresh"} /\ Encoded(Current) = "fresh"
          \/ "altered" \in inputs /\ Encoded(Current) = "altered"
          \/ inputs # {"fresh"} /\ inputs \subseteq {"fresh", "untracked"} /\ Encoded(Current) = "untracked"
          \/ "altered" \notin inputs /\ ~(inputs \subseteq {"fresh", "untracked"}) /\ Encoded(Current) = "stale"
      BY EncodedCases
    <2> HIDE DEF inputs
    <2> QED
      BY <2>3, <2>4 DEF Worth
  <1>8. Working' /\ Running'
    BY <1>2, <1>3 DEF Working, Running, NoRun, RunRow
  <1>9. JobsMatch' /\ BeforeSplit' /\ PublishedVideoStays'
    BY <1>1, <1>2, <1>3, <1>8 DEF Inv, JobsMatch, BeforeSplit, PublishedVideoStays
  <1>10. PlansFirst'
    BY <1>1, <1>5, <1>6 DEF Inv, PlansFirst, Stages, Files
  <1>a. /\ \A b \in Blocks : visual'[b] = visual[b] /\ (b # Current \/ run.at # "image" => slides'[b] = slides[b])
        /\ run.at = "image" => slides'[Current] \in {"none", "fresh"}
                               \/ (slides'[Current] = "untracked" /\ visual[Current] = "ai")
    <2>1. PICK several :
              slides' = [slides EXCEPT ![Current] = IF run.at = "image" THEN SlidesAfter(Current, several) ELSE @]
      BY DEF WriteMaterial
    <2>2. \/ SlidesAfter(Current, several) \in {"none", "fresh"}
          \/ SlidesAfter(Current, several) = "untracked" /\ visual[Current] = "ai"
      BY DEF SlidesAfter
    <2> QED
      BY <1>2, <2>1, <2>2 DEF WriteMaterial, Inv, TypeOK
  <1>11. PlanWork'
    BY <1>1, <1>2, <1>3 DEF Inv, PlanWork
  <1>12. StageWork'
    <2>1. CurrentIsWorth(run.at)'
      <3>1. content'[Current][run.at] \in Worth(run.at) \union {"altered"}
        BY <1>1, <1>6, <1>7 DEF Files, Stages, Worth
      <3>2. run.at = "image" => SlidesAreTheirs(Current)'
        BY <1>2, <1>a, <1>4 DEF SlidesAreTheirs
      <3>3. run.at = "render" => VideoIsExplained(Current)'
        BY <1>2, <1>a, <1>4, <1>6, <1>7 DEF VideoIsExplained, Stages
      <3> QED
        BY <1>3, <1>4, <3>1, <3>2, <3>3 DEF CurrentIsWorth
    <2> QED
      BY <1>1, <1>2, <1>3, <2>1 DEF Inv, StageWork, Files
  <1>13. StatusesAreTruthful'
    <2> SUFFICES ASSUME NEW b \in Blocks PROVE TruthfulOf(b)'
      BY BlockByBlock
    <2>1. TruthfulOf(b) /\ \A s \in Stages : Done(b, s)' => Done(b, s)
      BY <1>1, BlockByBlock DEF Inv, Done
    <2>2. CASE b # Current
      BY <1>5, <1>a, <2>1, <2>2, SameBlock
    <2>3. CASE b = Current /\ run.at = "render"
      <3>1. \A s \in Stages : s # "render" => content'[b][s] = content[b][s]
        BY <1>6, <2>3
      <3>2. content'[b]["render"] \in Worth("render") \union Damaged
        BY <1>6, <1>7, <2>3 DEF Damaged, Stages
      <3>3. VideoIsExplained(b)'
        BY <1>6, <1>7, <1>a, <2>3 DEF VideoIsExplained, Stages
      <3>4. Done(b, "image")' => SlidesAreTheirs(b)'
        BY <1>a, <2>1, <2>3, <3>1 DEF TruthfulOf, SlidesAreTheirs, Stages
      <3> QED
        BY <2>1, <3>1, <3>2, <3>3, <3>4 DEF TruthfulOf
    <2>4. CASE b = Current /\ run.at # "render"
      <3>1. \A s \in Stages : Done(b, s)' => Done(b, s) /\ s # run.at /\ s # "render"
        BY <1>1, <1>2, <2>1, <2>4 DEF Done, Files
      <3>2. \A s \in Stages : Done(b, s)' => content'[b][s] = content[b][s]
        BY <1>6, <2>4, <3>1
      <3>3. Done(b, "image")' => SlidesAreTheirs(b)'
        BY <1>a, <2>1, <3>1, <3>2 DEF TruthfulOf, SlidesAreTheirs, Stages
      <3> QED
        BY <2>1, <3>1, <3>2, <3>3 DEF TruthfulOf, Stages
    <2> QED
      BY <2>2, <2>3, <2>4
  <1>14. RenderWork'
    <2>1. \A b \in Blocks, s \in {"image", "audio"} :
              run.at = "render" => content'[b][s] = content[b][s]
      BY <1>5, <1>6 DEF Stages
    <2> QED
      BY ZenonT(60), <1>1, <1>3, <2>1 DEF Inv, RenderWork, Files
  <1>15. Recorded' /\ RenamedIsThere'
    BY <1>1, <1>3 DEF Recorded, RenamedIsThere, Files
  <1>16. Excused'
    BY <1>1, <1>2, <1>3 DEF Inv, Excused
  <1>17. Mutable' = Mutable
    BY <1>3 DEF Mutable
  <1>18. GuardTrustsOwnWork'
    <2> SUFFICES ASSUME outside = 0 PROVE Guard'
      BY <1>1 DEF GuardTrustsOwnWork
    <2>1. Guard
      BY <1>1, <1>2 DEF Inv, GuardTrustsOwnWork, Working
    <2>2. product \in run.expected => run.at \in run.work[Current]
      BY <1>1, <1>2 DEF Inv, Excused, Files
    <2>3. product \in run.expected => product \in Mutable
      BY <1>1, <1>2, <2>2 DEF Mutable, FileProducts, Files
    <2> QED
      BY <1>3, <1>8, <1>17, <2>1, <2>3 DEF Guard
  <1>19. AlteredIsSeen'
    <2> SUFFICES ASSUME run.genuine, NEW b \in Blocks, NEW s \in Stages, content'[b][s] = "altered"
                 PROVE  <<b, s>> \in (run.expected \intersect run'.written) \ Mutable
      BY <1>3, <1>17 DEF AlteredIsSeen
    <2>1. content[b][s] = "altered"
      <3>1. CASE run.at = "render"
        BY <1>1, <1>2, <1>5, <1>6, <1>7, <3>1, NothingAltered DEF Stages
      <3>2. CASE run.at # "render"
        BY <1>5, <1>6, <3>2 DEF Outdated
      <3> QED
        BY <3>1, <3>2
    <2>2. <<b, s>> \in (run.expected \intersect run.written) \ Mutable
      BY <1>2, <2>1 DEF Inv, AlteredIsSeen
    <2> QED
      BY <1>3, <2>2
  <1> QED
    BY <1>9, <1>10, <1>11, <1>12, <1>13, <1>14, <1>15, <1>16, <1>18, <1>19 DEF Inv

\* A status is completed only for a product that is in place.
LEMMA CommitKeeps == ASSUME Inv, TypeOK', CommitMaterial PROVE Inv'
  <1>1. /\ Running /\ Guard /\ run.block = "written" /\ run.left # {} /\ run.at \in Files
        /\ CurrentIsWorth(run.at)
        /\ UNCHANGED <<split, pacing, visual, content, slides, job, directory, artifact, outside>>
    BY DEF CommitMaterial, Guard, counters, Inv, StageWork
  <1>2. /\ run \in RunRow /\ Working /\ split /\ "plan" \notin run.todo
        /\ Current \in run.left /\ Current \in Blocks
        /\ run.at \in {"image", "audio"} => run.at \in run.work[Current]
    BY <1>1, AtWork
  <1>3. \A b \in Blocks, s \in Stages : status'[b][s] =
            IF b # Current THEN status[b][s]
            ELSE IF s = run.at THEN "completed"
            ELSE IF run.at # "render" /\ s = "render" THEN "pending" ELSE status[b][s]
    <2>1. status' = [status EXCEPT ![Current] =
              IF run.at = "render" THEN [@ EXCEPT !["render"] = "completed"]
              ELSE [@ EXCEPT ![run.at] = "completed", !["render"] = "pending"]]
      BY DEF CommitMaterial
    <2>2. status \in [Blocks -> [Stages -> Status]]
      BY DEF Inv, TypeOK
    <2>3. CASE run.at = "render"
      BY <1>2, <2>1, <2>2, <2>3
    <2>4. CASE run.at \in {"image", "audio"}
      BY <1>2, <2>1, <2>2, <2>4
    <2> QED
      BY <1>1, <2>3, <2>4 DEF Files
  <1>4. JobsMatch' /\ PublishedVideoStays'
    BY <1>1, <1>2 DEF Inv, JobsMatch, PublishedVideoStays, Working
  <1>5. run.at = "image" => status[Current]["plan"] = "completed"
    BY <1>2 DEF Inv, PlanWork
  <1>6. PlansFirst'
    BY <1>1, <1>3, <1>5 DEF Inv, PlansFirst, Stages, Files
  <1>7. StatusesAreTruthful'
    <2> SUFFICES ASSUME NEW b \in Blocks PROVE TruthfulOf(b)'
      BY BlockByBlock
    <2>1. TruthfulOf(b)
      BY BlockByBlock DEF Inv
    <2>2. CASE b # Current
      BY <1>1, <1>3, <2>2, SameBlock DEF Done, Stages
    <2>3. CASE b = Current
      <3>1. \A s \in Stages : Done(b, s)' /\ s # run.at => Done(b, s)
        BY <1>1, <1>3, <2>3 DEF Done, Stages, Files
      <3>2. Done(b, "render")' => run.at = "render"
        BY <1>1, <1>3, <2>3 DEF Done, Stages, Files
      <3>3. content[b][run.at] \in Worth(run.at) \union Damaged
        BY <1>1, <2>3 DEF CurrentIsWorth, Damaged
      <3>4. Done(b, "image")' => SlidesAreTheirs(b)
        BY <1>1, <2>1, <2>3, <3>1 DEF TruthfulOf, CurrentIsWorth, Stages
      <3>5. Done(b, "render")' => VideoIsExplained(b)
        BY <1>1, <2>3, <3>2 DEF CurrentIsWorth
      <3>6. (SlidesAreTheirs(b) => SlidesAreTheirs(b)') /\ (VideoIsExplained(b) => VideoIsExplained(b)')
        BY <1>1 DEF SlidesAreTheirs, VideoIsExplained
      <3> QED
        BY <1>1, <2>1, <3>1, <3>3, <3>4, <3>5, <3>6 DEF TruthfulOf
    <2> QED
      BY <2>2, <2>3
  <1>8. CASE run.at # "render" /\ run.left = {Current}
    <2>1. run' = Leave(run.at)
      BY <1>8 DEF CommitMaterial
    <2>2. /\ run'.at = "between" /\ run'.todo = run.todo \ {run.at} /\ run'.work = run.work
          /\ run'.genuine = run.genuine
      BY <1>2, <2>1 DEF Leave, RunRow
    <2>3. /\ RenderWork' /\ Excused' /\ RenamedIsThere' /\ Recorded' /\ GuardTrustsOwnWork' /\ StageWork'
      BY <1>2, <2>1, LeaveKeeps
    <2>4. BeforeSplit'
      BY <1>1, <1>2, <2>2 DEF Inv, BeforeSplit
    <2>5. PlanWork'
      BY <1>1, <1>2, <1>3, <2>2 DEF Inv, PlanWork, Stages, Files
    <2>6. AlteredIsSeen'
      BY <1>1, <1>2, <2>2, NothingAltered DEF AlteredIsSeen
    <2> QED
      BY <1>4, <1>6, <1>7, <2>3, <2>4, <2>5, <2>6 DEF Inv
  <1>9. CASE ~(run.at # "render" /\ run.left = {Current})
    <2>1. run' = [run EXCEPT !.left = @ \ {Current}, !.block = "idle"]
      BY <1>9 DEF CommitMaterial
    <2>2. /\ run'.at = run.at /\ run'.todo = run.todo /\ run'.work = run.work
          /\ run'.left = run.left \ {Current} /\ run'.genuine = run.genuine /\ run'.block = "idle"
          /\ run'.expected = run.expected /\ run'.written = run.written
      BY <1>2, <2>1 DEF RunRow
    <2>3. BeforeSplit'
      BY <1>1, <1>2, <2>2 DEF Inv, BeforeSplit
    <2>4. PlanWork'
      BY <1>1, <1>2, <1>3, <2>2 DEF Inv, PlanWork, Stages, Files
    <2>5. StageWork'
      <3>1. \A b \in run'.left : b \in Blocks /\ b # Current /\ b \in run.left
        BY <1>2, <2>2 DEF RunRow
      <3> QED
        BY <1>1, <1>2, <1>3, <2>2, <3>1 DEF Inv, StageWork, Files, Stages
    <2>6. RenderWork'
      <3>1. \A b \in Blocks, s \in {"image", "audio"} :
                run.at = "render" => status'[b][s] = status[b][s]
        BY <1>3 DEF Stages
      <3>2. \A b \in Blocks : run.at = "render" /\ b \notin run'.left =>
                b = Current \/ (b \notin run.left /\ status'[b]["render"] = status[b]["render"])
        BY <1>3, <2>2 DEF Stages
      <3>3. run.at = "render" => status'[Current]["render"] = "completed"
        BY <1>2, <1>3 DEF Stages
      <3> QED
        BY ZenonT(60), <1>1, <2>2, <3>1, <3>2, <3>3 DEF Inv, RenderWork, Files
    <2>7. Excused' /\ Recorded' /\ RenamedIsThere'
      BY <1>1, <1>2, <2>2 DEF Inv, Excused, Recorded, RenamedIsThere, Files
    <2>8. GuardTrustsOwnWork'
      <3>1. Running' /\ Mutable' = Mutable
        BY <1>1, <2>2 DEF Running, NoRun, Mutable, Files
      <3> QED
        BY <1>1, <2>2, <3>1 DEF GuardTrustsOwnWork, Guard
    <2>9. AlteredIsSeen'
      BY <1>1, <1>2, <2>2, NothingAltered DEF AlteredIsSeen
    <2> QED
      BY <1>4, <1>6, <1>7, <2>3, <2>4, <2>5, <2>6, <2>7, <2>8, <2>9 DEF Inv
  <1> QED
    BY <1>8, <1>9

-----------------------------------------------------------------------------
(* Publication                                                               *)

\* On the way to publication only the place of the coroutine and the directory
\* of its job change.
LEMMA OnTheWayKeeps ==
    ASSUME Inv, TypeOK', Guard, run.at \in {"render", "candidate"}, run.left = {}, run.block = "idle",
           NEW next \in {"candidate", "renamed"}, run' = [run EXCEPT !.at = next],
           UNCHANGED <<blockVars, job, artifact, outside>>,
           \A j \in JobIds : "final" \in directory[j] => "final" \in directory'[j],
           next = "renamed" => "final" \in directory'[job.id]
    PROVE  Inv'
  <1>1. /\ run \in RunRow /\ Running /\ Working
        /\ UNCHANGED <<split, pacing, visual, status, content, slides>>
    BY RunCases DEF Guard, Inv, Working, blockVars
  <1>2. /\ run'.at = next /\ run'.todo = run.todo /\ run'.work = run.work
        /\ run'.left = {} /\ run'.genuine = run.genuine /\ run'.block = "idle"
        /\ run'.expected = run.expected /\ run'.written = run.written
    BY <1>1 DEF RunRow
  <1>3. Running' /\ Working'
    BY <1>2 DEF Running, NoRun, Working
  <1>4. split /\ "split" \notin run.todo
    BY <1>1 DEF Inv, BeforeSplit
  <1>5. JobsMatch' /\ BeforeSplit' /\ PlansFirst' /\ StatusesAreTruthful' /\ PublishedVideoStays'
    BY <1>1, <1>2, <1>3, <1>4 DEF Inv, JobsMatch, BeforeSplit, PlansFirst, StatusesAreTruthful, Done,
                                  SlidesAreTheirs, VideoIsExplained, PublishedVideoStays, TypeOK
  <1>6. PlanWork' /\ StageWork' /\ RenderWork' /\ Excused' /\ Recorded' /\ RenamedIsThere'
    BY <1>1, <1>2, <1>3 DEF Inv, PlanWork, StageWork, RenderWork, Excused, Recorded, RenamedIsThere, Files
  <1>7. Mutable' = Mutable
    BY <1>2 DEF Mutable
  <1>8. GuardTrustsOwnWork' /\ AlteredIsSeen'
    BY <1>1, <1>2, <1>3, <1>7, NothingAltered DEF Inv, GuardTrustsOwnWork, Guard, AlteredIsSeen
  <1> QED
    BY <1>5, <1>6, <1>8 DEF Inv

\* The candidate lies beside the videos there are.
LEMMA ConcatenateKeeps == ASSUME Inv, TypeOK', Concatenate PROVE Inv'
  <1>1. \A j \in JobIds : "final" \in directory[j] => "final" \in directory'[j]
    BY DEF Concatenate, Inv, TypeOK
  <1> QED
    BY <1>1, OnTheWayKeeps DEF Concatenate, counters

\* The renamed video is in place before its row is.
LEMMA RenameKeeps == ASSUME Inv, TypeOK', Rename PROVE Inv'
  <1>1. job.id \in JobIds
    BY DEF Rename, Guard, Inv, JobsMatch
  <1>2. /\ \A j \in JobIds : "final" \in directory[j] => "final" \in directory'[j]
        /\ "final" \in directory'[job.id]
    BY <1>1 DEF Rename, Inv, TypeOK
  <1>3. run.left = {} /\ run.block = "idle"
    BY DEF Rename, Guard, Inv, StageWork
  <1> QED
    BY <1>2, <1>3, OnTheWayKeeps DEF Rename, counters

\* The end of a coroutine, with its job ended, open or stopped.
LEMMA EndKeeps ==
    ASSUME Inv, TypeOK', run' = NoRun, UNCHANGED <<split, visual, content, slides>>,
           job'.status # "none" => job'.id \in JobIds,
           \A b \in Blocks, s \in Stages : status'[b][s] = status[b][s] \/ status'[b][s] = "failed",
           ~split => status' = status,
           \A b \in Blocks : status'[b]["plan"] = status[b]["plan"],
           PublishedVideoStays'
    PROVE  Inv'
  <1>1. ~Running' /\ ~Working'
    BY DEF Running, Working
  <1>2. JobsMatch' /\ PlanWork' /\ StageWork' /\ RenderWork' /\ Recorded' /\ Excused' /\ AlteredIsSeen'
        /\ GuardTrustsOwnWork' /\ RenamedIsThere'
    BY <1>1 DEF JobsMatch, PlanWork, StageWork, RenderWork, Recorded, Excused, AlteredIsSeen,
                GuardTrustsOwnWork, RenamedIsThere
  <1>3. BeforeSplit'
    BY <1>1 DEF Inv, BeforeSplit
  <1>4. PlansFirst'
    BY DEF Inv, PlansFirst, Stages
  <1>5. StatusesAreTruthful'
    BY SameBlock, BlockByBlock DEF Done, Stages
  <1> QED
    BY <1>2, <1>3, <1>4, <1>5 DEF Inv

\* The row of the artifact follows its video, and the job has ended.
LEMMA PublishKeeps == ASSUME Inv, TypeOK', NEW raises \in BOOLEAN, Publish(raises) PROVE Inv'
  <1>1. /\ Running /\ run.at = "renamed" /\ run \in RunRow /\ job.id \in JobIds
        /\ UNCHANGED <<split, pacing, visual, status, content, slides, directory>>
        /\ job' = [job EXCEPT !.status = "completed"] /\ artifact' = artifact \union {job.id}
    BY RunCases DEF Publish, Inv, JobsMatch, blockVars
  <1>2. job'.id = job.id
    BY <1>1 DEF Inv, TypeOK
  <1>3. PublishedVideoStays'
    BY <1>1 DEF Inv, PublishedVideoStays, RenamedIsThere
  <1>4. CASE ~raises
    BY <1>1, <1>2, <1>3, <1>4, EndKeeps DEF Publish
  <1>5. CASE raises
    <2>1. /\ run'.at = "raised" /\ run'.todo = run.todo /\ run'.left = run.left
          /\ run'.block = run.block /\ Running'
      BY <1>1, <1>5 DEF Publish, RunRow, Running, NoRun
    <2>2. ~Working' /\ JobsMatch' /\ PlanWork' /\ Excused' /\ AlteredIsSeen' /\ RenderWork' /\ Recorded'
          /\ GuardTrustsOwnWork' /\ RenamedIsThere'
      BY <1>1, <1>2, <2>1 DEF Working, JobsMatch, PlanWork, Excused, AlteredIsSeen, RenderWork, Recorded,
                              GuardTrustsOwnWork, RenamedIsThere
    <2>3. StageWork' /\ BeforeSplit'
      BY <1>1, <2>1 DEF Inv, StageWork, BeforeSplit, Files
    <2>4. PlansFirst' /\ StatusesAreTruthful'
      BY <1>1 DEF Inv, PlansFirst, StatusesAreTruthful, SlidesAreTheirs, VideoIsExplained, Done
    <2> QED
      BY <1>3, <2>2, <2>3, <2>4 DEF Inv
  <1> QED
    BY <1>4, <1>5

\* A targeted job ends without a video.
LEMMA FinishKeeps == ASSUME Inv, TypeOK', FinishPart PROVE Inv'
  <1>1. /\ job'.id = job.id /\ job.id \in JobIds
        /\ UNCHANGED <<split, visual, status, content, slides, directory, artifact>> /\ run' = NoRun
    BY DEF FinishPart, Guard, Inv, JobsMatch, TypeOK, blockVars
  <1>2. PublishedVideoStays'
    BY <1>1 DEF Inv, PublishedVideoStays
  <1> QED
    BY <1>1, <1>2, EndKeeps

\* A failed block is not done, and the output of a published job is not discarded.
LEMMA FailKeeps == ASSUME Inv, TypeOK', Fail PROVE Inv'
  <1>1. job.id \in JobIds /\ job'.id = job.id /\ run \in RunRow /\ Running
    BY RunCases DEF Fail, Inv, JobsMatch, TypeOK
  <1>2. PublishedVideoStays'
    BY <1>1 DEF Fail, Discarded, Inv, PublishedVideoStays, TypeOK
  <1>3. CASE run.block \in {"writing", "written"} /\ run.at # "render"
    <2>1. run.left # {} /\ run.at \in {"image", "audio"}
      BY <1>1, <1>3 DEF Inv, StageWork, Files
    <2>2. Current \in Blocks /\ split
      BY <1>1, <2>1, AtWork DEF Files
    <2>3. status' = [status EXCEPT ![Current][run.at] = "failed"] /\ status \in [Blocks -> [Stages -> Status]]
      BY <1>3 DEF Fail, Inv, TypeOK
    <2>4. /\ \A b \in Blocks, s \in Stages : status'[b][s] = status[b][s] \/ status'[b][s] = "failed"
          /\ \A b \in Blocks : status'[b]["plan"] = status[b]["plan"]
      BY <2>1, <2>2, <2>3 DEF Stages
    <2> QED
      BY <1>1, <1>2, <2>2, <2>4, EndKeeps DEF Fail
  <1>4. CASE ~(run.block \in {"writing", "written"} /\ run.at # "render")
    <2>1. status' = status
      BY <1>4 DEF Fail
    <2> QED
      BY <1>1, <1>2, <2>1, EndKeeps DEF Fail
  <1> QED
    BY <1>3, <1>4

-----------------------------------------------------------------------------
(* Faults                                                                    *)

\* A stop of the process leaves rows and files as they are.
LEMMA CrashKeeps == ASSUME Inv, TypeOK', Crash PROVE Inv'
  <1>1. PublishedVideoStays' /\ UNCHANGED <<split, visual, status, content, slides, job>> /\ run' = NoRun
    BY DEF Crash, Inv, PublishedVideoStays, blockVars
  <1>2. job'.status # "none" => job'.id \in JobIds
    BY <1>1 DEF Inv, JobsMatch
  <1> QED
    BY <1>1, <1>2, EndKeeps

\* The next start decides about the job alone.
LEMMA RestartKeeps == ASSUME Inv, TypeOK', Restart PROVE Inv'
  <1>1. /\ run = NoRun /\ run' = NoRun /\ job'.id = job.id /\ job.id \in JobIds
        /\ UNCHANGED <<split, visual, status, content, slides, directory, artifact>>
    BY DEF Restart, Inv, TypeOK, JobsMatch, Running, blockVars
  <1>2. PublishedVideoStays'
    BY <1>1 DEF Inv, PublishedVideoStays
  <1> QED
    BY <1>1, <1>2, EndKeeps

\* A file that disappears or is exchanged is on the list of the guard.
LEMMA OutsideKeeps ==
    ASSUME Inv, TypeOK', NEW b \in Blocks, NEW s \in Files, NEW how \in {"absent", "altered"},
           OutsideChange(b, s, how)
    PROVE  Inv'
  <1>1. /\ content[b][s] \in {"fresh", "untracked", "stale"}
        /\ how = "altered" => Running /\ <<b, s>> \in run.expected \ Mutable
        /\ run.at = s => run.block = "idle"
        /\ UNCHANGED <<split, pacing, visual, status, slides, job, directory, artifact>>
    BY DEF OutsideChange
  <1>2. outside' # 0
    BY DEF OutsideChange, Inv, TypeOK
  <1>3. \A c \in Blocks, t \in Stages :
            content'[c][t] = IF c = b /\ t = s THEN how ELSE content[c][t]
    <2>1. content \in [Blocks -> [Stages -> Content]]
      BY DEF Inv, TypeOK
    <2> QED
      BY <2>1 DEF OutsideChange
  <1>4. JobsMatch' /\ PublishedVideoStays' /\ PlansFirst'
    <2>1. (Running' <=> Running) /\ run'.at = run.at
      BY RunCases DEF OutsideChange, Running, NoRun, Inv, RunRow
    <2> QED
      BY <1>1, <1>3, <2>1 DEF Inv, JobsMatch, Working, PublishedVideoStays, PlansFirst, Stages, Files
  <1>b. \A c \in Blocks : /\ (SlidesAreTheirs(c) => SlidesAreTheirs(c)')
                           /\ (VideoIsExplained(c) => VideoIsExplained(c)')
    BY <1>1, <1>3 DEF SlidesAreTheirs, VideoIsExplained, Damaged, Stages
  <1>5. StatusesAreTruthful'
    <2> SUFFICES ASSUME NEW c \in Blocks PROVE TruthfulOf(c)'
      BY BlockByBlock
    <2>1. TruthfulOf(c) /\ \A t \in Stages : Done(c, t)' => Done(c, t)
      BY <1>1, BlockByBlock DEF Inv, Done
    <2>2. \A t \in Stages : Done(c, t)' => content'[c][t] \in Worth(t) \union Damaged
      BY <1>3, <2>1 DEF TruthfulOf, Damaged
    <2> QED
      BY <1>b, <2>1, <2>2 DEF TruthfulOf, Stages
  <1>6. CASE ~Running
    <2>1. run' = NoRun /\ run = NoRun
      BY <1>6 DEF OutsideChange, Running
    <2> QED
      BY <1>1, <1>4, <1>5, <2>1 DEF Inv, BeforeSplit, PlanWork, StageWork, RenderWork, Recorded, Excused,
            AlteredIsSeen, GuardTrustsOwnWork, RenamedIsThere, Running, Working
  <1>7. CASE Running
    <2>1. run \in RunRow
      BY <1>7, RunCases DEF Inv
    <2>2. /\ run'.at = run.at /\ run'.todo = run.todo /\ run'.work = run.work /\ run'.left = run.left
          /\ run'.block = run.block /\ run'.expected = run.expected /\ run'.genuine = run.genuine
          /\ run'.written = run.written \union {<<b, s>>}
      BY <1>7, <2>1 DEF OutsideChange, RunRow
    <2>3. Running' /\ (Working' <=> Working) /\ Current' = Current /\ Mutable' = Mutable
      BY <1>7, <2>1, <2>2 DEF Running, NoRun, RunRow, Working, Current, Mutable
    <2>4. BeforeSplit' /\ PlanWork'
      BY <1>1, <1>7, <2>2, <2>3 DEF Inv, BeforeSplit, PlanWork
    <2>5. StageWork'
      <3>1. run.block = "written" => CurrentIsWorth(run.at)'
        <4> SUFFICES ASSUME run.block = "written" PROVE CurrentIsWorth(run.at)'
          OBVIOUS
        <4>1. run.at # s /\ run.at \in Files /\ run.left # {} /\ CurrentIsWorth(run.at)
          BY <1>1, <1>7 DEF Inv, StageWork
        <4>2. Current \in Blocks
          BY <1>7, <4>1, AtWork
        <4>3. content'[Current][run.at] = content[Current][run.at]
          BY <1>3, <4>1, <4>2 DEF Files, Stages
        <4> QED
          BY <1>b, <2>2, <2>3, <4>1, <4>2, <4>3 DEF CurrentIsWorth
      <3> QED
        BY <1>1, <1>7, <2>2, <2>3, <3>1 DEF Inv, StageWork
    <2>6. RenderWork'
      <3>1. \A c \in Blocks, t \in {"image", "audio"} :
                content'[c][t] = "absent" => content[c][t] = "absent" \/ <<c, t>> = <<b, s>>
        BY <1>3 DEF Stages
      <3> QED
        BY <1>1, <1>7, <2>2, <3>1 DEF Inv, RenderWork
    <2>7. Recorded'
      <3>1. CompletedMaterials' \subseteq CompletedMaterials
        BY <1>1, <1>3 DEF CompletedMaterials, Exists, FileProducts, Files, Stages
      <3> QED
        BY <1>2, <1>7, <2>2, <3>1 DEF Inv, Recorded
    <2>8. Excused' /\ GuardTrustsOwnWork' /\ RenamedIsThere'
      BY <1>1, <1>2, <1>7, <2>2 DEF Inv, Excused, GuardTrustsOwnWork, RenamedIsThere
    <2>9. AlteredIsSeen'
      <3> SUFFICES ASSUME Working, run.genuine, NEW c \in Blocks, NEW t \in Stages, content'[c][t] = "altered"
                   PROVE  <<c, t>> \in (run.expected \intersect run'.written) \ Mutable
        BY <2>2, <2>3 DEF AlteredIsSeen
      <3>1. CASE c = b /\ t = s
        BY <1>1, <1>3, <2>2, <3>1
      <3>2. CASE ~(c = b /\ t = s)
        BY <1>3, <2>2, <3>2 DEF Inv, AlteredIsSeen
      <3> QED
        BY <3>1, <3>2
    <2> QED
      BY <1>4, <1>5, <2>4, <2>5, <2>6, <2>7, <2>8, <2>9 DEF Inv
  <1> QED
    BY <1>6, <1>7

-----------------------------------------------------------------------------
(* The theorems                                                              *)

\* A new project satisfies the invariant.
LEMMA InvInit == Init => Inv
  <1> SUFFICES ASSUME Init PROVE Inv
    OBVIOUS
  <1>1. ~Running
    BY DEF Init, Running
  <1>2. PlansFirst /\ StatusesAreTruthful /\ BeforeSplit
    BY <1>1 DEF Init, PlansFirst, StatusesAreTruthful, Done, BeforeSplit, Stages
  <1>3. JobsMatch /\ PublishedVideoStays
    BY <1>1 DEF Init, JobsMatch, Working, PublishedVideoStays
  <1> QED
    BY <1>1, <1>2, <1>3, TypeInit DEF Inv, PlanWork, StageWork, RenderWork, Recorded, Excused,
       AlteredIsSeen, GuardTrustsOwnWork, RenamedIsThere, Working

\* Every step keeps the invariant.
LEMMA InvStep == Inv /\ [Next]_vars => Inv'
  <1> SUFFICES ASSUME Inv, [Next]_vars PROVE Inv'
    OBVIOUS
  <1>1. TypeOK'
    BY TypeStep DEF Inv
  <1>2. CASE UNCHANGED vars
    BY <1>2 DEF vars, Inv, TypeOK, JobsMatch, BeforeSplit, PlansFirst, PlanWork, StageWork, RenderWork,
       StatusesAreTruthful, SlidesAreTheirs, VideoIsExplained, CurrentIsWorth, Done, Recorded, Excused, AlteredIsSeen, GuardTrustsOwnWork, RenamedIsThere,
       PublishedVideoStays, Running, Working, Guard, Mutable, Current, CompletedMaterials, Exists
  <1>3. CASE Next
    BY <1>1, <1>3, PatchKeeps, SettingsKeep, RequestKeeps, BeginKeeps, SplitKeeps, BeginStageKeeps,
       PlanStageKeeps, StartKeeps, WriteKeeps, CommitKeeps, ConcatenateKeeps, RenameKeeps, PublishKeeps,
       FinishKeeps, FailKeeps, CrashKeeps, RestartKeeps, OutsideKeeps DEF Next
  <1> QED
    BY <1>2, <1>3

\* The invariant holds throughout.
LEMMA InvAlways == Spec => []Inv
  BY InvInit, InvStep, PTL DEF Spec

\* Rows, files, records and the coroutine keep their types (the models of
\* Block, GenerationJob and GenerationArtifact).
THEOREM TypeCorrect == Spec => []TypeOK
  <1>1. Inv => TypeOK
    BY DEF Inv
  <1> QED
    BY <1>1, InvAlways, PTL

\* For every number of blocks and every sequence of edits, partial jobs,
\* failures, stops and lost files: what counts as done was made from the
\* present inputs, and a published video stays (invalidation.py,
\* generation_plan.py, artifact_store.py).
THEOREM RowsAreTruthfulAlways == Spec => []RowsAreTruthful
  <1>1. Inv => RowsAreTruthful
    BY DEF Inv, RowsAreTruthful
  <1> QED
    BY <1>1, InvAlways, PTL

\* The guard of a job that nobody disturbs never stops it (pipeline.guard,
\* verify_materials).
THEOREM GuardTrustsOwnWorkAlways == Spec => []GuardTrustsOwnWork
  <1>1. Inv => GuardTrustsOwnWork
    BY DEF Inv
  <1> QED
    BY <1>1, InvAlways, PTL

\* What is renamed is up to date: every product of every block.
LEMMA RenamedIsCurrent ==
    ASSUME Inv, Rename, NEW b \in Blocks
    PROVE  UpToDate(b, IF run.genuine THEN {} ELSE {"altered"})
  <1>1. Running /\ Guard /\ run.at = "candidate" /\ Exists(b, "render") /\ Working
    BY DEF Rename, Guard, Working
  <1>2. \A s \in {"image", "audio"} : content[b][s] \in Worth(s) \union {"altered"} /\ Done(b, s)
    BY <1>1, InputsAreThere
  <1>3. content[b]["plan"] \in Worth("plan")
    BY <1>2 DEF Done, Inv, PlansFirst
  <1>4. Done(b, "render")
    BY <1>1, <1>2 DEF Inv, StageWork, RenderWork, Done
  <1>5. content[b]["render"] \in Worth("render") \union {"altered"}
    BY <1>1, <1>4 DEF Inv, StatusesAreTruthful, Damaged, Exists, Stages
  <1>6. SlidesAreTheirs(b) /\ VideoIsExplained(b)
    BY <1>2, <1>4 DEF Inv, StatusesAreTruthful
  <1>7. run.genuine => \A s \in Stages : content[b][s] # "altered"
    BY <1>1, NothingAltered
  <1>8. \A s \in Stages : content[b][s] \in Worth(s) \union {"altered"}
    BY <1>2, <1>3, <1>5 DEF Stages
  <1> QED
    BY <1>6, <1>7, <1>8 DEF UpToDate

\* No other step gives a video its final name.
LEMMA OnlyRenameFinishes ==
    ASSUME Inv, Next, NEW j \in JobIds, GetsFinalName(j)
    PROVE  Rename
  <1>1. directory \in [JobIds -> SUBSET {"candidate", "final"}]
    BY DEF Inv, TypeOK
  <1>2. CASE UNCHANGED directory
    BY <1>2 DEF GetsFinalName
  <1>3. CASE Concatenate
    <2>1. job.id \in JobIds => "candidate" \in directory'[job.id]
      BY <1>1, <1>3 DEF Concatenate
    <2>2. j # job.id => directory'[j] = directory[j]
      BY <1>1, <1>3 DEF Concatenate
    <2> QED
      BY <2>1, <2>2 DEF GetsFinalName
  <1>4. CASE Fail
    <2>1. directory'[j] = directory[j] \/ directory'[j] = {}
      BY <1>1, <1>4 DEF Fail, Discarded
    <2> QED
      BY <2>1 DEF GetsFinalName
  <1> QED
    <2>1. /\ \A b, source, tts, plan, type : PatchBlock(b, source, tts, plan, type) => UNCHANGED directory
          /\ \A setting : ChangeSettings(setting) => UNCHANGED directory
          /\ \A kind, target : Request(kind, target) => UNCHANGED directory
      BY DEF PatchBlock, ChangeSettings, Request
    <2>2. /\ Begin \/ Split => UNCHANGED directory
          /\ \A s : BeginStage(s) => UNCHANGED directory
          /\ \A failing : PlanStage(failing) => UNCHANGED directory
      BY DEF Begin, Split, BeginStage, PlanStage
    <2>3. StartMaterial \/ WriteMaterial \/ CommitMaterial => UNCHANGED directory
      BY DEF StartMaterial, WriteMaterial, CommitMaterial
    <2>4. /\ \A raises : Publish(raises) => UNCHANGED directory
          /\ FinishPart \/ Crash \/ Restart => UNCHANGED directory
          /\ \A b, s, how : OutsideChange(b, s, how) => UNCHANGED directory
      BY DEF Publish, FinishPart, Crash, Restart, OutsideChange
    <2> QED
      BY <1>2, <1>3, <1>4, <2>1, <2>2, <2>3, <2>4 DEF Next

\* A video gets its final name only when every product of every block is up to
\* date, and none was exchanged during a job that began genuine
\* (publish_artifact behind run_render_stage).
THEOREM FinalVideoIsCurrentAlways == Spec => FinalVideoIsCurrent
  <1>1. Inv /\ [Next]_vars => [\A j \in JobIds : GetsFinalName(j) =>
            \A b \in Blocks : UpToDate(b, IF run.genuine THEN {} ELSE {"altered"})]_vars
    BY OnlyRenameFinishes, RenamedIsCurrent
  <1> QED
    BY <1>1, InvAlways, PTL DEF Spec, FinalVideoIsCurrent
=============================================================================
