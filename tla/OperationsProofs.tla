-------------------------- MODULE OperationsProofs --------------------------
(***************************************************************************)
(* What holds of the operation core for any number of clients, projects,   *)
(* revisions and deliveries.                                               *)
(***************************************************************************)
EXTENDS Operations, TLAPS

ProjectRows == [life : Lives, revision : Revisions, size : Sizes, born : Nat]
Versions == [project : ProjectIds, revision : Revisions, size : Sizes, from : Nat]
Jobs == [id : JobIds, project : ProjectIds, revision : Revisions, size : Sizes,
         status : JobStatus]
Replies == [id : RequestIds, content : Contents, result : Results]
Past == [project : ProjectIds, born : Nat, revision : Revisions, size : Sizes]

\* TypeOK in the form the proofs use.
Types ==
    /\ project \in [ProjectIds -> ProjectRows]
    /\ versions \subseteq Versions
    /\ jobs \subseteq Jobs
    /\ receipts \in [RequestIds -> Receipts \union {NoReceipt}]
    /\ issued \subseteq Requests
    /\ replies \subseteq Replies
    /\ past \subseteq Past
Attached ==
    /\ \A v \in versions : Live(v.project)
    /\ \A j \in jobs : Live(j.project)
    /\ \A j, k \in jobs : j.id = k.id => j = k

\* A change of settings gives the project its new revision and size, and nothing else.
LEMMA ApplyRow ==
    ASSUME Types, NEW p \in ProjectIds, NEW size \in Sizes, NEW from \in Nat,
           ApplyProjectSettings(p, size, from)
    PROVE /\ NewRevision(p, size, from) \in Revisions
          /\ project' \in [ProjectIds -> ProjectRows]
          /\ project'[p].revision = NewRevision(p, size, from)
          /\ project'[p].size = size
          /\ project'[p].life = project[p].life /\ project'[p].born = project[p].born
          /\ \A n \in ProjectIds \ {p} : project'[n] = project[n]
          /\ \/ NewRevision(p, size, from) = project[p].revision + 1
             \/ NewRevision(p, size, from) = project[p].revision /\ size = project[p].size
<1>1. NewRevision(p, size, from) \in Revisions
  BY BoundsAssumption DEF Types, ProjectRows, Revisions, NewRevision, ApplyProjectSettings
<1>2. project' = [project EXCEPT ![p].revision = NewRevision(p, size, from), ![p].size = size]
  BY DEF ApplyProjectSettings
<1>3. project' = [project EXCEPT ![p] =
                    [project[p] EXCEPT !.revision = NewRevision(p, size, from), !.size = size]]
  BY <1>2 DEF Types
<1>4. project[p] \in ProjectRows
  BY DEF Types
<1>5. [project[p] EXCEPT !.revision = NewRevision(p, size, from), !.size = size] \in ProjectRows
  BY <1>1, <1>4 DEF ProjectRows
<1>6. /\ project' \in [ProjectIds -> ProjectRows]
      /\ project'[p].revision = NewRevision(p, size, from)
      /\ project'[p].size = size
      /\ project'[p].life = project[p].life /\ project'[p].born = project[p].born
      /\ \A n \in ProjectIds \ {p} : project'[n] = project[n]
  BY <1>3, <1>4, <1>5 DEF Types, ProjectRows
<1>7. \/ NewRevision(p, size, from) = project[p].revision + 1
      \/ NewRevision(p, size, from) = project[p].revision /\ size = project[p].size
  BY DEF NewRevision
<1> QED
  BY <1>1, <1>6, <1>7

\* What a recording adds.
LEMMA RecordedRows ==
    ASSUME NEW rows, NEW row
    PROVE rows \subseteq Recorded(rows, row) /\ Recorded(rows, row) \subseteq rows \union {row}
BY DEF Recorded

\* A change of settings only adds versions, of its project.
LEMMA ApplyVersions ==
    ASSUME Types, NEW p \in ProjectIds, NEW size \in Sizes, NEW from \in Nat,
           ApplyProjectSettings(p, size, from)
    PROVE /\ versions \subseteq versions' /\ versions' \subseteq Versions
          /\ \A v \in versions' : v \in versions \/ v.project = p
<1>1. versions' = Recorded(WithBaseline(p),
                           Version(p, NewRevision(p, size, from), size, from))
  BY DEF ApplyProjectSettings
<1>2. project[p].revision \in Revisions /\ project[p].size \in Sizes
  BY DEF Types, ProjectRows
<1>3. /\ Version(p, NewRevision(p, size, from), size, from) \in Versions
      /\ Version(p, project[p].revision, project[p].size, 0) \in Versions
  BY <1>2, ApplyRow DEF Version, Versions
<1>4. versions \subseteq Versions
  BY DEF Types
<1> QED
  BY <1>1, <1>3, <1>4, RecordedRows DEF WithBaseline, Version

\* A job is created for a project that is idle, under an identity nobody has.
LEMMA CreateRow ==
    ASSUME Types, Attached, NEW p \in ProjectIds, NEW n \in JobIds, Live(p)',
           NEW rev \in Revisions, NEW size \in Sizes, CreatePendingJob(n, p, rev, size),
           \A j \in jobs : Live(j.project)'
    PROVE /\ jobs' \subseteq Jobs
          /\ \A j \in jobs' : Live(j.project)'
          /\ \A j, k \in jobs' : j.id = k.id => j = k
          /\ \A j \in jobs : j.id # n
<1> DEFINE row == [id |-> n, project |-> p, revision |-> rev, size |-> size, status |-> "active"]
<1>1. jobs' = jobs \union {row}
  BY DEF CreatePendingJob
<1>2. row \in Jobs /\ jobs \subseteq Jobs
  BY DEF Jobs, JobStatus, Types
<1>3. \A j \in jobs : j.id # n
  BY <1>2 DEF CreatePendingJob, NextJobId, IsAfter, Jobs, JobIds
<1>4. row.id = n /\ row.project = p
  OBVIOUS
<1> HIDE DEF row
<1> QED
  BY <1>1, <1>2, <1>3, <1>4 DEF Attached

\* An acknowledgement and its receipt.
LEMMA ReceiptRow ==
    ASSUME Types, NEW q \in issued, NEW rev \in Revisions, NEW size \in Sizes,
           NEW n \in JobIds \union {0}, SaveReceipt(q, rev, size, n)
    PROVE /\ receipts' \in [RequestIds -> Receipts \union {NoReceipt}]
          /\ replies' \subseteq Replies
          /\ issued' = issued
          /\ q.id \in RequestIds /\ q.project \in ProjectIds /\ Content(q) \in Contents
          /\ receipts'[q.id] \in Receipts /\ receipts'[q.id] # NoReceipt
          /\ \A id \in RequestIds \ {q.id} : receipts'[id] = receipts[id]
          /\ receipts'[q.id] = [content |-> Content(q),
                                result |-> [project |-> q.project, base |-> q.base,
                                            revision |-> rev, size |-> size, job |-> n],
                                seen |-> q.seen, applied |-> project[q.project].born]
          /\ replies' = replies \union {[id |-> q.id, content |-> Content(q),
                                         result |-> receipts'[q.id].result]}
<1> DEFINE result == [project |-> q.project, base |-> q.base, revision |-> rev,
                      size |-> size, job |-> n]
           receipt == [content |-> Content(q), result |-> result, seen |-> q.seen,
                       applied |-> project[q.project].born]
<1>1. q \in Requests
  BY DEF Types
<1>2. Content(q) \in Contents /\ q.id \in RequestIds /\ q.seen \in Nat /\ q.project \in ProjectIds
  BY <1>1 DEF Requests, Content, Contents
<1>3. result \in Results
  BY <1>1 DEF Requests, Results
<1>4. project[q.project].born \in Nat
  BY <1>2 DEF Types, ProjectRows
<1>5. receipt \in Receipts
  BY <1>2, <1>3, <1>4 DEF Receipts
<1>6. receipts' = [receipts EXCEPT ![q.id] = receipt]
  BY DEF SaveReceipt
<1>7. replies' = replies \union {[id |-> q.id, content |-> Content(q), result |-> result]}
  BY DEF SaveReceipt, Reply
<1>8. receipt.result = result
  OBVIOUS
<1>9. [id |-> q.id, content |-> Content(q), result |-> result] \in Replies
  BY <1>2, <1>3 DEF Replies
<1>10. issued' = issued
  BY DEF SaveReceipt
<1> HIDE DEF result
<1>11. receipts'[q.id] = receipt
  BY <1>2, <1>6 DEF Types
<1> HIDE DEF receipt
<1>12. /\ receipts' \in [RequestIds -> Receipts \union {NoReceipt}]
       /\ \A id \in RequestIds \ {q.id} : receipts'[id] = receipts[id]
  BY <1>5, <1>6 DEF Types
<1>13. replies' \subseteq Replies
  BY <1>7, <1>9 DEF Types
<1>14. receipts'[q.id].result = result
  BY <1>8, <1>11
<1> QED
  BY <1>2, <1>5, <1>7, <1>10, <1>11, <1>12, <1>13, <1>14, ReceiptAssumption DEF receipt, result

-----------------------------------------------------------------------------
(* Types *)

\* Both initial databases.
LEMMA TypeInit == Init => Types /\ Attached
<1> SUFFICES ASSUME Init PROVE Types /\ Attached
  OBVIOUS
<1>1. 1 \in Revisions /\ 1 \in Sizes
  BY BoundsAssumption DEF Revisions, Sizes
<1>2. project \in [ProjectIds -> ProjectRows]
  <2>1. Unborn \in ProjectRows
    BY <1>1 DEF Unborn, ProjectRows, Lives
  <2>2. [Unborn EXCEPT !.life = "live", !.born = 1] \in ProjectRows
    BY <1>1 DEF Unborn, ProjectRows, Lives
  <2> QED
    BY <2>1, <2>2 DEF Init
<1>3. past \subseteq Past
  BY BoundsAssumption DEF Init, State, Past, ProjectIds, Revisions, Sizes
<1> QED
  BY <1>2, <1>3 DEF Init, Types, Attached

\* A request that sets a value, alone or with the job that renders it.
LEMMA ChangeTypes ==
    ASSUME Types, Attached, NEW q \in issued, ChangeSettings(q)
    PROVE Types' /\ Attached'
<1> DEFINE p == q.project
           size == ResolvedSize(q)
           rev == NewRevision(p, size, 0)
<1>1. q \in Requests /\ p \in ProjectIds
  BY DEF Types, Requests
<1>2. size \in Sizes /\ ApplyProjectSettings(p, size, 0) /\ Ready(q)
  BY DEF ChangeSettings
<1>3. Live(p)
  BY <1>2 DEF Ready
<1> HIDE DEF p, size
<1>4. rev \in Revisions /\ project' \in [ProjectIds -> ProjectRows]
      /\ \A n \in ProjectIds : project'[n].life = project[n].life
  BY <1>1, <1>2, ApplyRow
<1>5. versions' \subseteq Versions /\ \A v \in versions' : v \in versions \/ v.project = p
  BY <1>1, <1>2, ApplyVersions
<1>6. past' \subseteq Past
  <2>1. project[p].born \in Nat
    BY <1>1 DEF Types, ProjectRows
  <2>2. State(p, project[p].born, rev, size) \in Past
    BY <1>1, <1>2, <1>4, <2>1 DEF State, Past
  <2> QED
    BY <1>2, <2>2 DEF ApplyProjectSettings, Remember, Types
<1>7. \A n \in ProjectIds : Live(n) => Live(n)'
  BY <1>4 DEF Live
<1>8. /\ \A j \in jobs : j.project \in ProjectIds /\ Live(j.project)'
      /\ \A v \in versions' : Live(v.project)'
  BY <1>1, <1>3, <1>5, <1>7 DEF Types, Attached, Jobs, Versions
<1>9. CASE q.generate
  <2>1. PICK n \in JobIds : CreatePendingJob(n, p, rev, size) /\ SaveReceipt(q, rev, size, n)
    BY <1>9 DEF ChangeSettings, p, size
  <2>2. receipts' \in [RequestIds -> Receipts \union {NoReceipt}] /\ replies' \subseteq Replies
        /\ issued' = issued
    BY <1>2, <1>4, <2>1, ReceiptRow
  <2>3. jobs' \subseteq Jobs /\ (\A j \in jobs' : Live(j.project)')
        /\ \A j, k \in jobs' : j.id = k.id => j = k
    BY <1>1, <1>2, <1>3, <1>4, <1>7, <1>8, <2>1, CreateRow
  <2> QED
    BY <1>4, <1>5, <1>6, <1>8, <2>2, <2>3 DEF Types, Attached
<1>10. CASE ~q.generate
  <2>1. SaveReceipt(q, rev, size, 0) /\ jobs' = jobs
    BY <1>10 DEF ChangeSettings, p, size
  <2>2. receipts' \in [RequestIds -> Receipts \union {NoReceipt}] /\ replies' \subseteq Replies
        /\ issued' = issued
    BY <1>2, <1>4, <2>1, ReceiptRow
  <2> QED
    BY <1>4, <1>5, <1>6, <1>8, <2>1, <2>2 DEF Types, Attached
<1> QED
  BY <1>9, <1>10

\* A restored version becomes the project's settings again.
LEMMA RestoreTypes ==
    ASSUME Types, Attached, NEW q \in issued, RestoreSettings(q)
    PROVE Types' /\ Attached'
<1>1. q \in Requests /\ q.project \in ProjectIds /\ Ready(q) /\ jobs' = jobs
  BY DEF Types, Requests, RestoreSettings
<1>2. PICK v \in versions : /\ ApplyProjectSettings(q.project, v.size, v.revision)
                           /\ SaveReceipt(q, NewRevision(q.project, v.size, v.revision), v.size, 0)
  BY DEF RestoreSettings
<1> DEFINE p == q.project
           rev == NewRevision(p, v.size, v.revision)
<1>3. v.size \in Sizes /\ v.revision \in Nat
  BY DEF Types, Versions, Revisions
<1>4. rev \in Revisions /\ project' \in [ProjectIds -> ProjectRows]
      /\ \A n \in ProjectIds : project'[n].life = project[n].life
  BY <1>1, <1>2, <1>3, ApplyRow
<1>5. versions' \subseteq Versions /\ \A w \in versions' : w \in versions \/ w.project = p
  BY <1>1, <1>2, <1>3, ApplyVersions
<1>6. past' \subseteq Past
  <2>1. project[p].born \in Nat
    BY <1>1 DEF Types, ProjectRows
  <2>2. State(p, project[p].born, rev, v.size) \in Past
    BY <1>1, <1>3, <1>4, <2>1 DEF State, Past
  <2> QED
    BY <1>2, <2>2 DEF ApplyProjectSettings, Remember, Types
<1>7. \A n \in ProjectIds : Live(n) => Live(n)'
  BY <1>4 DEF Live
<1>8. Attached'
  BY <1>1, <1>5, <1>7 DEF Types, Attached, Jobs, Versions, Ready
<1>9. receipts' \in [RequestIds -> Receipts \union {NoReceipt}] /\ replies' \subseteq Replies
      /\ issued' = issued
  BY <1>2, <1>3, <1>4, ReceiptRow
<1> QED
  BY <1>1, <1>4, <1>5, <1>6, <1>8, <1>9 DEF Types

\* A baseline is a version of the project's present state.
LEMMA BaselineRows ==
    ASSUME Types, NEW p \in ProjectIds
    PROVE /\ versions \subseteq WithBaseline(p) /\ WithBaseline(p) \subseteq Versions
          /\ \A v \in WithBaseline(p) : v \in versions \/ v.project = p
<1>1. project[p].revision \in Revisions /\ project[p].size \in Sizes
  BY DEF Types, ProjectRows
<1>2. Version(p, project[p].revision, project[p].size, 0) \in Versions
  BY <1>1 DEF Version, Versions
<1>3. versions \subseteq Versions
  BY DEF Types
<1> QED
  BY <1>2, <1>3, RecordedRows DEF WithBaseline, Version

\* A request for a job.
LEMMA StartTypes ==
    ASSUME Types, Attached, NEW q \in issued, StartGeneration(q)
    PROVE Types' /\ Attached'
<1> DEFINE p == q.project
<1>1. q \in Requests /\ p \in ProjectIds
  BY DEF Types, Requests
<1>2. Live(p) /\ project' = project /\ past' = past /\ versions' = WithBaseline(p)
  BY DEF StartGeneration, Ready
<1>3. PICK n \in JobIds : /\ CreatePendingJob(n, p, project[p].revision, project[p].size)
                         /\ SaveReceipt(q, project[p].revision, project[p].size, n)
  BY DEF StartGeneration
<1> HIDE DEF p
<1>4. project[p].revision \in Revisions /\ project[p].size \in Sizes
  BY <1>1 DEF Types, ProjectRows
<1>5. Live(p)' /\ \A j \in jobs : Live(j.project)'
  BY <1>1, <1>2 DEF Live, Attached
<1>6. jobs' \subseteq Jobs /\ (\A j \in jobs' : Live(j.project)')
      /\ \A j, k \in jobs' : j.id = k.id => j = k
  BY <1>1, <1>3, <1>4, <1>5, CreateRow
<1>7. receipts' \in [RequestIds -> Receipts \union {NoReceipt}] /\ replies' \subseteq Replies
      /\ issued' = issued
  BY <1>3, <1>4, ReceiptRow
<1>8. versions' \subseteq Versions /\ \A v \in versions' : Live(v.project)'
  BY <1>1, <1>2, <1>5, BaselineRows DEF Attached, Live
<1> QED
  BY <1>2, <1>6, <1>7, <1>8 DEF Types, Attached

\* A request that has a receipt gets the answer again.
LEMMA ReplayTypes ==
    ASSUME Types, Attached, NEW q \in issued, Replay(q)
    PROVE Types' /\ Attached'
<1>1. q \in Requests
  BY DEF Types
<1>2. Content(q) \in Contents /\ q.id \in RequestIds
  BY <1>1 DEF Requests, Content, Contents
<1>3. receipts[q.id] \in Receipts
  BY <1>2 DEF Types, Replay
<1>4. [id |-> q.id, content |-> Content(q), result |-> receipts[q.id].result] \in Replies
  BY <1>2, <1>3 DEF Replies, Receipts
<1>5. replies' \subseteq Replies
  BY <1>4 DEF Types, Replay, Reply
<1>6. UNCHANGED <<project, versions, jobs, receipts, issued, past>>
  BY DEF Replay
<1> QED
  BY <1>5, <1>6 DEF Types, Attached, Live

\* A new identity, or one more life of a deleted one.
LEMMA CreateTypes ==
    ASSUME Types, Attached, NEW p \in ProjectIds, NEW size \in Sizes, CreateProject(p, size)
    PROVE Types' /\ Attached'
<1> DEFINE row == [life |-> "live", revision |-> 1, size |-> size, born |-> project[p].born + 1]
<1>1. 1 \in Revisions /\ project[p].born \in Nat
  BY BoundsAssumption DEF Revisions, Types, ProjectRows
<1>2. row \in ProjectRows
  BY <1>1 DEF ProjectRows, Lives
<1>3. project' = [project EXCEPT ![p] = row]
  BY DEF CreateProject
<1>4. /\ project' \in [ProjectIds -> ProjectRows]
      /\ project'[p] = row
      /\ \A n \in ProjectIds \ {p} : project'[n] = project[n]
  BY <1>2, <1>3 DEF Types
<1>5. row.life = "live"
  OBVIOUS
<1> HIDE DEF row
<1>6. \A n \in ProjectIds : Live(n) \/ n = p => Live(n)'
  BY <1>4, <1>5 DEF Live
<1>7. Version(p, 1, size, 0) \in Versions /\ Version(p, 1, size, 0).project = p
  BY <1>1 DEF Version, Versions
<1>8. versions' \subseteq Versions /\ \A v \in versions' : v \in versions \/ v.project = p
  BY <1>7, RecordedRows DEF CreateProject, Types
<1>9. State(p, project[p].born + 1, 1, size) \in Past
  BY <1>1 DEF State, Past
<1>10. past' \subseteq Past /\ UNCHANGED <<jobs, receipts, issued, replies>>
  BY <1>9 DEF CreateProject, Types
<1> QED
  BY <1>4, <1>6, <1>8, <1>10 DEF Types, Attached, Jobs, Versions

\* PATCH of a project.
LEMMA PatchTypes ==
    ASSUME Types, Attached, NEW p \in ProjectIds, NEW size \in Sizes, PatchProject(p, size)
    PROVE Types' /\ Attached'
<1> DEFINE rev == NewRevision(p, size, 0)
<1>1. ApplyProjectSettings(p, size, 0) /\ Live(p) /\ UNCHANGED <<jobs, receipts, issued, replies>>
  BY DEF PatchProject
<1>2. rev \in Revisions /\ project' \in [ProjectIds -> ProjectRows]
      /\ \A n \in ProjectIds : project'[n].life = project[n].life
  BY <1>1, ApplyRow
<1>3. versions' \subseteq Versions /\ \A v \in versions' : v \in versions \/ v.project = p
  BY <1>1, ApplyVersions
<1>4. past' \subseteq Past
  <2>1. project[p].born \in Nat
    BY DEF Types, ProjectRows
  <2>2. State(p, project[p].born, rev, size) \in Past
    BY <1>2, <2>1 DEF State, Past
  <2> QED
    BY <1>1, <2>2 DEF ApplyProjectSettings, Remember, Types
<1>5. \A n \in ProjectIds : Live(n) => Live(n)'
  BY <1>2 DEF Live
<1> QED
  BY <1>1, <1>2, <1>3, <1>4, <1>5 DEF Types, Attached, Jobs, Versions

\* PATCH of a block: the revision alone.
LEMMA BlockRow ==
    ASSUME Types, NEW p \in ProjectIds, PatchBlock(p)
    PROVE /\ project' \in [ProjectIds -> ProjectRows]
          /\ project[p].revision + 1 \in Revisions
          /\ project'[p].revision = project[p].revision + 1
          /\ project'[p].size = project[p].size
          /\ project'[p].life = project[p].life /\ project'[p].born = project[p].born
          /\ \A n \in ProjectIds \ {p} : project'[n] = project[n]
<1>1. project[p] \in ProjectRows
  BY DEF Types
<1>2. project[p].revision + 1 \in Revisions
  BY <1>1, BoundsAssumption DEF PatchBlock, ProjectRows, Revisions
<1>3. project' = [project EXCEPT ![p] = [project[p] EXCEPT !.revision = @ + 1]]
  BY DEF PatchBlock, Types
<1>4. [project[p] EXCEPT !.revision = @ + 1] \in ProjectRows
  BY <1>1, <1>2 DEF ProjectRows
<1> QED
  BY <1>1, <1>2, <1>3, <1>4 DEF Types, ProjectRows

\* A block edit leaves the versions to a later baseline.
LEMMA BlockTypes ==
    ASSUME Types, Attached, NEW p \in ProjectIds, PatchBlock(p)
    PROVE Types' /\ Attached'
<1>1. project' \in [ProjectIds -> ProjectRows]
      /\ \A n \in ProjectIds : project'[n].life = project[n].life
  BY BlockRow
<1>2. project[p].born \in Nat /\ project[p].size \in Sizes /\ project[p].revision + 1 \in Revisions
  BY BlockRow DEF Types, ProjectRows
<1>3. State(p, project[p].born, project[p].revision + 1, project[p].size) \in Past
  BY <1>2 DEF State, Past
<1>4. past' \subseteq Past /\ UNCHANGED <<versions, jobs, receipts, issued, replies>>
  BY <1>3 DEF PatchBlock, Remember, Types
<1>5. \A n \in ProjectIds : Live(n)' = Live(n)
  BY <1>1 DEF Live
<1> QED
  BY <1>1, <1>4, <1>5 DEF Types, Attached, Jobs, Versions

\* A job from the route.
LEMMA GenerateTypes ==
    ASSUME Types, Attached, NEW p \in ProjectIds, Generate(p)
    PROVE Types' /\ Attached'
<1>1. Live(p) /\ versions' = WithBaseline(p)
      /\ UNCHANGED <<project, receipts, issued, replies, past>>
  BY DEF Generate
<1>2. PICK n \in JobIds : CreatePendingJob(n, p, project[p].revision, project[p].size)
  BY DEF Generate
<1>3. project[p].revision \in Revisions /\ project[p].size \in Sizes
  BY DEF Types, ProjectRows
<1>4. Live(p)' /\ \A j \in jobs : Live(j.project)'
  BY <1>1 DEF Live, Attached
<1>5. jobs' \subseteq Jobs /\ (\A j \in jobs' : Live(j.project)')
      /\ \A j, k \in jobs' : j.id = k.id => j = k
  BY <1>2, <1>3, <1>4, CreateRow
<1>6. versions' \subseteq Versions /\ \A v \in versions' : Live(v.project)'
  BY <1>1, BaselineRows DEF Attached, Live
<1> QED
  BY <1>1, <1>5, <1>6 DEF Types, Attached

\* A deleted project takes its versions and its jobs along.
LEMMA DeleteTypes ==
    ASSUME Types, Attached, NEW p \in ProjectIds, DeleteProject(p)
    PROVE Types' /\ Attached'
<1>1. project[p] \in ProjectRows
  BY DEF Types
<1>2. project' = [project EXCEPT ![p] = [project[p] EXCEPT !.life = "deleted"]]
  BY DEF DeleteProject, Types
<1>3. [project[p] EXCEPT !.life = "deleted"] \in ProjectRows
  BY <1>1 DEF ProjectRows, Lives
<1>4. project' \in [ProjectIds -> ProjectRows]
      /\ \A n \in ProjectIds \ {p} : project'[n] = project[n]
  BY <1>2, <1>3 DEF Types
<1>5. /\ versions' = {v \in versions : v.project # p}
      /\ jobs' = {j \in jobs : j.project # p}
      /\ UNCHANGED <<receipts, issued, replies, past>>
  BY DEF DeleteProject
<1>6. \A n \in ProjectIds \ {p} : Live(n) => Live(n)'
  BY <1>4 DEF Live
<1> QED
  BY <1>4, <1>5, <1>6 DEF Types, Attached, Jobs, Versions

\* What a client may put into a request.
LEMMA IssueTypes ==
    ASSUME Types, Attached, NEW id \in RequestIds, NEW p \in ProjectIds,
           NEW op \in Operations, NEW arg \in Arguments(op), NEW generate \in BOOLEAN,
           Issue(id, p, op, arg, generate)
    PROVE Types' /\ Attached'
<1>1. arg \in Nat
  BY DEF Arguments, Operations, Sizes, Revisions
<1>2. project[p].revision \in Revisions /\ project[p].born \in Nat
  BY DEF Types, ProjectRows
<1>3. [id |-> id, project |-> p, op |-> op, arg |-> arg, base |-> project[p].revision,
       generate |-> generate, seen |-> project[p].born] \in Requests
  BY <1>1, <1>2 DEF Requests
<1>4. issued' \subseteq Requests /\ UNCHANGED <<project, versions, jobs, receipts, replies, past>>
  BY <1>3 DEF Issue, Types
<1> QED
  BY <1>4 DEF Types, Attached, Live

\* The runner closes a job.
LEMMA EndTypes ==
    ASSUME Types, Attached, NEW j \in jobs, NEW status \in JobStatus, EndJob(j, status)
    PROVE Types' /\ Attached'
<1> DEFINE row == [j EXCEPT !.status = status]
<1>1. j \in Jobs
  BY DEF Types
<1>2. row \in Jobs /\ row.id = j.id /\ row.project = j.project
  BY <1>1 DEF Jobs
<1>3. jobs' = (jobs \ {j}) \union {row} /\ UNCHANGED <<project, versions, receipts, issued, replies, past>>
  BY DEF EndJob
<1> HIDE DEF row
<1> QED
  BY <1>2, <1>3 DEF Types, Attached, Live

\* Every step keeps the types.
LEMMA TypeStep == Types /\ Attached /\ [Next]_vars => Types' /\ Attached'
<1> SUFFICES ASSUME Types, Attached, [Next]_vars PROVE Types' /\ Attached'
  OBVIOUS
<1>1. CASE UNCHANGED vars
  BY <1>1 DEF vars, Types, Attached, Live
<1>2. CASE \E p \in ProjectIds : PatchBlock(p) \/ Generate(p) \/ DeleteProject(p)
  BY <1>2, BlockTypes, GenerateTypes, DeleteTypes
<1>3. CASE \E p \in ProjectIds, size \in Sizes : CreateProject(p, size) \/ PatchProject(p, size)
  BY <1>3, CreateTypes, PatchTypes
<1>4. CASE \E p \in ProjectIds, id \in RequestIds, op \in Operations, generate \in BOOLEAN :
             \E arg \in Arguments(op) : Issue(id, p, op, arg, generate)
  BY <1>4, IssueTypes
<1>5. CASE \E q \in issued : Execute(q)
  BY <1>5, ChangeTypes, RestoreTypes, StartTypes, ReplayTypes DEF Execute
<1>6. CASE \E j \in jobs, status \in JobStatus : EndJob(j, status)
  BY <1>6, EndTypes
<1> QED
  BY <1>1, <1>2, <1>3, <1>4, <1>5, <1>6 DEF Next

\* The types and the attachments hold at every step.
LEMMA TypesAlways == Spec => [](Types /\ Attached)
BY TypeInit, TypeStep, PTL DEF Spec

\* Rows have their types, versions and jobs belong to projects that are there, and
\* no two jobs share an identity.
THEOREM TypeCorrect == Spec => []TypeOK
<1>1. Types /\ Attached => TypeOK
  BY DEF Types, Attached, TypeOK, ProjectRows, Versions, Jobs, Replies, Past
<1> QED
  BY <1>1, TypesAlways, PTL

-----------------------------------------------------------------------------
(* One answer per request *)

\* Every answer that left is the one its receipt keeps.
Answered ==
    \A a \in replies :
        /\ receipts[a.id] # NoReceipt
        /\ a.content = receipts[a.id].content /\ a.result = receipts[a.id].result

\* Receipts change only by a request that has none, on a project as its client saw it.
LEMMA ReceiptStep ==
    ASSUME Types, Attached, [Next]_vars
    PROVE \/ receipts' = receipts /\ replies' = replies
          \/ receipts' = receipts /\ \E q \in issued : Replay(q)
          \/ \E q \in issued, rev \in Revisions, size \in Sizes, n \in JobIds \union {0} :
               Ready(q) /\ SaveReceipt(q, rev, size, n)
<1>1. CASE \E q \in issued : ChangeSettings(q)
  <2>1. PICK q \in issued : ChangeSettings(q)
    BY <1>1
  <2>2. q.project \in ProjectIds /\ ResolvedSize(q) \in Sizes /\ Ready(q)
        /\ ApplyProjectSettings(q.project, ResolvedSize(q), 0)
    BY <2>1 DEF ChangeSettings, Types, Requests
  <2>3. NewRevision(q.project, ResolvedSize(q), 0) \in Revisions
    BY <2>2, ApplyRow
  <2>4. \E n \in JobIds \union {0} :
          SaveReceipt(q, NewRevision(q.project, ResolvedSize(q), 0), ResolvedSize(q), n)
    BY <2>1 DEF ChangeSettings
  <2> QED
    BY <2>2, <2>3, <2>4
<1>2. CASE \E q \in issued : RestoreSettings(q)
  <2>1. PICK q \in issued : RestoreSettings(q)
    BY <1>2
  <2>2. PICK v \in versions :
          /\ ApplyProjectSettings(q.project, v.size, v.revision)
          /\ SaveReceipt(q, NewRevision(q.project, v.size, v.revision), v.size, 0)
    BY <2>1 DEF RestoreSettings
  <2>3. q.project \in ProjectIds /\ v.size \in Sizes /\ v.revision \in Nat /\ Ready(q)
    BY <2>1 DEF RestoreSettings, Types, Requests, Versions, Revisions
  <2>4. NewRevision(q.project, v.size, v.revision) \in Revisions
    BY <2>2, <2>3, ApplyRow
  <2> QED
    BY <2>2, <2>3, <2>4
<1>3. CASE \E q \in issued : StartGeneration(q)
  <2>1. PICK q \in issued : StartGeneration(q)
    BY <1>3
  <2>2. project[q.project].revision \in Revisions /\ project[q.project].size \in Sizes
    BY DEF Types, ProjectRows, Requests
  <2> QED
    BY <2>1, <2>2 DEF StartGeneration
<1>4. CASE \E q \in issued : Replay(q)
  BY <1>4 DEF Replay
<1>5. CASE ~ \E q \in issued : Execute(q)
  BY <1>5 DEF Next, vars, PatchBlock, Generate, DeleteProject, CreateProject, PatchProject,
              Issue, EndJob
<1> QED
  BY <1>1, <1>2, <1>3, <1>4, <1>5 DEF Execute

\* A saved receipt is an answer that left; a repeated answer is the saved one.
LEMMA AnsweredStep == Types /\ Attached /\ Answered /\ [Next]_vars => Answered'
<1> SUFFICES ASSUME Types, Attached, Answered, [Next]_vars PROVE Answered'
  OBVIOUS
<1>1. CASE receipts' = receipts /\ replies' = replies
  BY <1>1 DEF Answered
<1>2. CASE receipts' = receipts /\ \E q \in issued : Replay(q)
  BY <1>2 DEF Answered, Replay, Reply
<1>3. ASSUME NEW q \in issued, NEW rev \in Revisions, NEW size \in Sizes,
             NEW n \in JobIds \union {0}, Ready(q), SaveReceipt(q, rev, size, n)
      PROVE Answered'
  <2>1. receipts'[q.id].content = Content(q)
    <3>1. receipts'[q.id] = [content |-> Content(q),
                             result |-> [project |-> q.project, base |-> q.base,
                                         revision |-> rev, size |-> size, job |-> n],
                             seen |-> q.seen, applied |-> project[q.project].born]
      BY <1>3, ReceiptRow
    <3> QED
      BY <3>1
  <2>2. /\ receipts' \in [RequestIds -> Receipts \union {NoReceipt}]
        /\ q.id \in RequestIds /\ Content(q) \in Contents
        /\ \A id \in RequestIds \ {q.id} : receipts'[id] = receipts[id]
        /\ replies' = replies \union {[id |-> q.id, content |-> Content(q),
                                       result |-> receipts'[q.id].result]}
    BY <1>3, ReceiptRow
  <2>3. receipts'[q.id] # NoReceipt
    BY <1>3, ReceiptRow
  <2>4. \A a \in replies : a.id \in RequestIds /\ a.id # q.id
    BY <1>3 DEF Answered, Ready, Types, Replies
  <2> QED
    BY <2>1, <2>2, <2>3, <2>4 DEF Answered
<1> QED
  BY <1>1, <1>2, <1>3, ReceiptStep

\* However often a request is delivered, at whatever time, to a project in whatever
\* state, all its answers are the same.
THEOREM OneAnswerAlways == Spec => []OneAnswer
<1>1. Init => Answered
  BY DEF Init, Answered
<1>2. Types /\ Answered => OneAnswer
  <2> SUFFICES ASSUME Types, Answered, NEW a \in replies, NEW b \in replies, a.id = b.id
               PROVE a = b
    BY DEF OneAnswer
  <2>1. a \in Replies /\ b \in Replies
    BY DEF Types
  <2>2. a.content = b.content /\ a.result = b.result
    BY DEF Answered
  <2> QED
    BY <2>1, <2>2 DEF Replies
<1> QED
  BY <1>1, <1>2, AnsweredStep, TypesAlways, PTL DEF Spec

-----------------------------------------------------------------------------
(* An identity has one project *)

\* An identity that is not taken has had no project, and one that is had one.
Identities ==
    /\ \A p \in ProjectIds : project[p].born = IF project[p].life = "unborn" THEN 0 ELSE 1
    /\ \A q \in issued : project[q.project].life # "unborn" /\ q.seen = 1
    /\ \A id \in RequestIds : HasReceipt(id) =>
         /\ receipts[id].content.project = receipts[id].result.project
         /\ receipts[id].seen = 1 /\ receipts[id].applied = 1

\* What can happen to the row of a project: an identity is taken once.
LEMMA LifeStep ==
    ASSUME Types, Attached, [Next]_vars, NEW p \in ProjectIds
    PROVE \/ project'[p].life = project[p].life /\ project'[p].born = project[p].born
          \/ project[p].life = "live" /\ project'[p].life = "deleted"
             /\ project'[p].born = project[p].born
          \/ project[p].life = "unborn" /\ project'[p].life = "live"
             /\ project'[p].born = project[p].born + 1
<1> DEFINE same == project'[p].life = project[p].life /\ project'[p].born = project[p].born
<1>1. CASE project' = project
  BY <1>1
<1>2. ASSUME NEW n \in ProjectIds, NEW size \in Sizes, NEW from \in Nat,
             ApplyProjectSettings(n, size, from)
      PROVE same
  BY <1>2, ApplyRow
<1>3. CASE \E q \in issued : ChangeSettings(q)
  BY <1>2, <1>3 DEF ChangeSettings, Types, Requests
<1>4. CASE \E q \in issued : RestoreSettings(q)
  BY <1>2, <1>4 DEF RestoreSettings, Types, Requests, Versions, Revisions
<1>5. CASE \E n \in ProjectIds, size \in Sizes : PatchProject(n, size)
  BY <1>2, <1>5 DEF PatchProject
<1>6. CASE \E n \in ProjectIds : PatchBlock(n)
  BY <1>6, BlockRow
<1>7. CASE \E n \in ProjectIds : DeleteProject(n)
  <2>1. PICK n \in ProjectIds : DeleteProject(n)
    BY <1>7
  <2>2. project' = [project EXCEPT ![n] = [project[n] EXCEPT !.life = "deleted"]]
        /\ project[n].life = "live" /\ project[n] \in ProjectRows
    BY <2>1 DEF DeleteProject, Live, Types
  <2> QED
    BY <2>2 DEF Types, ProjectRows
<1>8. CASE \E n \in ProjectIds, size \in Sizes : CreateProject(n, size)
  <2>1. PICK n \in ProjectIds, size \in Sizes : CreateProject(n, size)
    BY <1>8
  <2>2. project[n].life = "unborn"
    BY <2>1 DEF CreateProject, NextProjectId, IsAfter, NamedProjects, ProjectIds
  <2>3. project' = [project EXCEPT ![n] = [life |-> "live", revision |-> 1, size |-> size,
                                           born |-> project[n].born + 1]]
    BY <2>1 DEF CreateProject
  <2> QED
    BY <2>2, <2>3 DEF Types
<1> QED
  BY <1>1, <1>3, <1>4, <1>5, <1>6, <1>7, <1>8
     DEF Next, Execute, vars, StartGeneration, Replay, Generate, Issue, EndJob

\* A client asks about a project that is there, and an identity never changes hands.
LEMMA IdentitiesStep == Types /\ Attached /\ Identities /\ [Next]_vars => Identities'
<1> SUFFICES ASSUME Types, Attached, Identities, [Next]_vars PROVE Identities'
  OBVIOUS
<1>1. \A p \in ProjectIds :
        project'[p].born = IF project'[p].life = "unborn" THEN 0 ELSE 1
  BY LifeStep DEF Identities
<1>2. \A p \in ProjectIds : project[p].life # "unborn" => project'[p].life # "unborn"
  BY LifeStep
<1>3. \A q \in issued' : project'[q.project].life # "unborn" /\ q.seen = 1
  <2>1. CASE issued' = issued
    BY <1>2, <2>1 DEF Identities, Types, Requests
  <2>2. CASE issued' # issued
    <3>1. PICK p \in ProjectIds, id \in RequestIds, op \in Operations, generate \in BOOLEAN :
            \E arg \in Arguments(op) : Issue(id, p, op, arg, generate)
      BY <2>2 DEF Next, Execute, vars, ChangeSettings, RestoreSettings, StartGeneration, Replay,
                  SaveReceipt, Generate, PatchBlock, PatchProject, CreateProject,
                  DeleteProject, EndJob
    <3>2. PICK arg \in Arguments(op) : Issue(id, p, op, arg, generate)
      BY <3>1
    <3>3. project[p].life = "live" /\ project[p].born = 1
      BY <3>2 DEF Issue, Live, Identities
    <3> DEFINE q == [id |-> id, project |-> p, op |-> op, arg |-> arg, generate |-> generate,
                     base |-> project[p].revision, seen |-> project[p].born]
    <3>4. issued' = issued \union {q} /\ project' = project
      BY <3>2 DEF Issue
    <3>5. q.project = p /\ q.seen = 1
      BY <3>3
    <3> HIDE DEF q
    <3> QED
      BY <3>3, <3>4, <3>5 DEF Identities
  <2> QED
    BY <2>1, <2>2
<1>4. \A id \in RequestIds : HasReceipt(id)' =>
        /\ receipts'[id].content.project = receipts'[id].result.project
        /\ receipts'[id].seen = 1 /\ receipts'[id].applied = 1
  <2>1. CASE receipts' = receipts
    BY <2>1 DEF Identities, HasReceipt
  <2>2. ASSUME NEW q \in issued, NEW rev \in Revisions, NEW size \in Sizes,
               NEW n \in JobIds \union {0}, Ready(q), SaveReceipt(q, rev, size, n),
               NEW id \in RequestIds, HasReceipt(id)'
        PROVE /\ receipts'[id].content.project = receipts'[id].result.project
              /\ receipts'[id].seen = 1 /\ receipts'[id].applied = 1
    <3>1. id # q.id => receipts'[id] = receipts[id]
      BY <2>2, ReceiptRow
    <3>2. CASE id # q.id
      BY <2>2, <3>1, <3>2 DEF Identities, HasReceipt
    <3>3. CASE id = q.id
      <4>1. receipts'[q.id] = [content |-> Content(q),
                               result |-> [project |-> q.project, base |-> q.base,
                                           revision |-> rev, size |-> size, job |-> n],
                               seen |-> q.seen, applied |-> project[q.project].born]
        BY <2>2, ReceiptRow
      <4>2. q.seen = 1 /\ project[q.project].born = 1
        BY <2>2 DEF Identities, Types, Requests
      <4>3. Content(q).project = q.project
        BY DEF Content
      <4> QED
        BY <3>3, <4>1, <4>2, <4>3
    <3> QED
      BY <3>2, <3>3
  <2> QED
    BY <2>1, <2>2, ReceiptStep
<1> QED
  BY <1>1, <1>3, <1>4 DEF Identities

\* Identities hold at every step.
LEMMA IdentitiesAlways == Spec => []Identities
<1>1. Init => Identities
  <2> SUFFICES ASSUME Init PROVE Identities
    OBVIOUS
  <2>1. \A p \in ProjectIds : project[p].born = IF project[p].life = "unborn" THEN 0 ELSE 1
    <3>1. Unborn.life = "unborn" /\ Unborn.born = 0
      BY DEF Unborn
    <3>2. /\ [Unborn EXCEPT !.life = "live", !.born = 1].life = "live"
          /\ [Unborn EXCEPT !.life = "live", !.born = 1].born = 1
      BY DEF Unborn
    <3> QED
      BY <3>1, <3>2 DEF Init
  <2> QED
    BY <2>1 DEF Init, Identities, HasReceipt
<1> QED
  BY <1>1, IdentitiesStep, TypesAlways, PTL DEF Spec

\* A request is never applied to a project other than the one its client looked at,
\* whatever is deleted and created while it is on its way.
THEOREM RightProjectAlways == Spec => []RightProject
<1>1. Identities => RightProject
  BY DEF Identities, RightProject
<1> QED
  BY <1>1, IdentitiesAlways, PTL

-----------------------------------------------------------------------------
(* The history is true *)

\* Every state that a project has been in has its own revision, up to the present
\* one, and every version that is recorded is one of them.
History ==
    /\ \A x \in past :
         /\ x.born = 1 /\ project[x.project].life # "unborn"
         /\ x.revision <= project[x.project].revision
    /\ \A x, y \in past : x.project = y.project /\ x.revision = y.revision => x.size = y.size
    /\ \A p \in ProjectIds : project[p].life # "unborn" =>
         State(p, 1, project[p].revision, project[p].size) \in past
    /\ \A v \in versions : State(v.project, 1, v.revision, v.size) \in past

\* No project moves; a deleted one keeps the last revision that it had.
Stays ==
    /\ \A p \in ProjectIds :
         /\ (project'[p].life = "unborn") = (project[p].life = "unborn")
         /\ project'[p].revision = project[p].revision
         /\ project'[p].size = project[p].size
    /\ past' = past

\* A project is created or changed: the new state has a new revision.
Moves(p) ==
    /\ \A n \in ProjectIds \ {p} : project'[n] = project[n]
    /\ project'[p].life # "unborn"
    /\ past' = past \union {State(p, 1, project'[p].revision, project'[p].size)}
    /\ \/ project[p].life = "unborn"
       \/ /\ project[p].life # "unborn"
          /\ \/ project'[p].revision = project[p].revision + 1
             \/ project'[p].revision = project[p].revision /\ project'[p].size = project[p].size

\* A change of settings moves its project.
LEMMA ApplyMoves ==
    ASSUME Types, Identities, NEW p \in ProjectIds, NEW size \in Sizes, NEW from \in Nat,
           Live(p), ApplyProjectSettings(p, size, from)
    PROVE Moves(p)
<1>1. past' = past \union {State(p, project[p].born, NewRevision(p, size, from), size)}
  BY DEF ApplyProjectSettings, Remember
<1>2. project[p].born = 1 /\ project[p].life = "live"
  BY DEF Identities, Live
<1> QED
  BY <1>1, <1>2, ApplyRow DEF Moves

\* Every step leaves the projects alone or moves one of them.
LEMMA PastStep ==
    ASSUME Types, Attached, Identities, [Next]_vars
    PROVE Stays \/ \E p \in ProjectIds : Moves(p)
<1>1. CASE project' = project /\ past' = past
  BY <1>1 DEF Stays
<1>2. CASE \E q \in issued : ChangeSettings(q)
  BY <1>2, ApplyMoves DEF ChangeSettings, Ready, Types, Requests
<1>3. CASE \E q \in issued : RestoreSettings(q)
  BY <1>3, ApplyMoves DEF RestoreSettings, Ready, Types, Requests, Versions, Revisions
<1>4. CASE \E p \in ProjectIds, size \in Sizes : PatchProject(p, size)
  BY <1>4, ApplyMoves DEF PatchProject
<1>5. CASE \E p \in ProjectIds : PatchBlock(p)
  <2>1. PICK p \in ProjectIds : PatchBlock(p)
    BY <1>5
  <2>2. project[p].life = "live" /\ project[p].born = 1
        /\ past' = past \union {State(p, 1, project[p].revision + 1, project[p].size)}
    BY <2>1 DEF PatchBlock, Remember, Live, Identities
  <2> QED
    BY <2>1, <2>2, BlockRow DEF Moves
<1>6. CASE \E p \in ProjectIds : DeleteProject(p)
  <2>1. PICK p \in ProjectIds : DeleteProject(p)
    BY <1>6
  <2>2. project' = [project EXCEPT ![p] = [project[p] EXCEPT !.life = "deleted"]]
        /\ project[p].life = "live" /\ project[p] \in ProjectRows /\ past' = past
    BY <2>1 DEF DeleteProject, Live, Types
  <2> QED
    BY <2>2 DEF Types, ProjectRows, Stays
<1>7. CASE \E p \in ProjectIds, size \in Sizes : CreateProject(p, size)
  <2>1. PICK p \in ProjectIds, size \in Sizes : CreateProject(p, size)
    BY <1>7
  <2>2. project[p].life = "unborn"
    BY <2>1 DEF CreateProject, NextProjectId, IsAfter, NamedProjects, ProjectIds
  <2>3. project[p].born = 0
    BY <2>2 DEF Identities
  <2>4. /\ project' = [project EXCEPT ![p] = [life |-> "live", revision |-> 1, size |-> size,
                                              born |-> project[p].born + 1]]
        /\ past' = past \union {State(p, 1, 1, size)}
    BY <2>1, <2>3 DEF CreateProject
  <2>5. /\ \A n \in ProjectIds \ {p} : project'[n] = project[n]
        /\ project'[p].life = "live" /\ project'[p].revision = 1 /\ project'[p].size = size
    BY <2>4 DEF Types
  <2> QED
    BY <2>2, <2>4, <2>5 DEF Moves
<1> QED
  BY <1>1, <1>2, <1>3, <1>4, <1>5, <1>6, <1>7
     DEF Next, Execute, vars, StartGeneration, Replay, Generate, Issue, EndJob

\* The history only grows.
LEMMA PastGrows ==
    ASSUME Types, Attached, Identities, [Next]_vars
    PROVE past \subseteq past'
BY PastStep DEF Stays, Moves

\* What is recorded was there, or is a state that the project is in, before or after.
LEMMA VersionsStep ==
    ASSUME Types, Attached, Identities, History, [Next]_vars, NEW v \in versions'
    PROVE v \in versions \/ State(v.project, 1, v.revision, v.size) \in past'
<1> DEFINE Goal == v \in versions \/ State(v.project, 1, v.revision, v.size) \in past'
<1>1. ASSUME NEW p \in ProjectIds, Live(p), v \in WithBaseline(p) PROVE Goal
  <2>1. v \in versions \/ v = Version(p, project[p].revision, project[p].size, 0)
    BY <1>1, RecordedRows DEF WithBaseline
  <2>2. State(p, 1, project[p].revision, project[p].size) \in past'
    BY <1>1, PastGrows DEF History, Live
  <2> QED
    BY <2>1, <2>2 DEF Version
<1>2. ASSUME NEW p \in ProjectIds, NEW size \in Sizes, NEW from \in Nat, Live(p),
             ApplyProjectSettings(p, size, from)
      PROVE Goal
  <2>1. v \in WithBaseline(p) \/ v = Version(p, NewRevision(p, size, from), size, from)
    BY <1>2, RecordedRows DEF ApplyProjectSettings
  <2>2. State(p, 1, NewRevision(p, size, from), size) \in past'
    BY <1>2 DEF ApplyProjectSettings, Remember, Identities, Live
  <2> QED
    BY <1>1, <1>2, <2>1, <2>2 DEF Version
<1>3. CASE \E q \in issued : ChangeSettings(q)
  BY <1>2, <1>3 DEF ChangeSettings, Ready, Types, Requests
<1>4. CASE \E q \in issued : RestoreSettings(q)
  BY <1>2, <1>4 DEF RestoreSettings, Ready, Types, Requests, Versions, Revisions
<1>5. CASE \E p \in ProjectIds, size \in Sizes : PatchProject(p, size)
  BY <1>2, <1>5 DEF PatchProject
<1>6. CASE \E q \in issued : StartGeneration(q)
  BY <1>1, <1>6 DEF StartGeneration, Ready, Types, Requests
<1>7. CASE \E p \in ProjectIds : Generate(p)
  BY <1>1, <1>7 DEF Generate
<1>8. CASE \E p \in ProjectIds, size \in Sizes : CreateProject(p, size)
  <2>1. PICK p \in ProjectIds, size \in Sizes : CreateProject(p, size)
    BY <1>8
  <2>2. v \in versions \/ v = Version(p, 1, size, 0)
    BY <2>1, RecordedRows DEF CreateProject
  <2>3. project[p].life = "unborn"
    BY <2>1 DEF CreateProject, NextProjectId, IsAfter, NamedProjects, ProjectIds
  <2>4. project[p].born + 1 = 1
    BY <2>3 DEF Identities
  <2>5. State(p, 1, 1, size) \in past'
    BY <2>1, <2>4 DEF CreateProject
  <2> QED
    BY <2>2, <2>5 DEF Version
<1>9. CASE versions' \subseteq versions
  BY <1>9
<1> QED
  BY <1>3, <1>4, <1>5, <1>6, <1>7, <1>8, <1>9
     DEF Next, Execute, vars, Replay, PatchBlock, DeleteProject, Issue, EndJob

\* A state that is entered has a revision nothing had before, and the recorded
\* versions stay among the states.
LEMMA HistoryStep == Types /\ Attached /\ Identities /\ History /\ [Next]_vars => History'
<1> SUFFICES ASSUME Types, Attached, Identities, History, [Next]_vars PROVE History'
  OBVIOUS
<1>1. past \subseteq Past
  BY DEF Types
<1>2. \A v \in versions' : State(v.project, 1, v.revision, v.size) \in past'
  BY VersionsStep, PastGrows DEF History
<1>3. CASE Stays
  BY <1>1, <1>2, <1>3 DEF Stays, History, Past
<1>4. ASSUME NEW p \in ProjectIds, Moves(p) PROVE History'
  <2> DEFINE now == State(p, 1, project'[p].revision, project'[p].size)
  <2>1. now.project = p /\ now.born = 1 /\ now.revision = project'[p].revision
        /\ now.size = project'[p].size
    BY DEF State
  <2>2. past' = past \union {now}
    BY <1>4 DEF Moves
  <2>3. project[p].revision \in Nat /\ project'[p].revision \in Nat
    <3>1. Types'
      BY TypeStep
    <3> QED
      BY <3>1 DEF Types, ProjectRows, Revisions
  <2>4. \A x \in past : x.project = p => x.revision <= project'[p].revision
    BY <1>1, <1>4, <2>3 DEF History, Moves, Past, Revisions
  <2>5. \A x \in past : x.project = p /\ x.revision = project'[p].revision
                        => x.size = project'[p].size
    <3> SUFFICES ASSUME NEW x \in past, x.project = p, x.revision = project'[p].revision
                 PROVE x.size = project'[p].size
      OBVIOUS
    <3>1. project[p].life # "unborn" /\ x.revision <= project[p].revision
      BY DEF History
    <3>2. project'[p].revision = project[p].revision /\ project'[p].size = project[p].size
      BY <1>4, <2>3, <3>1 DEF Moves
    <3>3. State(p, 1, project[p].revision, project[p].size) \in past
      BY <3>1 DEF History
    <3> QED
      BY <3>2, <3>3 DEF History, State
  <2> HIDE DEF now
  <2>6. \A x \in past' : /\ x.born = 1 /\ project'[x.project].life # "unborn"
                         /\ x.revision <= project'[x.project].revision
    <3> SUFFICES ASSUME NEW x \in past'
                 PROVE /\ x.born = 1 /\ project'[x.project].life # "unborn"
                       /\ x.revision <= project'[x.project].revision
      OBVIOUS
    <3>1. CASE x = now
      BY <1>4, <2>1, <2>3, <3>1 DEF Moves
    <3>2. CASE x \in past
      BY <1>1, <1>4, <2>4, <3>2 DEF Moves, History, Past
    <3> QED
      BY <2>2, <3>1, <3>2
  <2>7. \A x, y \in past' : x.project = y.project /\ x.revision = y.revision => x.size = y.size
    BY <2>1, <2>2, <2>5 DEF History
  <2>8. \A n \in ProjectIds : project'[n].life # "unborn" =>
          State(n, 1, project'[n].revision, project'[n].size) \in past'
    <3> SUFFICES ASSUME NEW n \in ProjectIds, project'[n].life # "unborn"
                 PROVE State(n, 1, project'[n].revision, project'[n].size) \in past'
      OBVIOUS
    <3>1. CASE n = p
      BY <2>2, <3>1 DEF now
    <3>2. CASE n # p
      BY <1>4, <2>2, <3>2 DEF Moves, History
    <3> QED
      BY <3>1, <3>2
  <2> QED
    BY <1>2, <2>6, <2>7, <2>8 DEF History
<1> QED
  BY <1>3, <1>4, PastStep

\* The history is true at every step.
LEMMA HistoryAlways == Spec => []History
<1>1. Init => History
  <2> SUFFICES ASSUME Init PROVE History
    OBVIOUS
  <2>1. Unborn.life = "unborn" /\ Unborn.revision = 1 /\ Unborn.size = 1
    BY DEF Unborn
  <2>2. /\ [Unborn EXCEPT !.life = "live", !.born = 1].life = "live"
        /\ [Unborn EXCEPT !.life = "live", !.born = 1].revision = 1
        /\ [Unborn EXCEPT !.life = "live", !.born = 1].size = 1
    BY DEF Unborn
  <2>3. 1 \in ProjectIds
    BY BoundsAssumption DEF ProjectIds
  <2>4. versions = {}
    BY DEF Init
  <2>5. CASE project = [p \in ProjectIds |-> Unborn] /\ past = {}
    BY <2>1, <2>4, <2>5 DEF History
  <2>6. CASE /\ project = [p \in ProjectIds |->
                            IF p = 1 THEN [Unborn EXCEPT !.life = "live", !.born = 1] ELSE Unborn]
             /\ past = {State(1, 1, 1, 1)}
    BY <2>1, <2>2, <2>3, <2>4, <2>6 DEF History, State
  <2> QED
    BY <2>5, <2>6 DEF Init
<1> QED
  BY <1>1, HistoryStep, TypesAlways, IdentitiesAlways, PTL DEF Spec

\* A recorded version shows the settings that its revision really had.
THEOREM VersionsAreTruthfulAlways == Spec => []VersionsAreTruthful
<1>1. History => VersionsAreTruthful
  <2> SUFFICES ASSUME History, NEW v \in versions, NEW x \in past,
                      x.project = v.project, x.revision = v.revision
               PROVE x.size = v.size
    BY DEF VersionsAreTruthful
  <2>1. State(v.project, 1, v.revision, v.size) \in past
    BY DEF History
  <2> QED
    BY <2>1 DEF History, State
<1> QED
  BY <1>1, HistoryAlways, PTL

-----------------------------------------------------------------------------
(* The intent of a request *)

\* Meant, with the restored version named by the state it shows.
MeantOf(r, x) ==
    /\ r.content.op = "set" => r.result.size = r.content.arg
    /\ r.content.op = "adjust" => r.result.size = x.size + r.content.arg
    /\ r.content.op = "start" => r.result.size = x.size
    /\ r.content.op = "restore" =>
         State(r.content.project, 1, r.content.arg, r.result.size) \in past
    /\ r.result.revision = x.revision => r.result.size = x.size

\* What a receipt says was done is what its request meant where it was made.
Intended(r) ==
    \E x \in past :
        /\ x.project = r.content.project /\ x.born = 1 /\ x.revision = r.content.base
        /\ MeantOf(r, x)
Intents == \A id \in RequestIds : HasReceipt(id) => Intended(receipts[id])

\* A receipt written on the present state of the project, for what the request asks.
LEMMA SavedIntent ==
    ASSUME Types, Attached, Identities, History, [Next]_vars, NEW q \in issued,
           NEW rev \in Revisions, NEW size \in Sizes, NEW n \in JobIds \union {0},
           Ready(q), SaveReceipt(q, rev, size, n),
           q.op = "set" => size = q.arg,
           q.op = "adjust" => size = project[q.project].size + q.arg,
           q.op = "start" => size = project[q.project].size,
           q.op = "restore" => State(q.project, 1, q.arg, size) \in past,
           rev = project[q.project].revision => size = project[q.project].size
    PROVE Intended(receipts[q.id])'
<1> DEFINE x == State(q.project, 1, project[q.project].revision, project[q.project].size)
           r == receipts'[q.id]
<1>1. x \in past' /\ past \subseteq past'
  BY PastGrows DEF Ready, Live, History, Types, Requests
<1>2. r = [content |-> Content(q),
           result |-> [project |-> q.project, base |-> q.base,
                       revision |-> rev, size |-> size, job |-> n],
           seen |-> q.seen, applied |-> project[q.project].born]
  BY ReceiptRow
<1>3. /\ r.content.project = q.project /\ r.content.op = q.op /\ r.content.arg = q.arg
      /\ r.content.base = q.base /\ r.result.revision = rev /\ r.result.size = size
  BY <1>2 DEF Content
<1>4. /\ x.project = q.project /\ x.born = 1 /\ x.revision = q.base
      /\ x.revision = project[q.project].revision /\ x.size = project[q.project].size
  BY DEF State, Ready
<1> HIDE DEF r, x
<1>5. /\ r.content.op = "set" => r.result.size = r.content.arg
      /\ r.content.op = "adjust" => r.result.size = x.size + r.content.arg
      /\ r.content.op = "start" => r.result.size = x.size
      /\ r.content.op = "restore" =>
           State(r.content.project, 1, r.content.arg, r.result.size) \in past'
      /\ r.result.revision = x.revision => r.result.size = x.size
  BY <1>1, <1>3, <1>4
<1>6. \E y \in past' :
        /\ y.project = r.content.project /\ y.born = 1 /\ y.revision = r.content.base
        /\ r.content.op = "set" => r.result.size = r.content.arg
        /\ r.content.op = "adjust" => r.result.size = y.size + r.content.arg
        /\ r.content.op = "start" => r.result.size = y.size
        /\ r.content.op = "restore" =>
             State(r.content.project, 1, r.content.arg, r.result.size) \in past'
        /\ r.result.revision = y.revision => r.result.size = y.size
  BY <1>1, <1>3, <1>4, <1>5
<1> QED
  BY <1>6 DEF r, Intended, MeantOf

\* Receipts keep meaning what they meant, because the history only grows.
LEMMA IntentsStep ==
    Types /\ Attached /\ Identities /\ History /\ Intents /\ [Next]_vars => Intents'
<1> SUFFICES ASSUME Types, Attached, Identities, History, Intents, [Next]_vars,
                    NEW id \in RequestIds, HasReceipt(id)'
             PROVE Intended(receipts[id])'
  BY DEF Intents
<1>1. CASE receipts'[id] = receipts[id]
  <2>1. Intended(receipts[id])
    BY <1>1 DEF Intents, HasReceipt
  <2> QED
    BY <1>1, <2>1, PastGrows DEF Intended, MeantOf
<1>2. ASSUME receipts'[id] # receipts[id], NEW q \in issued, ChangeSettings(q)
      PROVE Intended(receipts[id])'
  <2> DEFINE size == ResolvedSize(q)
             rev == NewRevision(q.project, size, 0)
  <2>1. size \in Sizes /\ Ready(q) /\ ApplyProjectSettings(q.project, size, 0)
        /\ q.op \in {"set", "adjust"} /\ \E n \in JobIds \union {0} : SaveReceipt(q, rev, size, n)
    BY <1>2 DEF ChangeSettings
  <2>2. q.project \in ProjectIds
    BY DEF Types, Requests
  <2>3. PICK n \in JobIds \union {0} : SaveReceipt(q, rev, size, n)
    BY <2>1
  <2>4. rev \in Revisions
        /\ (rev = project[q.project].revision + 1 \/ size = project[q.project].size)
    BY <2>1, <2>2, ApplyRow
  <2>5. rev = project[q.project].revision => size = project[q.project].size
    BY <2>2, <2>4 DEF Types, ProjectRows, Revisions
  <2>6. (q.op = "set" => size = q.arg)
        /\ (q.op = "adjust" => size = project[q.project].size + q.arg)
    BY DEF ResolvedSize
  <2>7. q.id = id
    BY <1>2, <2>1, <2>3, <2>4, ReceiptRow
  <2> HIDE DEF size, rev
  <2> QED
    BY <2>1, <2>3, <2>4, <2>5, <2>6, <2>7, SavedIntent
<1>3. ASSUME receipts'[id] # receipts[id], NEW q \in issued, RestoreSettings(q)
      PROVE Intended(receipts[id])'
  <2>1. q.project \in ProjectIds /\ Ready(q) /\ q.op = "restore"
    BY <1>3 DEF RestoreSettings, Types, Requests
  <2>2. PICK v \in versions :
          /\ v.project = q.project /\ v.revision = q.arg
          /\ ApplyProjectSettings(q.project, v.size, v.revision)
          /\ SaveReceipt(q, NewRevision(q.project, v.size, v.revision), v.size, 0)
    BY <1>3 DEF RestoreSettings
  <2> DEFINE rev == NewRevision(q.project, v.size, v.revision)
  <2>3. v.size \in Sizes /\ v.revision \in Nat
    BY DEF Types, Versions, Revisions
  <2>4. rev \in Revisions
        /\ (rev = project[q.project].revision + 1 \/ v.size = project[q.project].size)
    BY <2>1, <2>2, <2>3, ApplyRow
  <2>5. rev = project[q.project].revision => v.size = project[q.project].size
    BY <2>1, <2>4 DEF Types, ProjectRows, Revisions
  <2>6. State(q.project, 1, q.arg, v.size) \in past
    BY <2>2 DEF History
  <2>7. q.id = id
    BY <1>3, <2>2, <2>3, <2>4, ReceiptRow
  <2> HIDE DEF rev
  <2>8. SaveReceipt(q, rev, v.size, 0)
    BY <2>2 DEF rev
  <2> QED
    BY <2>1, <2>3, <2>4, <2>5, <2>6, <2>7, <2>8, SavedIntent
<1>4. ASSUME receipts'[id] # receipts[id], NEW q \in issued, StartGeneration(q)
      PROVE Intended(receipts[id])'
  <2>1. q.project \in ProjectIds /\ Ready(q) /\ q.op = "start"
    BY <1>4 DEF StartGeneration, Types, Requests
  <2>2. PICK n \in JobIds :
          SaveReceipt(q, project[q.project].revision, project[q.project].size, n)
    BY <1>4 DEF StartGeneration
  <2>3. project[q.project].revision \in Revisions /\ project[q.project].size \in Sizes
    BY <2>1 DEF Types, ProjectRows
  <2>4. q.id = id
    BY <1>4, <2>2, <2>3, ReceiptRow
  <2> QED
    BY <2>1, <2>2, <2>3, <2>4, SavedIntent
<1>5. CASE receipts' = receipts
  BY <1>1, <1>5
<1> QED
  BY <1>1, <1>2, <1>3, <1>4, <1>5
     DEF Next, Execute, vars, Replay, PatchBlock, Generate, DeleteProject, CreateProject,
         PatchProject, Issue, EndJob

\* What a request did is what its client meant, however late it arrived.
THEOREM IntentKeptAlways == Spec => []IntentKept
<1>1. Init => Intents
  BY DEF Init, Intents, HasReceipt
<1>2. Types /\ Identities /\ History /\ Intents => IntentKept
  <2> SUFFICES ASSUME Types, Identities, History, Intents, NEW id \in RequestIds, HasReceipt(id)
               PROVE \E x \in past :
                       /\ x.project = receipts[id].content.project /\ x.born = receipts[id].seen
                       /\ x.revision = receipts[id].content.base
                       /\ Meant(receipts[id], x)
    BY DEF IntentKept
  <2> DEFINE r == receipts[id]
  <2>1. r \in Receipts /\ r.seen = 1
    BY DEF Types, HasReceipt, Identities
  <2>2. PICK x \in past : /\ x.project = r.content.project /\ x.born = 1
                          /\ x.revision = r.content.base /\ MeantOf(r, x)
    BY DEF Intents, Intended
  <2>3. r.content.op \in Operations
    BY <2>1 DEF Receipts, Contents
  <2> HIDE DEF r
  <2>4. r.content.op = "restore" =>
          r.result.size = (CHOOSE y \in past : y.project = x.project /\ y.born = x.born
                                                 /\ y.revision = r.content.arg).size
    <3> SUFFICES ASSUME r.content.op = "restore"
                 PROVE r.result.size = (CHOOSE y \in past :
                         y.project = x.project /\ y.born = x.born
                           /\ y.revision = r.content.arg).size
      OBVIOUS
    <3> DEFINE z == State(r.content.project, 1, r.content.arg, r.result.size)
               Same(y) == y.project = x.project /\ y.born = x.born /\ y.revision = r.content.arg
    <3>1. z \in past /\ Same(z) /\ z.size = r.result.size
      BY <2>2 DEF MeantOf, State
    <3>2. (CHOOSE y \in past : Same(y)) \in past /\ Same(CHOOSE y \in past : Same(y))
      BY <3>1
    <3>3. \A y \in past : Same(y) => y.size = z.size
      BY <3>1 DEF History
    <3> HIDE DEF z
    <3> QED
      BY <3>1, <3>2, <3>3
  <2>5. Meant(r, x)
    BY <2>2, <2>3, <2>4 DEF Meant, MeantOf, Operations
  <2> QED
    BY <2>1, <2>2, <2>5 DEF r
<1> QED
  BY <1>1, <1>2, IntentsStep, TypesAlways, IdentitiesAlways, HistoryAlways, PTL DEF Spec

-----------------------------------------------------------------------------
(* Jobs, versions and receipts refer to each other *)

\* A job renders a recorded version, and the receipt that names it says which.
OnRecord(p, rev, size, rows) ==
    \E v \in rows : v.project = p /\ v.revision = rev /\ v.size = size
JobsOnRecord == \A j \in jobs : OnRecord(j.project, j.revision, j.size, versions)
RestoresOnRecord ==
    \A v \in versions : v.from # 0 =>
        \E w \in versions : w.project = v.project /\ w.revision = v.from
ReceiptsNameJobs ==
    \A id \in RequestIds, j \in jobs :
        HasReceipt(id) /\ receipts[id].result.job = j.id =>
            /\ j.project = receipts[id].result.project
            /\ j.revision = receipts[id].result.revision
            /\ j.size = receipts[id].result.size

\* A baseline puts the present settings on record: an older record of the revision
\* shows the same.
LEMMA BaselineOnRecord ==
    ASSUME Types, Identities, History, NEW p \in ProjectIds, Live(p)
    PROVE /\ OnRecord(p, project[p].revision, project[p].size, WithBaseline(p))
          /\ \A v \in WithBaseline(p) : v \in versions \/ v.from = 0
<1> DEFINE row == Version(p, project[p].revision, project[p].size, 0)
<1>1. row.project = p /\ row.revision = project[p].revision /\ row.size = project[p].size
      /\ row.from = 0
  BY DEF Version
<1>2. State(p, 1, project[p].revision, project[p].size) \in past
  BY DEF History, Live
<1>3. \A v \in versions : v.project = p /\ v.revision = project[p].revision
                          => v.size = project[p].size
  BY <1>2 DEF History, State
<1>4. WithBaseline(p) = Recorded(versions, row)
  BY DEF WithBaseline
<1> HIDE DEF row
<1> QED
  BY <1>1, <1>3, <1>4 DEF Recorded, OnRecord

\* So does a change of settings with the new ones: no record can hold its revision.
LEMMA ApplyOnRecord ==
    ASSUME Types, Identities, History, NEW p \in ProjectIds, Live(p), NEW size \in Sizes,
           NEW from \in Nat, ApplyProjectSettings(p, size, from)
    PROVE /\ OnRecord(p, NewRevision(p, size, from), size, versions')
          /\ \A v \in versions' : v \in versions \/ v.from = 0 \/ (v.project = p /\ v.from = from)
<1> DEFINE rev == NewRevision(p, size, from)
           row == Version(p, rev, size, from)
<1>1. row.project = p /\ row.revision = rev /\ row.size = size /\ row.from = from
  BY DEF Version
<1>2. versions' = Recorded(WithBaseline(p), row)
  BY DEF ApplyProjectSettings
<1>3. \/ rev = project[p].revision + 1
      \/ rev = project[p].revision /\ size = project[p].size
  BY ApplyRow
<1>4. project[p].revision \in Nat
  BY DEF Types, ProjectRows, Revisions
<1>5. \A v \in WithBaseline(p) : v.project = p => v.revision <= project[p].revision
  <2>1. \A v \in versions : v.project = p => v.revision <= project[p].revision
    BY DEF History, State
  <2>2. \A v \in WithBaseline(p) :
          v \in versions \/ v = Version(p, project[p].revision, project[p].size, 0)
    BY RecordedRows DEF WithBaseline
  <2> QED
    BY <1>4, <2>1, <2>2 DEF Version
<1> HIDE DEF row, rev
<1>6. \A v \in versions' : v \in versions \/ v.from = 0 \/ (v.project = p /\ v.from = from)
  <2>1. \A v \in versions' : v \in WithBaseline(p) \/ v = row
    BY <1>2, RecordedRows
  <2>2. \A v \in WithBaseline(p) : v \in versions \/ v.from = 0
    BY BaselineOnRecord
  <2> QED
    BY <1>1, <2>1, <2>2
<1>7. CASE rev = project[p].revision + 1
  <2>1. ~ \E v \in WithBaseline(p) : v.project = row.project /\ v.revision = row.revision
    BY <1>1, <1>4, <1>5, <1>7
  <2>2. row \in versions'
    BY <1>2, <2>1 DEF Recorded
  <2>3. OnRecord(p, rev, size, versions')
    BY <1>1, <2>2 DEF OnRecord
  <2> QED
    BY <1>6, <2>3 DEF rev
<1>8. CASE rev = project[p].revision /\ size = project[p].size
  <2>1. WithBaseline(p) \subseteq versions'
    BY <1>2, RecordedRows
  <2>2. OnRecord(p, project[p].revision, project[p].size, WithBaseline(p))
    BY BaselineOnRecord
  <2>3. OnRecord(p, rev, size, versions')
    BY <1>8, <2>1, <2>2 DEF OnRecord
  <2> QED
    BY <1>6, <2>3 DEF rev
<1> QED
  BY <1>3, <1>7, <1>8

\* Deletion takes the versions and the jobs of a project together; nothing else
\* removes a version.
LEMMA VersionsKept ==
    ASSUME Types, [Next]_vars
    PROVE versions \subseteq versions' \/ \E p \in ProjectIds : DeleteProject(p)
<1>1. ASSUME NEW p \in ProjectIds PROVE versions \subseteq WithBaseline(p)
  BY BaselineRows
<1>2. CASE \E q \in issued : ChangeSettings(q)
  BY <1>2, ApplyVersions DEF ChangeSettings, Types, Requests
<1>3. CASE \E q \in issued : RestoreSettings(q)
  BY <1>3, ApplyVersions DEF RestoreSettings, Types, Requests, Versions, Revisions
<1>4. CASE \E p \in ProjectIds, size \in Sizes : PatchProject(p, size)
  BY <1>4, ApplyVersions DEF PatchProject
<1>5. CASE \E q \in issued : StartGeneration(q)
  BY <1>1, <1>5 DEF StartGeneration, Types, Requests
<1>6. CASE \E p \in ProjectIds, size \in Sizes : CreateProject(p, size)
  BY <1>6, RecordedRows DEF CreateProject
<1> QED
  BY <1>1, <1>2, <1>3, <1>4, <1>5, <1>6
     DEF Next, Execute, vars, Replay, PatchBlock, Generate, Issue, EndJob

\* A restore refers to a version that is there.
LEMMA RestoresStep ==
    Types /\ Attached /\ Identities /\ History /\ RestoresOnRecord /\ [Next]_vars
        => RestoresOnRecord'
<1> SUFFICES ASSUME Types, Attached, Identities, History, RestoresOnRecord, [Next]_vars,
                    NEW v \in versions', v.from # 0
             PROVE \E w \in versions' : w.project = v.project /\ w.revision = v.from
  BY DEF RestoresOnRecord
<1>1. CASE \E p \in ProjectIds : DeleteProject(p)
  BY <1>1 DEF DeleteProject, RestoresOnRecord
<1>2. CASE versions \subseteq versions' /\ v \in versions
  BY <1>2 DEF RestoresOnRecord
<1>3. ASSUME v \notin versions, NEW p \in ProjectIds, NEW size \in Sizes, NEW from \in Nat,
             Live(p), ApplyProjectSettings(p, size, from)
      PROVE v.project = p /\ v.from = from
  BY <1>3, ApplyOnRecord
<1>4. CASE v \notin versions /\ \E q \in issued : ChangeSettings(q)
  BY <1>3, <1>4 DEF ChangeSettings, Ready, Types, Requests
<1>5. CASE v \notin versions /\ \E p \in ProjectIds, size \in Sizes : PatchProject(p, size)
  BY <1>3, <1>5 DEF PatchProject
<1>6. CASE v \notin versions /\ \E q \in issued : RestoreSettings(q)
  <2>1. PICK q \in issued : RestoreSettings(q)
    BY <1>6
  <2>2. q.project \in ProjectIds /\ Live(q.project)
    BY <2>1 DEF RestoreSettings, Ready, Types, Requests
  <2>3. PICK w \in versions : w.project = q.project
                             /\ ApplyProjectSettings(q.project, w.size, w.revision)
    BY <2>1 DEF RestoreSettings
  <2>4. w.size \in Sizes /\ w.revision \in Nat
    BY DEF Types, Versions, Revisions
  <2>5. v.project = q.project /\ v.from = w.revision
    BY <1>3, <1>6, <2>2, <2>3, <2>4
  <2>6. w \in versions'
    BY <2>2, <2>3, <2>4, ApplyVersions
  <2> QED
    BY <2>3, <2>5, <2>6
<1>7. CASE v \notin versions /\ \E q \in issued : StartGeneration(q)
  BY <1>7, BaselineOnRecord DEF StartGeneration, Ready, Types, Requests
<1>8. CASE v \notin versions /\ \E p \in ProjectIds : Generate(p)
  BY <1>8, BaselineOnRecord DEF Generate
<1>9. CASE v \notin versions /\ \E p \in ProjectIds, size \in Sizes : CreateProject(p, size)
  BY <1>9, RecordedRows DEF CreateProject, Version
<1>10. CASE versions' \subseteq versions
  BY <1>10, VersionsKept, <1>1, <1>2
<1> QED
  BY <1>1, <1>2, <1>4, <1>5, <1>6, <1>7, <1>8, <1>9, <1>10, VersionsKept
     DEF Next, Execute, vars, Replay, PatchBlock, Issue, EndJob

\* Jobs are created with their settings on record, and close as they were.
LEMMA JobsStep ==
    Types /\ Attached /\ Identities /\ History /\ JobsOnRecord /\ [Next]_vars => JobsOnRecord'
<1> SUFFICES ASSUME Types, Attached, Identities, History, JobsOnRecord, [Next]_vars,
                    NEW j \in jobs'
             PROVE OnRecord(j.project, j.revision, j.size, versions')
  BY DEF JobsOnRecord
<1>1. CASE \E p \in ProjectIds : DeleteProject(p)
  BY <1>1 DEF DeleteProject, JobsOnRecord, OnRecord
<1>2. CASE versions \subseteq versions' /\ j \in jobs
  BY <1>2 DEF JobsOnRecord, OnRecord
<1>3. ASSUME j \notin jobs, NEW p \in ProjectIds, NEW n \in JobIds, NEW rev, NEW size,
             CreatePendingJob(n, p, rev, size)
      PROVE j.project = p /\ j.revision = rev /\ j.size = size
  BY <1>3 DEF CreatePendingJob
<1>4. CASE j \notin jobs /\ \E q \in issued : ChangeSettings(q)
  <2>1. PICK q \in issued : ChangeSettings(q)
    BY <1>4
  <2> DEFINE size == ResolvedSize(q)
             rev == NewRevision(q.project, size, 0)
  <2>2. q.project \in ProjectIds /\ Live(q.project) /\ size \in Sizes
        /\ ApplyProjectSettings(q.project, size, 0)
    BY <2>1 DEF ChangeSettings, Ready, Types, Requests
  <2>3. OnRecord(q.project, rev, size, versions')
    BY <2>2, ApplyOnRecord
  <2>4. \E n \in JobIds : CreatePendingJob(n, q.project, rev, size)
    BY <1>4, <2>1 DEF ChangeSettings
  <2> HIDE DEF size, rev
  <2> QED
    BY <1>3, <1>4, <2>2, <2>3, <2>4
<1>5. CASE j \notin jobs /\ \E q \in issued : StartGeneration(q)
  <2>1. PICK q \in issued : StartGeneration(q)
    BY <1>5
  <2>2. q.project \in ProjectIds /\ Live(q.project) /\ versions' = WithBaseline(q.project)
    BY <2>1 DEF StartGeneration, Ready, Types, Requests
  <2>3. \E n \in JobIds :
          CreatePendingJob(n, q.project, project[q.project].revision, project[q.project].size)
    BY <2>1 DEF StartGeneration
  <2> QED
    BY <1>3, <1>5, <2>2, <2>3, BaselineOnRecord
<1>6. CASE j \notin jobs /\ \E p \in ProjectIds : Generate(p)
  BY <1>3, <1>6, BaselineOnRecord DEF Generate
<1>7. CASE \E k \in jobs, status \in JobStatus : EndJob(k, status)
  <2>1. PICK k \in jobs, status \in JobStatus : EndJob(k, status)
    BY <1>7
  <2>2. k \in Jobs
    BY DEF Types
  <2>3. LET row == [k EXCEPT !.status = status]
        IN row.project = k.project /\ row.revision = k.revision /\ row.size = k.size
    BY <2>2 DEF Jobs
  <2>4. versions' = versions /\ (j \in jobs \/ j = [k EXCEPT !.status = status])
    BY <2>1 DEF EndJob
  <2> QED
    BY <2>3, <2>4 DEF JobsOnRecord
<1>8. CASE jobs' = jobs
  BY <1>8, VersionsKept, <1>1, <1>2
<1> QED
  BY <1>1, <1>2, <1>4, <1>5, <1>6, <1>7, <1>8, VersionsKept
     DEF Next, Execute, vars, RestoreSettings, Replay, PatchBlock, CreateProject, PatchProject,
         Issue

\* No receipt names a job that is new.
LEMMA NewJobUnnamed ==
    ASSUME Types, NEW p \in ProjectIds, NEW n \in JobIds, NEW rev, NEW size,
           CreatePendingJob(n, p, rev, size)
    PROVE \A id \in RequestIds : HasReceipt(id) => receipts[id].result.job # n
<1>1. \A id \in RequestIds : HasReceipt(id) => receipts[id].result.job < n
  BY DEF CreatePendingJob, NextJobId, IsAfter, HasReceipt
<1>2. n \in Nat
  BY DEF JobIds
<1> QED
  BY <1>1, <1>2

\* The job of a receipt is the one made with it, in the same transaction: an
\* identity is not given again while a receipt names it.
LEMMA NamesStep ==
    Types /\ Attached /\ ReceiptsNameJobs /\ [Next]_vars => ReceiptsNameJobs'
<1> SUFFICES ASSUME Types, Attached, ReceiptsNameJobs, [Next]_vars,
                    NEW id \in RequestIds, HasReceipt(id)', NEW j \in jobs',
                    receipts'[id].result.job = j.id
             PROVE /\ j.project = receipts'[id].result.project
                   /\ j.revision = receipts'[id].result.revision
                   /\ j.size = receipts'[id].result.size
  BY DEF ReceiptsNameJobs
<1> DEFINE Goal == /\ j.project = receipts'[id].result.project
                   /\ j.revision = receipts'[id].result.revision
                   /\ j.size = receipts'[id].result.size
<1>1. CASE receipts'[id] = receipts[id] /\ j \in jobs
  BY <1>1 DEF ReceiptsNameJobs, HasReceipt
<1>2. ASSUME receipts'[id] = receipts[id], j \notin jobs, NEW p \in ProjectIds, NEW n \in JobIds,
             NEW rev, NEW size, CreatePendingJob(n, p, rev, size)
      PROVE Goal
  <2>1. j.id = n
    BY <1>2 DEF CreatePendingJob
  <2> QED
    BY <1>2, <2>1, NewJobUnnamed DEF HasReceipt
<1>3. CASE \E k \in jobs, status \in JobStatus : EndJob(k, status)
  <2>1. PICK k \in jobs, status \in JobStatus : EndJob(k, status)
    BY <1>3
  <2> DEFINE row == [k EXCEPT !.status = status]
  <2>2. k \in Jobs
    BY DEF Types
  <2>3. row.id = k.id /\ row.project = k.project /\ row.revision = k.revision
        /\ row.size = k.size
    BY <2>2 DEF Jobs
  <2>4. receipts' = receipts /\ (j \in jobs \/ j = row)
    BY <2>1 DEF EndJob
  <2> HIDE DEF row
  <2> QED
    BY <1>1, <2>3, <2>4 DEF ReceiptsNameJobs, HasReceipt
<1>4. CASE \E p \in ProjectIds : Generate(p)
  BY <1>1, <1>2, <1>4 DEF Generate
<1>5. ASSUME NEW q \in issued, NEW rev \in Revisions, NEW size \in Sizes,
             NEW n \in JobIds \union {0}, SaveReceipt(q, rev, size, n),
             \/ n = 0 /\ jobs' = jobs
             \/ n \in JobIds /\ CreatePendingJob(n, q.project, rev, size)
      PROVE Goal
  <2>1. /\ \A r \in RequestIds \ {q.id} : receipts'[r] = receipts[r]
        /\ q.project \in ProjectIds
    BY <1>5, ReceiptRow
  <2>2. receipts'[q.id] = [content |-> Content(q),
                           result |-> [project |-> q.project, base |-> q.base,
                                       revision |-> rev, size |-> size, job |-> n],
                           seen |-> q.seen, applied |-> project[q.project].born]
    BY <1>5, ReceiptRow
  <2>3. /\ receipts'[q.id].result.job = n /\ receipts'[q.id].result.project = q.project
        /\ receipts'[q.id].result.revision = rev /\ receipts'[q.id].result.size = size
    BY <2>2
  <2>4. CASE id # q.id
    BY <1>1, <1>2, <1>5, <2>1, <2>4
  <2>5. CASE id = q.id
    <3>1. j.id = n
      BY <2>3, <2>5
    <3>2. CASE n = 0
      <4>1. j \in jobs
        BY <1>5, <3>2 DEF JobIds
      <4> QED
        BY <3>1, <3>2, <4>1 DEF Types, Jobs, JobIds
    <3>3. CASE n \in JobIds
      <4>1. CreatePendingJob(n, q.project, rev, size)
        BY <1>5, <3>3 DEF JobIds
      <4>2. \A k \in jobs : k.id # n
        BY <3>3, <4>1 DEF CreatePendingJob, NextJobId, IsAfter, JobIds, Types, Jobs
      <4>3. j.project = q.project /\ j.revision = rev /\ j.size = size
        BY <3>1, <4>1, <4>2 DEF CreatePendingJob
      <4> QED
        BY <2>3, <2>5, <4>3
    <3> QED
      BY <3>2, <3>3
  <2> QED
    BY <2>4, <2>5
<1>6. CASE \E q \in issued : ChangeSettings(q)
  <2>1. PICK q \in issued : ChangeSettings(q)
    BY <1>6
  <2> DEFINE size == ResolvedSize(q)
             rev == NewRevision(q.project, size, 0)
  <2>2. q.project \in ProjectIds /\ size \in Sizes
        /\ ApplyProjectSettings(q.project, size, 0)
    BY <2>1 DEF ChangeSettings, Types, Requests
  <2>3. rev \in Revisions
    BY <2>2, ApplyRow
  <2>4. \/ \E n \in JobIds : CreatePendingJob(n, q.project, rev, size)
                             /\ SaveReceipt(q, rev, size, n)
        \/ jobs' = jobs /\ SaveReceipt(q, rev, size, 0)
    BY <2>1 DEF ChangeSettings
  <2> HIDE DEF size, rev
  <2> QED
    BY <1>5, <2>2, <2>3, <2>4
<1>7. CASE \E q \in issued : RestoreSettings(q)
  <2>1. PICK q \in issued : RestoreSettings(q)
    BY <1>7
  <2>2. PICK v \in versions :
          /\ ApplyProjectSettings(q.project, v.size, v.revision)
          /\ SaveReceipt(q, NewRevision(q.project, v.size, v.revision), v.size, 0)
    BY <2>1 DEF RestoreSettings
  <2>3. q.project \in ProjectIds /\ v.size \in Sizes /\ v.revision \in Nat /\ jobs' = jobs
    BY <2>1 DEF RestoreSettings, Types, Requests, Versions, Revisions
  <2>4. NewRevision(q.project, v.size, v.revision) \in Revisions
    BY <2>2, <2>3, ApplyRow
  <2> QED
    BY <1>5, <2>2, <2>3, <2>4
<1>8. CASE \E q \in issued : StartGeneration(q)
  <2>1. PICK q \in issued : StartGeneration(q)
    BY <1>8
  <2>2. project[q.project].revision \in Revisions /\ project[q.project].size \in Sizes
    BY DEF Types, ProjectRows, Requests
  <2> QED
    BY <1>5, <2>1, <2>2 DEF StartGeneration
<1>9. CASE receipts' = receipts /\ jobs' \subseteq jobs
  BY <1>1, <1>9
<1> QED
  BY <1>3, <1>4, <1>6, <1>7, <1>8, <1>9
     DEF Next, Execute, vars, Replay, PatchBlock, DeleteProject, CreateProject, PatchProject,
         Issue

\* The references between the tables hold at every step.
LEMMA TracesAlways == Spec => [](JobsOnRecord /\ RestoresOnRecord /\ ReceiptsNameJobs)
<1>1. Init => JobsOnRecord /\ RestoresOnRecord /\ ReceiptsNameJobs
  BY DEF Init, JobsOnRecord, RestoresOnRecord, ReceiptsNameJobs
<1> QED
  BY <1>1, JobsStep, RestoresStep, NamesStep, TypesAlways, IdentitiesAlways, HistoryAlways, PTL
     DEF Spec

\* What a job renders is a recorded version, and what its acknowledgement named.
THEOREM JobsAreTraceableAlways == Spec => []JobsAreTraceable
<1>1. JobsOnRecord /\ ReceiptsNameJobs => JobsAreTraceable
  BY DEF JobsOnRecord, ReceiptsNameJobs, OnRecord, JobsAreTraceable
<1> QED
  BY <1>1, TracesAlways, PTL

\* The next start finds every reference it verifies in place.
THEOREM ReferencesHoldAlways == Spec => []ReferencesHold
<1>1. RestoresOnRecord /\ ReceiptsNameJobs => ReferencesHold
  BY DEF RestoresOnRecord, ReceiptsNameJobs, ReferencesHold
<1> QED
  BY <1>1, TracesAlways, PTL

\* The history is true and complete (record_settings, create_pending_job, save_receipt).
THEOREM HistoryIsTrueAlways == Spec => []HistoryIsTrue
BY VersionsAreTruthfulAlways, JobsAreTraceableAlways, ReferencesHoldAlways, PTL
   DEF HistoryIsTrue

-----------------------------------------------------------------------------
(* The core implements the register *)

\* The columns of the projects in the terms of the register, when one row changes.
LEMMA RegisterRow ==
    ASSUME Types, Types', NEW p \in ProjectIds, NEW life, NEW rev, NEW size,
           \A n \in ProjectIds \ {p} : project'[n] = project[n],
           project'[p].life = life, project'[p].revision = rev, project'[p].size = size
    PROVE /\ [n \in ProjectIds |-> project[n].life]'
               = [[n \in ProjectIds |-> project[n].life] EXCEPT ![p] = life]
          /\ [n \in ProjectIds |-> project[n].revision]'
               = [[n \in ProjectIds |-> project[n].revision] EXCEPT ![p] = rev]
          /\ [n \in ProjectIds |-> project[n].size]'
               = [[n \in ProjectIds |-> project[n].size] EXCEPT ![p] = size]
OBVIOUS

\* The same without a change.
LEMMA RegisterStays ==
    ASSUME project' = project, receipts' = receipts
    PROVE UNCHANGED Register!vars
BY DEF Register!vars, HasReceipt

\* A change of settings without a receipt.
LEMMA RegisterWrite ==
    ASSUME Types, Types', NEW p \in ProjectIds, Live(p), receipts' = receipts,
           project'[p].life = project[p].life,
           \A n \in ProjectIds \ {p} : project'[n] = project[n],
           \/ project'[p].revision = project[p].revision + 1
           \/ project'[p].revision = project[p].revision /\ project'[p].size = project[p].size
    PROVE Register!Next \/ UNCHANGED Register!vars
<1>1. project'[p].size \in Sizes
  BY DEF Types, ProjectRows
<1>2. [id \in RequestIds |-> IF HasReceipt(id)
         THEN [project |-> receipts[id].result.project, base |-> receipts[id].result.base,
               revision |-> receipts[id].result.revision, size |-> receipts[id].result.size]
         ELSE NoReceipt]'
      = [id \in RequestIds |-> IF HasReceipt(id)
         THEN [project |-> receipts[id].result.project, base |-> receipts[id].result.base,
               revision |-> receipts[id].result.revision, size |-> receipts[id].result.size]
         ELSE NoReceipt]
  BY DEF HasReceipt
<1>3. CASE project'[p].revision = project[p].revision + 1
  <2> DEFINE size == project'[p].size
  <2>1. /\ [n \in ProjectIds |-> project[n].revision]'
             = [[n \in ProjectIds |-> project[n].revision] EXCEPT ![p] = project[p].revision + 1]
        /\ [n \in ProjectIds |-> project[n].size]'
             = [[n \in ProjectIds |-> project[n].size] EXCEPT ![p] = size]
    BY ZenonT(60), <1>3, RegisterRow
  <2>2. [n \in ProjectIds |-> project[n].life]' = [n \in ProjectIds |-> project[n].life]
    OBVIOUS
  <2>3. /\ [n \in ProjectIds |-> project[n].life][p] = "live"
        /\ [n \in ProjectIds |-> project[n].revision][p] = project[p].revision
    BY DEF Live
  <2> HIDE DEF size
  <2>4. size \in Sizes
    BY <1>1 DEF size
  <2>5. Register!Write(p)
    BY <1>2, <2>1, <2>2, <2>3, <2>4 DEF Register!Write, Register!Becomes
  <2> QED
    BY <2>5 DEF Register!Next
<1>4. CASE project'[p].revision = project[p].revision /\ project'[p].size = project[p].size
  <2>1. \A n \in ProjectIds : /\ project'[n].life = project[n].life
                              /\ project'[n].revision = project[n].revision
                              /\ project'[n].size = project[n].size
    BY <1>4
  <2> QED
    BY <1>2, <2>1 DEF Register!vars
<1> QED
  BY <1>3, <1>4

\* A saved receipt is the answer of the register.
LEMMA RegisterAnswer ==
    ASSUME Types, Types', NEW q \in issued, Ready(q), NEW n \in JobIds \union {0},
           project'[q.project].life = project[q.project].life,
           \A m \in ProjectIds \ {q.project} : project'[m] = project[m],
           \/ project'[q.project].revision = project[q.project].revision + 1
           \/ /\ project'[q.project].revision = project[q.project].revision
              /\ project'[q.project].size = project[q.project].size,
           SaveReceipt(q, project'[q.project].revision, project'[q.project].size, n)
    PROVE Register!Next
<1> DEFINE p == q.project
           rev == project'[p].revision
           size == project'[p].size
           AnswerTo(id) == [project |-> receipts[id].result.project,
                            base |-> receipts[id].result.base,
                            revision |-> receipts[id].result.revision,
                            size |-> receipts[id].result.size]
           answers == [id \in RequestIds |-> IF HasReceipt(id) THEN AnswerTo(id) ELSE NoReceipt]
<1>1. p \in ProjectIds /\ q.id \in RequestIds
  BY DEF Types, Requests
<1>2. rev \in Revisions /\ size \in Sizes
  BY <1>1 DEF Types, ProjectRows
<1>3. /\ receipts'[q.id] # NoReceipt
      /\ \A id \in RequestIds \ {q.id} : receipts'[id] = receipts[id]
  BY <1>2, ReceiptRow
<1>4. receipts'[q.id] = [content |-> Content(q),
                         result |-> [project |-> q.project, base |-> q.base,
                                     revision |-> rev, size |-> size, job |-> n],
                         seen |-> q.seen, applied |-> project[q.project].born]
  BY <1>2, ReceiptRow
<1>5. AnswerTo(q.id)' = [project |-> p, base |-> project[p].revision,
                         revision |-> rev, size |-> size]
  BY <1>4 DEF Ready
<1>6. answers' = [answers EXCEPT ![q.id] = [project |-> p, base |-> project[p].revision,
                                            revision |-> rev, size |-> size]]
  BY <1>1, <1>3, <1>5 DEF HasReceipt
<1>7. answers[q.id] = NoReceipt /\ project[p].life = "live"
  BY <1>1 DEF Ready, HasReceipt, Live
<1>8. /\ [m \in ProjectIds |-> project[m].revision]'[p] = rev
      /\ [m \in ProjectIds |-> project[m].size]'[p] = size
      /\ [m \in ProjectIds |-> project[m].revision][p] = project[p].revision
      /\ [m \in ProjectIds |-> project[m].life][p] = "live"
  BY <1>1, <1>7
<1>9. [m \in ProjectIds |-> project[m].life]' = [m \in ProjectIds |-> project[m].life]
  BY <1>1
<1>10. \/ /\ [m \in ProjectIds |-> project[m].revision]' = [m \in ProjectIds |-> project[m].revision]
          /\ [m \in ProjectIds |-> project[m].size]' = [m \in ProjectIds |-> project[m].size]
       \/ \E value \in Sizes :
            /\ [m \in ProjectIds |-> project[m].revision]'
                 = [[m \in ProjectIds |-> project[m].revision] EXCEPT ![p] =
                      [m \in ProjectIds |-> project[m].revision][p] + 1]
            /\ [m \in ProjectIds |-> project[m].size]'
                 = [[m \in ProjectIds |-> project[m].size] EXCEPT ![p] = value]
  <2>1. CASE rev = project[p].revision + 1
    <3>1. \A m \in ProjectIds \ {p} : project'[m] = project[m]
      OBVIOUS
    <3>2. [m \in ProjectIds |-> project[m].revision]'
            = [[m \in ProjectIds |-> project[m].revision] EXCEPT ![p] = rev]
      BY <1>1, <3>1 DEF Types
    <3>3. [m \in ProjectIds |-> project[m].size]'
            = [[m \in ProjectIds |-> project[m].size] EXCEPT ![p] = size]
      BY <1>1, <3>1 DEF Types
    <3> HIDE DEF p, rev, size
    <3> QED
      BY <1>2, <1>8, <2>1, <3>2, <3>3
  <2>2. CASE rev = project[p].revision /\ size = project[p].size
    BY <1>1, <2>2
  <2> QED
    BY <2>1, <2>2
<1> HIDE DEF rev, size, p
<1>11. Register!Answer(p, q.id)
  <2>1. [m \in ProjectIds |-> project[m].life][p] = "live"
    BY <1>8
  <2>2. answers[q.id] = NoReceipt
    BY <1>7
  <2>3. answers' = [answers EXCEPT ![q.id] =
          [project |-> p, base |-> [m \in ProjectIds |-> project[m].revision][p],
           revision |-> [m \in ProjectIds |-> project[m].revision]'[p],
           size |-> [m \in ProjectIds |-> project[m].size]'[p]]]
    BY <1>6, <1>8
  <2> QED
    BY <1>9, <1>10, <2>1, <2>2, <2>3 DEF Register!Answer, Register!Becomes
<1> QED
  BY <1>1, <1>11 DEF Register!Next, p

\* Every step of the core is a step of the register, or none.
LEMMA RegisterStep ==
    Types /\ Attached /\ [Next]_vars => [Register!Next]_(Register!vars)
<1> SUFFICES ASSUME Types, Attached, [Next]_vars PROVE Register!Next \/ UNCHANGED Register!vars
  OBVIOUS
<1>1. Types'
  BY TypeStep
<1>2. CASE \E q \in issued : ChangeSettings(q)
  <2>1. PICK q \in issued : ChangeSettings(q)
    BY <1>2
  <2> DEFINE size == ResolvedSize(q)
  <2>2. q.project \in ProjectIds /\ size \in Sizes /\ Ready(q)
        /\ ApplyProjectSettings(q.project, size, 0)
    BY <2>1 DEF ChangeSettings, Types, Requests
  <2>3. \E n \in JobIds \union {0} : SaveReceipt(q, NewRevision(q.project, size, 0), size, n)
    BY <2>1 DEF ChangeSettings
  <2> HIDE DEF size
  <2>4. \E n \in JobIds \union {0} :
          SaveReceipt(q, project'[q.project].revision, project'[q.project].size, n)
    BY <2>2, <2>3, ApplyRow
  <2>5. Register!Next
    BY <1>1, <2>2, <2>4, ApplyRow, RegisterAnswer
  <2> QED
    BY <2>5
<1>3. CASE \E q \in issued : RestoreSettings(q)
  <2>1. PICK q \in issued : RestoreSettings(q)
    BY <1>3
  <2>2. PICK v \in versions :
          /\ ApplyProjectSettings(q.project, v.size, v.revision)
          /\ SaveReceipt(q, NewRevision(q.project, v.size, v.revision), v.size, 0)
    BY <2>1 DEF RestoreSettings
  <2>3. q.project \in ProjectIds /\ v.size \in Sizes /\ v.revision \in Nat /\ Ready(q)
    BY <2>1 DEF RestoreSettings, Types, Requests, Versions, Revisions
  <2>4. SaveReceipt(q, project'[q.project].revision, project'[q.project].size, 0)
    BY <2>2, <2>3, ApplyRow
  <2>5. Register!Next
    BY <1>1, <2>2, <2>3, <2>4, ApplyRow, RegisterAnswer
  <2> QED
    BY <2>5
<1>4. CASE \E q \in issued : StartGeneration(q)
  <2>1. PICK q \in issued : StartGeneration(q)
    BY <1>4
  <2>2. q.project \in ProjectIds /\ Ready(q) /\ project' = project
    BY <2>1 DEF StartGeneration, Types, Requests
  <2>3. \E n \in JobIds \union {0} :
          SaveReceipt(q, project'[q.project].revision, project'[q.project].size, n)
    BY <2>1, <2>2 DEF StartGeneration
  <2>4. Register!Next
    BY <1>1, <2>2, <2>3, RegisterAnswer
  <2> QED
    BY <2>4
<1>5. CASE \E p \in ProjectIds, size \in Sizes : PatchProject(p, size)
  <2>1. PICK p \in ProjectIds, size \in Sizes : PatchProject(p, size)
    BY <1>5
  <2>2. Live(p) /\ receipts' = receipts /\ ApplyProjectSettings(p, size, 0)
    BY <2>1 DEF PatchProject
  <2> QED
    BY <1>1, <2>2, ApplyRow, RegisterWrite
<1>6. CASE \E p \in ProjectIds : PatchBlock(p)
  <2>1. PICK p \in ProjectIds : PatchBlock(p)
    BY <1>6
  <2>2. Live(p) /\ receipts' = receipts
    BY <2>1 DEF PatchBlock
  <2> QED
    BY <1>1, <2>1, <2>2, BlockRow, RegisterWrite
<1>7. CASE \E p \in ProjectIds : DeleteProject(p)
  <2>1. PICK p \in ProjectIds : DeleteProject(p)
    BY <1>7
  <2>2. project' = [project EXCEPT ![p] = [project[p] EXCEPT !.life = "deleted"]]
        /\ project[p].life = "live" /\ project[p] \in ProjectRows /\ receipts' = receipts
    BY <2>1 DEF DeleteProject, Live, Types
  <2>3. /\ \A n \in ProjectIds \ {p} : project'[n] = project[n]
        /\ project'[p].life = "deleted" /\ project'[p].revision = project[p].revision
        /\ project'[p].size = project[p].size
    BY <2>2 DEF Types, ProjectRows
  <2>4. [n \in ProjectIds |-> project[n].life]'
          = [[n \in ProjectIds |-> project[n].life] EXCEPT ![p] = "deleted"]
    BY ZenonT(60), <1>1, <2>3, RegisterRow
  <2>5. Register!Delete(p)
    BY <2>2, <2>3, <2>4 DEF Register!Delete, HasReceipt
  <2> QED
    BY <2>5 DEF Register!Next
<1>8. CASE \E p \in ProjectIds, size \in Sizes : CreateProject(p, size)
  <2>1. PICK p \in ProjectIds, size \in Sizes : CreateProject(p, size)
    BY <1>8
  <2>2. project[p].life = "unborn" /\ receipts' = receipts
    BY <2>1 DEF CreateProject, NextProjectId, IsAfter, NamedProjects, ProjectIds
  <2>3. project' = [project EXCEPT ![p] = [life |-> "live", revision |-> 1, size |-> size,
                                           born |-> project[p].born + 1]]
    BY <2>1 DEF CreateProject
  <2>4. /\ \A n \in ProjectIds \ {p} : project'[n] = project[n]
        /\ project'[p].life = "live" /\ project'[p].revision = 1 /\ project'[p].size = size
    BY <2>3 DEF Types
  <2>5. /\ [n \in ProjectIds |-> project[n].life]'
             = [[n \in ProjectIds |-> project[n].life] EXCEPT ![p] = "live"]
        /\ Register!Becomes(p, 1, size)
    BY ZenonT(60), <1>1, <2>4, RegisterRow DEF Register!Becomes
  <2>6. Register!Create(p)
    BY <2>2, <2>5 DEF Register!Create, HasReceipt
  <2> QED
    BY <2>6 DEF Register!Next
<1>9. CASE project' = project /\ receipts' = receipts
  BY <1>9, RegisterStays
<1> QED
  BY <1>2, <1>3, <1>4, <1>5, <1>6, <1>7, <1>8, <1>9
     DEF Next, Execute, vars, Replay, Generate, Issue, EndJob

\* The core implements the register: revisions tell the states of a project apart,
\* and a request is applied at most once, to the state it was made for.
THEOREM KeepsTheRegister == Spec => KeepsRegister
<1>1. Init => Register!Init
  <2> SUFFICES ASSUME Init PROVE Register!Init
    OBVIOUS
  <2>1. Unborn.life = "unborn" /\ Unborn.revision = 1 /\ Unborn.size = 1
    BY DEF Unborn
  <2>2. /\ [Unborn EXCEPT !.life = "live", !.born = 1].life = "live"
        /\ [Unborn EXCEPT !.life = "live", !.born = 1].revision = 1
        /\ [Unborn EXCEPT !.life = "live", !.born = 1].size = 1
    BY DEF Unborn
  <2>3. 1 \in Sizes
    BY BoundsAssumption DEF Sizes
  <2>4. \A p \in ProjectIds : /\ project[p].life \in {"unborn", "live"}
                              /\ project[p].revision \in Nat /\ project[p].size \in Sizes
    <3> DEFINE alive == [Unborn EXCEPT !.life = "live", !.born = 1]
    <3>1. \A p \in ProjectIds : project[p] = Unborn \/ project[p] = alive
      BY DEF Init
    <3>2. alive.life = "live" /\ alive.revision = 1 /\ alive.size = 1
      BY <2>2
    <3> HIDE DEF alive
    <3> QED
      BY <2>1, <2>3, <3>1, <3>2
  <2>5. receipts = [id \in RequestIds |-> NoReceipt]
    BY DEF Init
  <2> QED
    BY <2>4, <2>5 DEF Register!Init, HasReceipt
<1> QED
  BY <1>1, RegisterStep, TypesAlways, PTL DEF Spec, KeepsRegister, Register!Spec
=============================================================================
