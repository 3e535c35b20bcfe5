-------------------------- MODULE CandidateRuntime --------------------------
(***************************************************************************)
(* The runtime of a release candidate (src/backend/evaluation/             *)
(* runtime_materialization.py): the frozen files are copied out of the     *)
(* checkout, bound to a record and an ownership marker, read again at      *)
(* every boundary, and removed; and the verification that uses it          *)
(* (release_verification.py), which copies it once more for each of its    *)
(* two groups of commands and always tries to remove it.                   *)
(*                                                                         *)
(* Who holds the marker's lock (flock, never waited for) may change marker *)
(* and runtime; a process that is killed loses its lock and leaves the     *)
(* rest as it is.  Somebody else may write into the runtime and the        *)
(* checkout at any time.  A file is told apart by its bytes and its        *)
(* identity (device and inode); deleting a file is one step with the last  *)
(* look at its identity.                                                   *)
(***************************************************************************)
EXTENDS Integers, FiniteSets

CONSTANTS Files,     \* the frozen files
          Verifiers, \* processes that run verify_release_candidate
          Cleaners,  \* processes that run cleanup_candidate_runtime alone
          MaxMishaps \* bound: kills, and writes of somebody else


VARIABLES
  candidate, \* the checkout: whether its bytes are the frozen ones, and its snapshot
  tool,      \* the version of the verifier's sources
  runtime,   \* the runtime directory: its root, its files, whether there are entries nobody
             \* recorded, whether somebody else ever wrote into it
  marker,    \* <output>.ownership.json: its state
  record,    \* the materialization record: the snapshot of the candidate it names
  receipt,   \* <output>.cleanup.json
  lock,      \* who holds the lock of the marker
  maker,     \* materialize_candidate_runtime
  user,      \* the verifiers and the cleaners
  mishaps

vars == <<candidate, tool, runtime, marker, record, receipt, lock, maker, user, mishaps>>

-----------------------------------------------------------------------------
(* Files and identities.                                                   *)

None == "none"
NoSnapshot == 0 - 1
Users == Verifiers \cup Cleaners

\* A file of the runtime: absent, the recorded file with the frozen bytes, the recorded
\* file with other bytes, or another file in its place.
FileStates == {None, "own", "altered", "foreign"}
Absent == [root |-> FALSE, file |-> [f \in Files |-> None], extra |-> FALSE, disturbed |-> FALSE]
Present(r) == {f \in Files : r.file[f] # None}

\* _verify_tree: what is there is what was recorded, all of it or (subset) a part.
TreeHolds(r, subset) ==
  /\ r.root /\ ~r.extra
  /\ \A f \in Files : r.file[f] = "own" \/ (subset /\ r.file[f] = None)

\* _freeze_inputs: the checkout has the frozen bytes; it returns the snapshot.
InputsHold == candidate.frozen
InputsAre(snapshot) == candidate.frozen /\ candidate.snapshot = snapshot

\* What a verification publishes; what it has found so far.
NoManifest == [status |-> None, before |-> NoSnapshot, after |-> NoSnapshot, read |-> FALSE,
               commands |-> 0, cleanup |-> None]

\* Mutation of Idle: the groups are counted from zero.
IdleAtZero == [pc |-> "idle", ok |-> TRUE, before |-> NoSnapshot, after |-> NoSnapshot, tool |-> 0,
               read |-> FALSE, group |-> 0, copy |-> None, commands |-> 0, cleanup |-> "completed",
               dirt |-> FALSE, retained |-> FALSE, manifest |-> NoManifest]

Idle == [pc |-> "idle", ok |-> TRUE, before |-> NoSnapshot, after |-> NoSnapshot, tool |-> 0,
         read |-> FALSE, group |-> 1, copy |-> None, commands |-> 0, cleanup |-> "completed",
         dirt |-> FALSE, retained |-> FALSE, manifest |-> NoManifest]

Init ==
  /\ candidate = [frozen |-> TRUE, snapshot |-> 0] /\ tool = 0
  /\ runtime = Absent /\ marker = None
  /\ record = NoSnapshot /\ receipt = None /\ lock = None
  /\ maker = [pc |-> "start", snapshot |-> NoSnapshot, made |-> {}]
  /\ user = [u \in Users |-> Idle]
  /\ mishaps = 0

-----------------------------------------------------------------------------
(* Materialization.                                                        *)

Make(pc) == maker' = [maker EXCEPT !.pc = pc]

\* The evidence must be new and the candidate the frozen one; then the root is made.
MakeRoot ==
  /\ maker.pc = "start" /\ marker = None /\ record = NoSnapshot /\ receipt = None
  /\ InputsHold
  /\ runtime' = [runtime EXCEPT !.root = TRUE]
  /\ maker' = [maker EXCEPT !.pc = "marker", !.snapshot = candidate.snapshot]
  /\ UNCHANGED <<candidate, tool, marker, record, receipt, lock, user, mishaps>>

MakeRefused ==
  /\ maker.pc = "start" /\ ~InputsHold
  /\ Make("failed")
  /\ UNCHANGED <<candidate, tool, runtime, marker, record, receipt, lock, user, mishaps>>

\* _locked_marker(create): the file is created and locked, and written then.
MakeMarker ==
  /\ maker.pc = "marker"
  /\ \/ marker = None /\ marker' = "empty" /\ lock' = "maker" /\ UNCHANGED maker
     \/ marker = "empty" /\ marker' = "building" /\ Make("copy") /\ UNCHANGED lock
  /\ UNCHANGED <<candidate, tool, runtime, record, receipt, user, mishaps>>

\* _OwnedTree.copy: the file is created exclusively, and compared with its fingerprint while
\* it is copied.
Copy(f) ==
  /\ maker.pc = "copy" /\ f \notin maker.made
  /\ \/ /\ runtime.file[f] = None
        /\ runtime' = [runtime EXCEPT !.file[f] = "own"]
        /\ maker' = [maker EXCEPT !.made = @ \cup {f}, !.pc = IF candidate.frozen THEN @ ELSE "undo"]
     \/ /\ runtime.file[f] # None
        /\ Make("undo") /\ UNCHANGED runtime
  /\ UNCHANGED <<candidate, tool, marker, record, receipt, lock, user, mishaps>>

\* Everything was copied: the inputs and the tree are compared, then the record is published,
\* then the marker is made active, and inputs and tree are compared again.
Holds == InputsAre(maker.snapshot) /\ TreeHolds(runtime, FALSE)

PublishRecord ==
  /\ maker.pc = "copy" /\ maker.made = Files
  /\ \/ Holds /\ record' = maker.snapshot /\ Make("activate")
     \/ ~Holds /\ Make("undo") /\ UNCHANGED record
  /\ UNCHANGED <<candidate, tool, runtime, marker, receipt, lock, user, mishaps>>

Activate ==
  /\ maker.pc = "activate"
  /\ marker' = "active" /\ Make("check")
  /\ UNCHANGED <<candidate, tool, runtime, record, receipt, lock, user, mishaps>>

LastCheck ==
  /\ maker.pc = "check"
  /\ \/ Holds /\ Make("done") /\ lock' = None
     \/ ~Holds /\ Make("undo") /\ UNCHANGED lock
  /\ UNCHANGED <<candidate, tool, runtime, marker, record, receipt, user, mishaps>>

\* A failed materialization removes what it made; it says "cleaning" first if it has published.
Undo ==
  /\ maker.pc = "undo"
  /\ marker' = IF record # NoSnapshot THEN "cleaning" ELSE marker
  /\ \/ /\ runtime.root /\ ~runtime.extra
        /\ \A f \in Files : runtime.file[f] = (IF f \in maker.made THEN "own" ELSE None)
        /\ Make("remove") /\ UNCHANGED <<receipt, lock>>
     \/ /\ runtime.extra \/ \E f \in Files : runtime.file[f] # (IF f \in maker.made THEN "own" ELSE None)
        /\ receipt' = "failed" /\ Make("failed") /\ lock' = None
  /\ UNCHANGED <<candidate, tool, runtime, record, user, mishaps>>

-----------------------------------------------------------------------------
(* _OwnedTree.remove: one file after the other, then the root.             *)

\* Mutation of MayDelete: a file is known by its name.
MayDeleteByName(f) == runtime.file[f] # None

MayDelete(f) == runtime.file[f] = "own"

RemoveFile(f) ==
  /\ f \in Present(runtime) /\ MayDelete(f)
  /\ runtime' = [runtime EXCEPT !.file[f] = None]

\* What is left to remove was replaced or altered, or the root is not empty.
RemovalBlocked ==
  \/ \E f \in Present(runtime) : ~MayDelete(f)
  \/ Present(runtime) = {} /\ runtime.extra

RemoveRoot ==
  /\ Present(runtime) = {} /\ ~runtime.extra
  /\ runtime' = Absent

MakerRemoves ==
  /\ maker.pc = "remove"
  /\ \/ \E f \in maker.made : RemoveFile(f) /\ UNCHANGED <<marker, receipt, lock, maker>>
     \/ /\ RemovalBlocked
        /\ receipt' = "failed" /\ lock' = None /\ Make("failed")
        /\ UNCHANGED <<runtime, marker>>
     \/ /\ RemoveRoot
        /\ marker' = IF record # NoSnapshot THEN "cleaned" ELSE marker
        /\ receipt' = "completed" /\ lock' = None /\ Make("failed")
  /\ UNCHANGED <<candidate, tool, record, user, mishaps>>

-----------------------------------------------------------------------------
(* Cleanup of a recorded runtime.                                          *)

Goto(u, pc) == user' = [user EXCEPT ![u].pc = pc]

\* The end of a cleanup: a verification goes on and publishes, a cleaner is done.
After(u) == IF u \in Verifiers THEN "publish" ELSE "done"
Ended(u, cleaned) ==
  user' = [user EXCEPT ![u].pc = After(u), ![u].ok = @ /\ cleaned,
                       ![u].cleanup = IF cleaned THEN @ ELSE "failed"]

\* The lock is busy, or the marker is not one of this record: refused without a receipt.
CleanupRefused(u) ==
  /\ user[u].pc = "cleanup"
  /\ \/ lock # None
     \/ marker \notin {"active", "cleaning", "cleaned"}
     \/ marker = "cleaned" /\ runtime.root
  /\ Ended(u, FALSE)
  /\ UNCHANGED <<candidate, tool, runtime, marker, record, receipt, lock, maker, mishaps>>

\* Mutation of Gone: the files are looked for, not the root.
GoneWithFiles == Present(runtime) = {}

Gone == ~runtime.root

\* Somebody has cleaned up already, or has died between the removal and its note.
CleanupDone(u) ==
  /\ user[u].pc = "cleanup" /\ lock = None /\ Gone
  /\ \/ marker = "cleaned" /\ receipt' = "completed" /\ Ended(u, TRUE) /\ UNCHANGED lock
     \/ marker = "cleaning" /\ lock' = u /\ Goto(u, "write") /\ UNCHANGED receipt
  /\ UNCHANGED <<candidate, tool, runtime, marker, record, maker, mishaps>>

\* Mutation of MayResume: a cleanup that was interrupted must find everything.
MayResumeWhole(state) == TreeHolds(runtime, FALSE)

\* An interrupted cleanup may have removed some of the files.
MayResume(state) == TreeHolds(runtime, state = "cleaning")

CleanupFailed(u) ==
  /\ user[u].pc = "cleanup" /\ lock = None
  /\ marker = "active" \/ (marker = "cleaning" /\ runtime.root)
  /\ ~MayResume(marker)
  /\ receipt' = "failed"
  /\ Ended(u, FALSE)
  /\ UNCHANGED <<candidate, tool, runtime, marker, record, lock, maker, mishaps>>

CleanupBegins(u) ==
  /\ user[u].pc = "cleanup" /\ lock = None
  /\ marker \in {"active", "cleaning"} /\ MayResume(marker)
  /\ lock' = u /\ marker' = "cleaning"
  /\ Goto(u, "remove")
  /\ UNCHANGED <<candidate, tool, runtime, record, receipt, maker, mishaps>>

\* remove, then "cleaned" is written over "cleaning", which is one byte longer: between the
\* write and the truncation the marker is not readable.
Remove(u) ==
  /\ user[u].pc = "remove"
  /\ \/ \E f \in Files : RemoveFile(f) /\ UNCHANGED <<marker, receipt, lock, user>>
     \/ /\ RemovalBlocked
        /\ receipt' = "failed" /\ lock' = None /\ Ended(u, FALSE)
        /\ UNCHANGED <<runtime, marker>>
     \/ RemoveRoot /\ Goto(u, "write") /\ UNCHANGED <<marker, receipt, lock>>
  /\ UNCHANGED <<candidate, tool, record, maker, mishaps>>

WriteCleaned(u) ==
  /\ \/ user[u].pc = "write" /\ marker' = "torn" /\ Goto(u, "truncate") /\ UNCHANGED <<receipt, lock>>
     \/ /\ user[u].pc = "truncate" /\ marker' = "cleaned"
        /\ receipt' = "completed" /\ lock' = None /\ Ended(u, TRUE)
  /\ UNCHANGED <<candidate, tool, runtime, record, maker, mishaps>>

-----------------------------------------------------------------------------
(* The verification.                                                       *)

Only(u) == UNCHANGED <<candidate, tool, runtime, marker, record, receipt, lock, maker, mishaps>>

\* Any refusal goes to the checks at the end, which are always made.
Refused(u) == user' = [user EXCEPT ![u].pc = "after", ![u].ok = FALSE]

\* A process is started with the digest of a record (_bound_materialization).
Begin(u) ==
  /\ user[u].pc = "idle" /\ record # NoSnapshot
  /\ user' = [user EXCEPT ![u].pc = IF u \in Verifiers THEN "inputs" ELSE "cleanup",
                          ![u].before = candidate.snapshot, ![u].tool = tool]
  /\ Only(u)

Inputs(u) ==
  /\ user[u].pc = "inputs"
  /\ \/ InputsAre(record) /\ Goto(u, "read")
     \/ ~InputsAre(record) /\ Refused(u)
  /\ Only(u)

\* read_materialized_runtime: under the lock, the marker is active and the tree complete.
Readings == {"read", "boundary", "again", "readAfter"}
ReadHolds == marker = "active" /\ TreeHolds(runtime, FALSE)

LockToRead(u) ==
  /\ user[u].pc \in Readings /\ lock = None
  /\ lock' = u
  /\ UNCHANGED <<candidate, tool, runtime, marker, record, receipt, maker, user, mishaps>>

ReadBusy(u) ==
  /\ user[u].pc \in Readings \ {"readAfter"} /\ lock \notin {None, u}
  /\ Refused(u)
  /\ Only(u)

Unlocked(u) ==
  /\ lock = u /\ lock' = None
  /\ UNCHANGED <<candidate, tool, runtime, marker, record, receipt, maker, mishaps>>

\* The first reading; then the smoke evidence, made by this version of the tool, which may
\* refuse.
ReadFirst(u) ==
  /\ user[u].pc = "read"
  /\ \/ ReadHolds /\ user[u].tool = 0 /\ Goto(u, "boundary")
     \/ Refused(u)
  /\ Unlocked(u)

\* The scan of the commit, before the first group, finds what must not be published.
ScanRefused(u) ==
  /\ user[u].pc = "boundary" /\ user[u].group = 1 /\ lock # u
  /\ Refused(u)
  /\ Only(u)

\* _inventory_boundary, before and after each group.
BoundaryHolds(u) == ReadHolds /\ InputsAre(record) /\ tool = user[u].tool

Boundary(u) ==
  /\ user[u].pc \in {"boundary", "again"}
  /\ \/ BoundaryHolds(u) /\ user[u].pc = "boundary" /\ Goto(u, "copy")
     \/ /\ BoundaryHolds(u) /\ user[u].pc = "again"
        /\ user' = [user EXCEPT ![u].pc = IF user[u].group = 2 THEN "after" ELSE "boundary",
                                ![u].group = 2]
     \/ ~BoundaryHolds(u) /\ Refused(u)
  /\ Unlocked(u)

\* A group whose processes are not confirmed gone, or that is not removed to the last entry
\* it was made of, is left where it is.
LeaveGroup(u) ==
  user' = [user EXCEPT ![u].pc = "after", ![u].ok = FALSE, ![u].cleanup = "failed", ![u].retained = TRUE]

\* _ExecutionGroup: the files are copied from the runtime, which nobody has locked; a copy
\* that fails is removed, or left.
CopyGroup(u) ==
  /\ user[u].pc = "copy"
  /\ \/ (\A f \in Files : runtime.file[f] = "own")
        /\ user' = [user EXCEPT ![u].pc = "commands", ![u].copy = "frozen"]
     \/ (\E f \in Files : runtime.file[f] # "own") /\ (Refused(u) \/ LeaveGroup(u))
  /\ Only(u)

\* A tool of the group is missing or is not the pinned one: no command is run.
ToolsRefused(u) ==
  /\ user[u].pc = "commands"
  /\ user' = [user EXCEPT ![u].pc = "close", ![u].ok = FALSE]
  /\ Only(u)

\* The commands of the group: all completed with exit code zero, or one did not; they may
\* have written into their copy of the source.
Commands(u) ==
  /\ user[u].pc = "commands"
  /\ \E passed, dirty \in BOOLEAN :
       user' = [user EXCEPT ![u].pc = "close", ![u].ok = passed,
                            ![u].copy = IF dirty THEN "dirty" ELSE @,
                            ![u].commands = @ + (IF passed THEN 1 ELSE 0)]
  /\ Only(u)

\* Mutation of GroupHolds: the group's source is not compared after the last command.
GroupHoldsIfPassed(u) == user[u].ok

GroupHolds(u) == user[u].ok /\ user[u].copy = "frozen"

\* _close_group: the source is compared once more, and the group is removed.
CloseGroup(u) ==
  /\ user[u].pc = "close"
  /\ \/ GroupHolds(u) /\ user' = [user EXCEPT ![u].pc = "again", ![u].dirt = @ \/ user[u].copy = "dirty", ![u].copy = None]
     \/ ~GroupHolds(u) /\ user' = [user EXCEPT ![u].pc = "after", ![u].ok = FALSE, ![u].copy = None]
     \/ LeaveGroup(u)
  /\ Only(u)

\* The checks at the end: the candidate, the runtime, and its removal whatever they find.
CheckAfter(u) ==
  /\ user[u].pc = "after"
  /\ user' = [user EXCEPT ![u].pc = "readAfter", ![u].after = candidate.snapshot,
                          ![u].ok = @ /\ InputsAre(record)]
  /\ Only(u)

ReadAfter(u) ==
  /\ user[u].pc = "readAfter"
  /\ \/ /\ user' = [user EXCEPT ![u].pc = "cleanup", ![u].read = ReadHolds, ![u].ok = @ /\ ReadHolds]
        /\ Unlocked(u)
     \/ /\ lock \notin {None, u}
        /\ user' = [user EXCEPT ![u].pc = "cleanup", ![u].ok = FALSE]
        /\ Only(u)

Passed(v) == v.ok /\ v.before = v.after /\ v.before = record

\* The manifest, unless the verifier's sources have changed.
PublishVerification(u) ==
  /\ user[u].pc = "publish"
  /\ \/ /\ tool = user[u].tool
        /\ user' = [user EXCEPT ![u].pc = "done",
                     ![u].manifest = [status |-> IF Passed(user[u]) THEN "passed" ELSE "failed",
                                      before |-> user[u].before, after |-> user[u].after,
                                      read |-> user[u].read, commands |-> user[u].commands,
                                      cleanup |-> user[u].cleanup]]
     \/ tool # user[u].tool /\ Goto(u, "done")
  /\ Only(u)

-----------------------------------------------------------------------------
(* Kills, and what others write.                                           *)

Mishap == mishaps < MaxMishaps /\ mishaps' = mishaps + 1

KillMaker ==
  /\ maker.pc \notin {"start", "done", "failed", "killed"}
  /\ Mishap /\ Make("killed")
  /\ lock' = IF lock = "maker" THEN None ELSE lock
  /\ UNCHANGED <<candidate, tool, runtime, marker, record, receipt, user>>

Kill(u) ==
  /\ user[u].pc \notin {"idle", "done", "killed"}
  /\ Mishap /\ Goto(u, "killed")
  /\ lock' = IF lock = u THEN None ELSE lock
  /\ UNCHANGED <<candidate, tool, runtime, marker, record, receipt, maker>>

\* The checkout is edited, or put back: its snapshot (times, inodes) changes every time.
Edit ==
  /\ Mishap
  /\ candidate' = [frozen |-> ~candidate.frozen, snapshot |-> candidate.snapshot + 1]
  /\ UNCHANGED <<tool, runtime, marker, record, receipt, lock, maker, user>>

UpdateTool ==
  /\ Mishap /\ tool = 0 /\ tool' = 1
  /\ UNCHANGED <<candidate, runtime, marker, record, receipt, lock, maker, user>>

Tamper ==
  /\ Mishap /\ runtime.root
  /\ \/ \E f \in Files, s \in {None, "altered", "foreign"} :
          /\ s = "altered" => runtime.file[f] = "own"
          /\ runtime.file[f] # s
          /\ runtime' = [runtime EXCEPT !.file[f] = s, !.disturbed = TRUE]
     \/ ~runtime.extra /\ runtime' = [runtime EXCEPT !.extra = TRUE, !.disturbed = TRUE]
  /\ UNCHANGED <<candidate, tool, marker, record, receipt, lock, maker, user>>

Making == MakeRoot \/ MakeRefused \/ MakeMarker \/ (\E f \in Files : Copy(f)) \/ PublishRecord
          \/ Activate \/ LastCheck \/ Undo \/ MakerRemoves
Cleaning(u) == CleanupRefused(u) \/ CleanupDone(u) \/ CleanupFailed(u) \/ CleanupBegins(u)
               \/ Remove(u) \/ WriteCleaned(u)
Verifying(u) == Begin(u) \/ Inputs(u) \/ LockToRead(u) \/ ReadBusy(u) \/ ReadFirst(u)
                \/ ScanRefused(u) \/ Boundary(u) \/ CopyGroup(u) \/ ToolsRefused(u) \/ Commands(u)
                \/ CloseGroup(u) \/ CheckAfter(u) \/ ReadAfter(u) \/ PublishVerification(u)
Mishaps == KillMaker \/ (\E u \in Users : Kill(u)) \/ Edit \/ UpdateTool \/ Tamper

Next == Making \/ (\E u \in Users : Cleaning(u) \/ Verifying(u)) \/ Mishaps

Spec == Init /\ [][Next]_vars

-----------------------------------------------------------------------------
(* Properties.                                                             *)

\* The type of the state.
TypeOK ==
  /\ candidate \in [frozen : BOOLEAN, snapshot : 0..MaxMishaps] /\ tool \in 0..1
  /\ runtime \in [root : BOOLEAN, file : [Files -> FileStates], extra : BOOLEAN, disturbed : BOOLEAN]
  /\ marker \in {None, "empty", "building", "active", "cleaning", "torn", "cleaned"}
  /\ record \in NoSnapshot..MaxMishaps
  /\ receipt \in {None, "completed", "failed"}
  /\ lock \in {None, "maker"} \cup Users
  /\ maker.made \in SUBSET Files /\ mishaps \in 0..MaxMishaps
  /\ \A u \in Users : user[u].group \in 1..2 /\ user[u].cleanup \in {"completed", "failed"}

\* A step of this code never removes what somebody else has put into the runtime or has
\* written over ("never chmod or delete a replacement", _delete_owned_path).
OnlyOwnIsRemoved ==
  [][mishaps' = mishaps =>
       /\ \A f \in Files : runtime.file[f] \in {"altered", "foreign"} => runtime'.file[f] = runtime.file[f]
       /\ runtime.extra => runtime'.extra]_vars

\* A completed cleanup, wherever it is told (receipt, marker, manifest of a verification), is
\* one after which nothing is left: of several processes one may have removed it and others
\* may have found it gone, or have been killed on the way.
CleanedMeansGone ==
  /\ receipt = "completed" \/ marker \in {"cleaned", "torn"} => ~runtime.root
  /\ \A u \in Verifiers : user[u].manifest.cleanup = "completed" => ~runtime.root /\ ~user[u].retained

\* A verification that passed ran both groups on copies of the frozen bytes that its own
\* commands did not change, of the candidate the record names, unchanged from its first look
\* to its last one, and with the runtime complete until it was removed.
PassedIsFrozen ==
  \A u \in Verifiers :
    LET m == user[u].manifest IN
    m.status = "passed" =>
      /\ m.before = record /\ m.after = record /\ m.read
      /\ m.commands = 2 /\ m.cleanup = "completed"
      /\ ~user[u].dirt /\ user[u].tool = 0

\* A runtime that nobody disturbed and nobody works on can be removed by a cleanup that is
\* started now, however many cleanups were killed before.  The exception is a
\* materialization killed before its marker was active: no cleanup accepts its runtime.
RestIsCleanable ==
  (lock = None /\ runtime.root /\ ~runtime.disturbed) =>
    \/ record # NoSnapshot /\ marker \in {"active", "cleaning"} /\ MayResume(marker)
    \/ maker.pc = "killed" /\ marker \in {None, "empty", "building"}
    \/ maker.pc = "marker"
=============================================================================
