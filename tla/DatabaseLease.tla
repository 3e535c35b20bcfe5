--------------------------- MODULE DatabaseLease ---------------------------
(***************************************************************************)
(* The lease that keeps a second process away from the database            *)
(* (migrations/lease.py): a lock file created with O_EXCL, an flock that   *)
(* tells a live holder from a dead one, and the renames by which a stale   *)
(* file is taken over and a lease released.  One action is one system      *)
(* call.  Only the POSIX branch is modelled: a rename succeeds while the   *)
(* file is open.                                                           *)
(***************************************************************************)
EXTENDS Naturals

CONSTANTS
    Procs,          \* processes that start on the same database
    Files,          \* inodes; enough that a new one is always free
    NoFile,         \* no inode
    CrashAt,        \* the labels at which a process may die
    WritesMayFail   \* may the payload fail to be written (disk full)?

ASSUME NoFileAssumption == NoFile \notin Files
ASSUME WritesAssumption == WritesMayFail \in BOOLEAN

VARIABLES
    path,    \* the inode that lock_path names
    named,   \* inodes with a name on disk (lock_path or a tombstone)
    file,    \* the inode a process opened, and compares with
    held,    \* the process holds the flock of that inode
    tomb,    \* the inode it moved to its tombstone
    pc       \* its next system call

vars == <<path, named, file, held, tomb, pc>>

Running == {"create", "open", "probe", "move", "close", "check", "put_back", "recreate",
            "lock", "write", "leased", "serving", "failed", "drop", "unhook", "inspect",
            "restore", "abandon", "unlink"}
Leased == {"leased", "serving", "failed"}
Resting == {"idle", "refused"}

\* Between a rename and the step that undoes it.
Windows == {"close", "check", "put_back", "inspect", "restore"}

ASSUME CrashAssumption == CrashAt \subseteq Running

Init ==
    /\ path = NoFile
    /\ named = {}
    /\ file = [p \in Procs |-> NoFile]
    /\ held = [p \in Procs |-> FALSE]
    /\ tomb = [p \in Procs |-> NoFile]
    /\ pc = [p \in Procs |-> "idle"]

At(p, label) == pc[p] = label
Go(p, label) == pc' = [pc EXCEPT ![p] = label]

\* flock: free, or held through another descriptor.
Unlocked(n) == \A q \in Procs : ~(held[q] /\ file[q] = n)

\* An inode that nothing refers to.  Remembered identities count: the code
\* compares the payload's token too, which tells a reused inode number.
Fresh(n) == n # path /\ \A q \in Procs : n # file[q] /\ n # tomb[q]
NewFile == CHOOSE n \in Files : Fresh(n)

\* MigrationError("database_lease_unavailable"): descriptors are closed.
Refuse(p) ==
    /\ held' = [held EXCEPT ![p] = FALSE]
    /\ file' = [file EXCEPT ![p] = NoFile]
    /\ tomb' = [tomb EXCEPT ![p] = NoFile]
    /\ Go(p, "refused")

-----------------------------------------------------------------------------
(* acquire_database_lease *)

Start(p) ==
    /\ pc[p] \in Resting
    /\ Go(p, "create")
    /\ UNCHANGED <<path, named, file, held, tomb>>

\* open(lock_path, O_CREAT | O_EXCL): on FileExistsError the first attempt
\* turns to the file that is there, the second gives up.
Create(p) ==
    /\ At(p, "create") \/ At(p, "recreate")
    /\ IF path = NoFile
       THEN /\ \E n \in Files : Fresh(n)
            /\ path' = NewFile
            /\ named' = named \union {NewFile}
            /\ file' = [file EXCEPT ![p] = NewFile]
            /\ Go(p, "lock")
            /\ UNCHANGED <<held, tomb>>
       ELSE /\ IF At(p, "create")
               THEN Go(p, "open") /\ UNCHANGED <<file, held, tomb>>
               ELSE Refuse(p)
            /\ UNCHANGED <<path, named>>

\* _try_holder_lock on the new file.
Lock(p) ==
    /\ At(p, "lock")
    /\ IF Unlocked(file[p])
       THEN /\ held' = [held EXCEPT ![p] = TRUE]
            /\ Go(p, "write")
            /\ UNCHANGED <<file, tomb>>
       ELSE Refuse(p)
    /\ UNCHANGED <<path, named>>

Write(p) ==
    /\ At(p, "write")
    /\ Go(p, "leased")
    /\ UNCHANGED <<path, named, file, held, tomb>>

\* The payload cannot be written: the descriptor is closed, and the file is
\* unlinked if lock_path still names it.
WriteFails(p) ==
    /\ WritesMayFail
    /\ At(p, "write")
    /\ held' = [held EXCEPT ![p] = FALSE]
    /\ Go(p, "abandon")
    /\ UNCHANGED <<path, named, file, tomb>>

Abandon(p) ==
    /\ At(p, "abandon")
    /\ IF path = file[p]
       THEN Go(p, "unlink") /\ UNCHANGED <<file, held, tomb>>
       ELSE Refuse(p)
    /\ UNCHANGED <<path, named>>

Unlink(p) ==
    /\ At(p, "unlink")
    /\ path' = NoFile
    /\ named' = named \ {path}
    /\ Refuse(p)

-----------------------------------------------------------------------------
(* _remove_stale_lease *)

\* Mutation of OpenStale: the file is expected to be there.
OpenExisting(p) ==
    /\ At(p, "open")
    /\ Go(p, "probe")
    /\ file' = [file EXCEPT ![p] = path]
    /\ UNCHANGED <<path, named, held, tomb>>

OpenStale(p) ==
    /\ At(p, "open")
    /\ IF path = NoFile
       THEN Go(p, "recreate") /\ UNCHANGED file
       ELSE Go(p, "probe") /\ file' = [file EXCEPT ![p] = path]
    /\ UNCHANGED <<path, named, held, tomb>>

\* Mutation of Probe: a file that is there always means a live holder.
ProbeRefuses(p) ==
    /\ At(p, "probe")
    /\ Refuse(p)
    /\ UNCHANGED <<path, named>>

\* Mutation of Probe: whoever finds the file moves it, locked or not.
ProbeNothing(p) ==
    /\ At(p, "probe")
    /\ held' = [held EXCEPT ![p] = TRUE]
    /\ Go(p, "move")
    /\ UNCHANGED <<path, named, file, tomb>>

\* _try_holder_lock on the file found: only a dead process leaves it unlocked.
Probe(p) ==
    /\ At(p, "probe")
    /\ IF Unlocked(file[p])
       THEN /\ held' = [held EXCEPT ![p] = TRUE]
            /\ Go(p, "move")
            /\ UNCHANGED <<file, tomb>>
       ELSE Refuse(p)
    /\ UNCHANGED <<path, named>>

\* os.replace(lock_path, tombstone) moves whatever lock_path names by now.
Move(p) ==
    /\ At(p, "move")
    /\ IF path = NoFile
       THEN Refuse(p) /\ UNCHANGED path
       ELSE /\ tomb' = [tomb EXCEPT ![p] = path]
            /\ path' = NoFile
            /\ Go(p, "close")
            /\ UNCHANGED <<file, held>>
    /\ UNCHANGED named

CloseStale(p) ==
    /\ At(p, "close")
    /\ held' = [held EXCEPT ![p] = FALSE]
    /\ Go(p, "check")
    /\ UNCHANGED <<path, named, file, tomb>>

\* The stale file is unlinked; another one must go back.
Check(p) ==
    /\ At(p, "check")
    /\ IF tomb[p] = file[p]
       THEN /\ named' = named \ {tomb[p]}
            /\ tomb' = [tomb EXCEPT ![p] = NoFile]
            /\ file' = [file EXCEPT ![p] = NoFile]
            /\ Go(p, "recreate")
       ELSE Go(p, "put_back") /\ UNCHANGED <<named, file, tomb>>
    /\ UNCHANGED <<path, held>>

\* Mutation of PutBack: the file is dropped.
PutBackNothing(p) ==
    /\ At(p, "put_back")
    /\ Refuse(p)
    /\ UNCHANGED <<path, named>>

\* os.link(tombstone, lock_path) fails when lock_path exists again.
PutBack(p) ==
    /\ At(p, "put_back")
    /\ path' = IF path = NoFile THEN tomb[p] ELSE path
    /\ Refuse(p)
    /\ UNCHANGED named

-----------------------------------------------------------------------------
(* The lease in use, and its release *)

\* _assert_owned_lock at the head of migrate_database and of a restore: the
\* process works on the database from here on.
Serve(p) ==
    /\ At(p, "leased")
    /\ path = file[p]
    /\ Go(p, "serving")
    /\ UNCHANGED <<path, named, file, held, tomb>>

\* An assertion of the migration fails, at its head or later: the process shows
\* "migration_failed" and keeps its lease until it is shut down.
Lose(p) ==
    /\ At(p, "leased") \/ At(p, "serving")
    /\ path # file[p]
    /\ Go(p, "failed")
    /\ UNCHANGED <<path, named, file, held, tomb>>

\* The process is through with its lease.
Retire(p) ==
    /\ file' = [file EXCEPT ![p] = NoFile]
    /\ tomb' = [tomb EXCEPT ![p] = NoFile]
    /\ Go(p, "idle")

\* release(): its own assertion decides whether there is anything to remove.
Release(p) ==
    /\ pc[p] \in Leased
    /\ path = file[p]
    /\ Go(p, "drop")
    /\ UNCHANGED <<path, named, file, held, tomb>>

GiveUp(p) ==
    /\ pc[p] \in Leased
    /\ path # file[p]
    /\ held' = [held EXCEPT ![p] = FALSE]
    /\ Retire(p)
    /\ UNCHANGED <<path, named>>

Drop(p) ==
    /\ At(p, "drop")
    /\ held' = [held EXCEPT ![p] = FALSE]
    /\ Go(p, "unhook")
    /\ UNCHANGED <<path, named, file, tomb>>

Unhook(p) ==
    /\ At(p, "unhook")
    /\ IF path = NoFile
       THEN Retire(p) /\ UNCHANGED path
       ELSE /\ tomb' = [tomb EXCEPT ![p] = path]
            /\ path' = NoFile
            /\ Go(p, "inspect")
            /\ UNCHANGED file
    /\ UNCHANGED <<named, held>>

\* Mutation of Inspect: whatever was moved is unlinked.
InspectNothing(p) ==
    /\ At(p, "inspect")
    /\ named' = named \ {tomb[p]}
    /\ Retire(p)
    /\ UNCHANGED <<path, held>>

Inspect(p) ==
    /\ At(p, "inspect")
    /\ IF tomb[p] = file[p]
       THEN named' = named \ {tomb[p]} /\ Retire(p)
       ELSE Go(p, "restore") /\ UNCHANGED <<named, file, tomb>>
    /\ UNCHANGED <<path, held>>

Restore(p) ==
    /\ At(p, "restore")
    /\ path' = IF path = NoFile THEN tomb[p] ELSE path
    /\ Retire(p)
    /\ UNCHANGED <<named, held>>

\* The process dies: the system closes its descriptors, names stay.
Crash(p) ==
    /\ pc[p] \in CrashAt
    /\ held' = [held EXCEPT ![p] = FALSE]
    /\ file' = [file EXCEPT ![p] = NoFile]
    /\ tomb' = [tomb EXCEPT ![p] = NoFile]
    /\ Go(p, "idle")
    /\ UNCHANGED <<path, named>>

-----------------------------------------------------------------------------

Acquire(p) ==
    \/ Create(p) \/ Lock(p) \/ Write(p) \/ WriteFails(p) \/ Abandon(p) \/ Unlink(p)
    \/ OpenStale(p) \/ Probe(p) \/ Move(p) \/ CloseStale(p) \/ Check(p) \/ PutBack(p)

AfterRelease(p) == Drop(p) \/ Unhook(p) \/ Inspect(p) \/ Restore(p)
Leave(p) == Release(p) \/ GiveUp(p) \/ AfterRelease(p)

Next == \E p \in Procs :
    Start(p) \/ Acquire(p) \/ Serve(p) \/ Lose(p) \/ Leave(p) \/ Crash(p)

Spec == Init /\ [][Next]_vars

\* A process that is neither done nor dead takes its next step, one that was
\* refused is started again, and a full disk does not stay full.
Fairness == \A p \in Procs :
    /\ WF_vars(Acquire(p)) /\ SF_vars(Write(p))
    /\ WF_vars(Serve(p) \/ Lose(p)) /\ WF_vars(AfterRelease(p))
    /\ WF_vars(At(p, "refused") /\ Start(p))

FairSpec == Spec /\ Fairness

-----------------------------------------------------------------------------
(* Correctness *)

\* Labels at which a process works on the file it opened, or on one it moved.
Opened == Running \ {"create", "open", "recreate"}

\* Inodes, labels and names have their types, and a system call has its operands.
TypeOK ==
    /\ path \in named \union {NoFile}
    /\ named \subseteq Files
    /\ file \in [Procs -> Files \union {NoFile}]
    /\ held \in [Procs -> BOOLEAN]
    /\ tomb \in [Procs -> Files \union {NoFile}]
    /\ pc \in [Procs -> Running \union Resting]
    /\ \A p \in Procs :
         /\ pc[p] \in Opened => file[p] \in Files
         /\ pc[p] \in Windows => tomb[p] \in Files

Serving(p) == At(p, "serving")

\* Two processes never serve the database at once ("Non-blocking exclusive lease
\* for one file-backed SQLite database").
Exclusive == \A p, q \in Procs : Serving(p) /\ Serving(q) => p = q

\* Nobody unlinks the lock file of a process that serves: what a starter or a
\* leaver moved by mistake goes back, or at least stays on disk.
LeaseFileSurvives == \A p \in Procs : Serving(p) => file[p] \in named

\* While nobody else is at work the file of the serving process is in place: a
\* starter that was refused, or died, has left nothing behind that a later
\* assertion would trip over.
UndisturbedLeaseIsInPlace ==
    \A p \in Procs : Serving(p) /\ (\A q \in Procs \ {p} : pc[q] \in Resting) => path = file[p]

\* A process that starts alone gets the lease, whatever dead ones left behind.
LoneStarterServes ==
    \A p \in Procs :
        At(p, "create") /\ (\A q \in Procs \ {p} : pc[q] \in Resting)
            ~> \/ Serving(p)
               \/ At(p, "idle")
               \/ \E q \in Procs \ {p} : pc[q] \in Running
=============================================================================
