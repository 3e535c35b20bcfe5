----------------------------- MODULE Migrations -----------------------------
(***************************************************************************)
(* The migration of a database of version 0 at start-up                    *)
(* (migrations/runner.py migrate_database, schema.py), the verified backup *)
(* made before it (backup.py), and the restoring of a backup by an         *)
(* operator (restore_database_backup, scripts/restore_backup.py).          *)
(*                                                                         *)
(* Whoever works on the database holds its lease: DatabaseLease is about   *)
(* that, here there is one actor at a time.  SQLite keeps a transaction in *)
(* progress recoverable by a rollback journal beside the database file; a  *)
(* process killed in the middle leaves the file torn with its journal, and *)
(* the next one to open it rolls the transaction back.                     *)
(***************************************************************************)
EXTENDS Naturals, FiniteSets

CONSTANTS Projects, Jobs,
          Legacy,     \* the databases there may be before this program is installed
          None,       \* NULL, and no file
          MaxMishaps  \* bound: kills, failures, altered backups

VARIABLES
  file,     \* the database file: its content, and whether it is torn
  journal,  \* the content a journal beside it would roll back to, or None
  backups,  \* .backups: content, whether its metadata is there, whether altered since
  actor,    \* the process that holds the lease
  first,    \* the content the history began with
  cut,      \* a restore was killed between the removal of the journal and the replacement
  mishaps

vars == <<file, journal, backups, actor, first, cut, mishaps>>

-----------------------------------------------------------------------------
(* Content: the rows of the tables by their owners, and PRAGMA user_version *)

\* projects and blocks (and settings revisions, by project) are sets; a job has a project and
\* a parent; calls is the set of jobs with an external call; there is at most one artifact.
JobRow == [project : Projects, parent : Jobs \cup {None}]
Artifact == [project : Projects, job : Jobs \cup {None}]
Rows == [projects : SUBSET Projects, blocks : SUBSET Projects, job : [Jobs -> JobRow \cup {None}],
         calls : SUBSET Jobs, artifact : Artifact \cup {None}, current : SUBSET Projects]
Contents == [rows : Rows, version : {0, 1}]
Backup == [content : Contents, metadata : BOOLEAN, altered : BOOLEAN]
NoTables == [projects |-> {}, blocks |-> {}, job |-> [j \in Jobs |-> None], calls |-> {},
             artifact |-> None, current |-> {}]
JobsOf(r) == {j \in Jobs : r.job[j] # None}

\* _delete_legacy_orphans, in its order: jobs without a project; then, until nothing changes,
\* jobs without their parent; calls of no job; artifacts without a project, and the job of
\* those that stay; blocks and settings revisions.
\* (ParentMissingNull is a mutation: a parent that is NULL counts as missing.)
ParentMissingNull(r, s, j) == r.job[j].parent \notin s
ParentMissing(r, s, j) == r.job[j].parent # None /\ r.job[j].parent \notin s
Survivors(r, s) == {j \in s : ~ParentMissing(r, s, j)}
KeptJobs(r) ==
  LET kept[n \in 0..Cardinality(Jobs)] ==
        IF n = 0 THEN {j \in JobsOf(r) : r.job[j].project \in r.projects}
        ELSE Survivors(r, kept[n - 1])
  IN  kept[Cardinality(Jobs)]

Repaired(r) ==
  [projects |-> r.projects, blocks |-> r.blocks \cap r.projects,
   job |-> [j \in Jobs |-> IF j \in KeptJobs(r) THEN r.job[j] ELSE None],
   calls |-> r.calls \cap KeptJobs(r),
   artifact |-> IF r.artifact = None \/ r.artifact.project \notin r.projects THEN None
                ELSE [project |-> r.artifact.project,
                      job |-> IF r.artifact.job \in KeptJobs(r) THEN r.artifact.job ELSE None],
   current |-> r.current]

\* validate_critical_references.
References(r) ==
  /\ r.blocks \subseteq r.projects
  /\ \A j \in JobsOf(r) :
       /\ r.job[j].project \in r.projects
       /\ r.job[j].parent # None =>
            /\ r.job[j].parent \in JobsOf(r)
            /\ r.job[r.job[j].parent].project = r.job[j].project
  /\ r.calls \subseteq JobsOf(r)
  /\ r.artifact # None =>
       /\ r.artifact.project \in r.projects
       /\ r.artifact.job # None =>
            r.artifact.job \in JobsOf(r) /\ r.job[r.artifact.job].project = r.artifact.project
  /\ \A p \in r.current \cap r.projects : r.artifact # None /\ r.artifact.project = p

\* With after_legacy_repair the database is judged as the repair will leave it.
Sound(c) == References(IF c.version = 0 THEN Repaired(c.rows) ELSE c.rows)

Idle == [pc |-> "idle", before |-> None, temp |-> None, backup |-> None]

Init ==
  /\ \E r \in Legacy : first = [rows |-> r, version |-> 0]
  /\ file = [content |-> first, torn |-> FALSE] /\ journal = None
  /\ backups = {} /\ actor = Idle /\ cut = FALSE /\ mishaps = 0

Goto(pc) == actor' = [actor EXCEPT !.pc = pc]
Quiet == UNCHANGED <<first, mishaps>>
FileKept == UNCHANGED <<file, journal, cut>>

-----------------------------------------------------------------------------
(* SQLite (external): opening a database, and a transaction.               *)

\* A journal that is not of this file's own transaction tears the file it is applied to.
Recovered ==
  IF journal = None THEN file
  ELSE IF file.torn THEN [content |-> journal, torn |-> FALSE]
  ELSE [file EXCEPT !.torn = TRUE]

Begin(c) == journal' = file.content /\ file' = [content |-> c, torn |-> TRUE]
Commit == journal' = None /\ file' = [file EXCEPT !.torn = FALSE]
Rollback == journal' = None /\ file' = [content |-> journal, torn |-> FALSE]

-----------------------------------------------------------------------------
(* migrate_database, at start-up.                                          *)

Start ==
  /\ actor.pc = "idle" /\ actor' = [Idle EXCEPT !.pc = "classify"]
  /\ file' = Recovered /\ journal' = None
  /\ UNCHANGED <<backups, cut>> /\ Quiet

\* An integrity check may miss that a file is torn.
SeemsWhole == ~file.torn \/ cut

Refuse == actor' = Idle

ServeCurrent ==
  /\ actor.pc = "classify" /\ file.content.version = 1
  /\ \/ SeemsWhole /\ Sound(file.content) /\ Goto("serving")
     \/ ~Sound(file.content) /\ Refuse
     \/ file.torn /\ Refuse
  /\ UNCHANGED backups /\ FileKept /\ Quiet

Classify ==
  /\ actor.pc = "classify" /\ file.content.version = 0
  /\ \/ SeemsWhole /\ Sound(file.content)
        /\ actor' = [actor EXCEPT !.before = file.content,
                                  !.pc = IF file.content.rows = NoTables THEN "repair" ELSE "backup"]
     \/ ~Sound(file.content) /\ Refuse
     \/ file.torn /\ Refuse
  /\ UNCHANGED backups /\ FileKept /\ Quiet

\* create_verified_backup: the copy is made and checked in a temporary file, and renamed;
\* then its metadata, the same way.
Copy ==
  /\ actor.pc = "backup"
  /\ actor' = [actor EXCEPT !.pc = "publish",
                            !.temp = [content |-> file.content, metadata |-> FALSE, altered |-> FALSE]]
  /\ UNCHANGED backups /\ FileKept /\ Quiet

PublishBackup ==
  /\ actor.pc = "publish" /\ backups' = backups \cup {actor.temp} /\ Goto("metadata")
  /\ FileKept /\ Quiet

\* The published copy, which somebody may have written into since.
Published ==
  IF actor.temp \in backups THEN actor.temp ELSE [actor.temp EXCEPT !.altered = TRUE]

PublishMetadata ==
  /\ actor.pc = "metadata"
  /\ backups' = (backups \ {Published}) \cup {[Published EXCEPT !.metadata = TRUE]}
  /\ Goto("repair")
  /\ FileKept /\ Quiet

\* repair_legacy_orphans and apply_v0_to_v1 are a transaction each.
RepairedContent == [file.content EXCEPT !.rows = Repaired(@)]

BeginRepair ==
  /\ actor.pc = "repair" /\ Begin(RepairedContent) /\ Goto("repairing")
  /\ UNCHANGED <<backups, cut>> /\ Quiet

\* What the migration must keep are the identities of the rows the repair left.
CommitRepair ==
  /\ actor.pc = "repairing" /\ Commit
  /\ actor' = [actor EXCEPT !.pc = "apply", !.before = file.content]
  /\ UNCHANGED <<backups, cut>> /\ Quiet

BeginApply ==
  /\ actor.pc = "apply" /\ Begin([file.content EXCEPT !.version = 1]) /\ Goto("applying")
  /\ UNCHANGED <<backups, cut>> /\ Quiet

CommitApply ==
  /\ actor.pc = "applying" /\ Commit /\ Goto("verify")
  /\ UNCHANGED <<backups, cut>> /\ Quiet

\* _verify_database.
Verify ==
  /\ actor.pc = "verify"
  /\ \/ /\ SeemsWhole /\ Sound(file.content) /\ file.content.rows = actor.before.rows
        /\ Goto("serving")
     \/ (~Sound(file.content) \/ file.content.rows # actor.before.rows) /\ Refuse
  /\ UNCHANGED backups /\ FileKept /\ Quiet

\* The program at work: one of its transactions deletes a project and all that is its.
Remaining(r, p) ==
  [projects |-> r.projects \ {p}, blocks |-> r.blocks \ {p},
   job |-> [j \in Jobs |-> IF r.job[j] # None /\ r.job[j].project = p THEN None ELSE r.job[j]],
   calls |-> {j \in r.calls : r.job[j] # None /\ r.job[j].project # p},
   artifact |-> IF r.artifact # None /\ r.artifact.project = p THEN None ELSE r.artifact,
   current |-> r.current \ {p}]

BeginWork(p) ==
  /\ actor.pc = "serving" /\ p \in file.content.rows.projects
  /\ Begin([file.content EXCEPT !.rows = Remaining(@, p)]) /\ Goto("writing")
  /\ UNCHANGED <<backups, cut>> /\ Quiet

CommitWork ==
  /\ actor.pc = "writing" /\ Commit /\ Goto("serving")
  /\ UNCHANGED <<backups, cut>> /\ Quiet

Stop ==
  /\ actor.pc = "serving" /\ actor' = Idle
  /\ UNCHANGED backups /\ FileKept /\ Quiet

-----------------------------------------------------------------------------
(* restore_database_backup.                                                *)

\* scripts.restore_backup offers the backups that have their metadata.
Restore(b) ==
  /\ actor.pc = "idle" /\ b.metadata
  /\ actor' = [Idle EXCEPT !.pc = "check", !.backup = b]
  /\ UNCHANGED backups /\ FileKept /\ Quiet

\* The journal goes first: it is not of the file that comes.
\* (RemovedKeeping is a mutation of Removed: the journal stays beside the new file.)
RemovedKeeping == journal
Removed == None

\* The copy has the digest of the metadata, and is a database whose references hold.
Valid(b) == b \in backups /\ ~b.altered /\ Sound(b.content)

CheckBackup ==
  /\ actor.pc = "check"
  /\ \/ Valid(actor.backup) /\ actor' = [actor EXCEPT !.pc = "sidecars", !.temp = actor.backup]
     \/ ~Valid(actor.backup) /\ Refuse
  /\ UNCHANGED backups /\ FileKept /\ Quiet

RemoveSidecars ==
  /\ actor.pc = "sidecars" /\ journal' = Removed /\ Goto("replace")
  /\ UNCHANGED <<file, backups, cut>> /\ Quiet

Replace ==
  /\ actor.pc = "replace"
  /\ file' = [content |-> actor.temp.content, torn |-> FALSE] /\ cut' = FALSE
  /\ Goto("restored")
  /\ UNCHANGED <<journal, backups>> /\ Quiet

\* The digest is read back, and the database opened to be checked.
CheckRestored ==
  /\ actor.pc = "restored" /\ actor' = Idle
  /\ file' = Recovered /\ journal' = None
  /\ UNCHANGED <<backups, cut>> /\ Quiet

-----------------------------------------------------------------------------
(* What goes wrong.                                                        *)

Mishap == mishaps < MaxMishaps /\ mishaps' = mishaps + 1 /\ UNCHANGED first

\* A process is killed: what is on disk stays, temporary files aside.
Kill ==
  /\ actor.pc # "idle" /\ Mishap /\ actor' = Idle
  /\ cut' = (cut \/ (actor.pc = "replace" /\ file.torn))
  /\ UNCHANGED <<file, journal, backups>>

\* The backup a failed start leaves: it is removed again unless all of it was published.
\* (LeftNone is a mutation of Left: what was published is removed too.)
LeftNone == backups \ {Published, [Published EXCEPT !.metadata = TRUE]}
Left == IF actor.pc = "metadata" THEN backups \ {Published} ELSE backups

InTransaction == {"repairing", "applying", "writing"}

\* A step fails: a write that cannot be done, or the lease is not held any more.  A
\* transaction is rolled back.
Fail ==
  /\ actor.pc \in {"classify", "backup", "publish", "metadata", "repair", "apply", "check", "sidecars"}
                    \cup InTransaction
  /\ Mishap
  /\ backups' = IF actor.temp # None /\ actor.backup = None THEN Left ELSE backups
  /\ IF actor.pc \in InTransaction THEN Rollback ELSE UNCHANGED <<file, journal>>
  /\ IF actor.pc = "writing" THEN Goto("serving") ELSE actor' = Idle
  /\ UNCHANGED cut

\* The replacement fails: the journal is gone already.
ReplaceFails ==
  /\ actor.pc = "replace" /\ Mishap /\ actor' = Idle
  /\ cut' = (cut \/ file.torn)
  /\ UNCHANGED <<file, journal, backups>>

\* Somebody writes into a backup.
Alter(b) ==
  /\ ~b.altered /\ Mishap
  /\ backups' = (backups \ {b}) \cup {[b EXCEPT !.altered = TRUE]}
  /\ UNCHANGED <<file, journal, actor, cut>>

Next ==
  \/ Start \/ ServeCurrent \/ Classify \/ Copy \/ PublishBackup \/ PublishMetadata
  \/ BeginRepair \/ CommitRepair \/ BeginApply \/ CommitApply \/ Verify
  \/ CommitWork \/ Stop \/ \E p \in Projects : BeginWork(p)
  \/ CheckBackup \/ RemoveSidecars \/ Replace \/ CheckRestored
  \/ Kill \/ Fail \/ ReplaceFails
  \/ \E b \in backups : Restore(b) \/ Alter(b)

Spec == Init /\ [][Next]_vars

-----------------------------------------------------------------------------
(* Properties.                                                             *)

PCs == {"idle", "classify", "backup", "publish", "metadata", "repair", "repairing", "apply",
        "applying", "verify", "serving", "writing", "check", "sidecars", "replace", "restored"}

\* The databases of before are typed, and None is nothing that a column or a file holds.
LegacyIsTyped ==
  /\ IsFiniteSet(Jobs) /\ Legacy \subseteq Rows
  /\ None \notin Jobs \cup JobRow \cup Artifact \cup Contents \cup Backup

\* Every file and what the holder of the lease remembers have their types.
TypeOK ==
  /\ file \in [content : Contents, torn : BOOLEAN]
  /\ journal \in Contents \cup {None}
  /\ backups \subseteq Backup
  /\ actor \in [pc : PCs, before : Contents \cup {None}, temp : Backup \cup {None},
                backup : Backup \cup {None}]
  /\ first \in Contents /\ first.version = 0
  /\ cut \in BOOLEAN /\ mishaps \in Nat

\* What the database is to the next one that opens it.
Effective == Recovered.content

\* The rows something still owns: the jobs that have their project and, all the way up, their
\* parents; with them their calls, and the artifact and the blocks of a project that is there.
Owned(r) ==
  UNION {s \in SUBSET {j \in JobsOf(r) : r.job[j].project \in r.projects} :
           \A j \in s : r.job[j].parent \in s \cup {None}}

KeepsOwned(r, after) ==
  /\ after.projects = r.projects /\ after.blocks = r.blocks \cap r.projects
  /\ JobsOf(after) = Owned(r) /\ \A j \in Owned(r) : after.job[j] = r.job[j]
  /\ after.calls = r.calls \cap Owned(r)
  /\ r.artifact # None /\ r.artifact.project \in r.projects =>
       after.artifact # None /\ after.artifact.project = r.artifact.project

\* The migration removes what nothing can reach, and nothing else, and a database it has
\* brought to version 1 has all its references: the next start does not refuse it, and the
\* program never serves another, nor a torn one unless a restore was cut off.
MigratedIsSound ==
  /\ file.content.version = 1 /\ ~cut => References(file.content.rows)
  /\ actor.pc = "serving" => file.content.version = 1 /\ (file.torn => cut)
  /\ actor.pc \in {"apply", "applying", "verify"} => KeepsOwned(first.rows, file.content.rows)

\* Before a row of the first database is touched there is a backup of it with its metadata,
\* and it stays, whatever fails or dies later; what is published is whole and restorable.
OriginalIsKept ==
  /\ first.rows # NoTables /\ Effective # first =>
       \E b \in backups : b.content = first /\ b.metadata
  /\ \A b \in backups : b.metadata /\ ~b.altered => Sound(b.content) /\ b.content.version = 0

\* A restore changes nothing until it has checked the backup, and then puts exactly this
\* backup in the place of the database, with no journal that could change it.  A file that is
\* torn has the journal that makes it whole, but for a restore stopped after it had removed
\* the journal and before it replaced the file.
RestoreIsAllOrNothing ==
  [][/\ actor.pc \in {"check", "sidecars"} /\ actor'.pc = "idle" => Effective' = Effective
     /\ actor.pc = "restored" /\ actor'.pc = "idle" =>
          Effective' = actor.temp.content /\ ~file'.torn
     /\ file.torn => journal # None \/ cut \/ actor.pc = "replace"]_vars
=============================================================================
