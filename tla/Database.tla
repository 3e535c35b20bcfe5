------------------------------ MODULE Database ------------------------------
(***************************************************************************)
(* What a process goes through before it serves: the lease of the database *)
(* (DatabaseLease) and its migration with the backups (Migrations), and    *)
(* what a start-up may rely on.  The two are about different files: here   *)
(* they run beside each other and share nothing.                           *)
(***************************************************************************)
EXTENDS DatabaseLease

CONSTANTS Projects, Jobs, None, Legacy, MaxMishaps   \* as in Migrations

VARIABLES m_file, m_journal, m_backups, m_actor, m_first, m_cut, m_mishaps

M == INSTANCE Migrations WITH file <- m_file, journal <- m_journal, backups <- m_backups,
       actor <- m_actor, first <- m_first, cut <- m_cut, mishaps <- m_mishaps

ASSUME LegacyAssumption == M!LegacyIsTyped

m_vars == <<m_file, m_journal, m_backups, m_actor, m_first, m_cut, m_mishaps>>
databaseVars == <<vars, m_vars>>

DatabaseInit == Init /\ M!Init

LeaseMoves == Next /\ UNCHANGED m_vars
MigrationMoves == M!Next /\ UNCHANGED vars

DatabaseNext == LeaseMoves \/ MigrationMoves

DatabaseSpec == DatabaseInit /\ [][DatabaseNext]_databaseVars

-----------------------------------------------------------------------------
(* Properties.                                                             *)

\* Two processes never work on the database, a refused starter leaves the lease in place,
\* and nobody deletes the lock file of a process that serves (DatabaseLease), where no
\* process dies between a rename and the step that undoes it and payloads can be written.
LeaseIsExclusive == TypeOK /\ Exclusive /\ UndisturbedLeaseIsInPlace /\ LeaseFileSurvives

\* A migrated database has what the old one owned, and is served (Migrations).
MigratedIsSound == M!TypeOK /\ M!MigratedIsSound

\* The first database stays in a backup, and a restore replaces the database by the backup or
\* not at all (Migrations).
BackupsHold == []M!OriginalIsKept /\ M!RestoreIsAllOrNothing
=============================================================================
