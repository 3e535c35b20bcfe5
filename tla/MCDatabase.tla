----------------------------- MODULE MCDatabase -----------------------------
(* Database for TLC: "at" says in the first state whether the behaviour is *)
(* about the lease or about the migration, and the other stays in an       *)
(* initial state of its own.  The lease is there twice: with the deaths    *)
(* and the failed writes its exclusion survives (the constants of the      *)
(* .cfg), and, with variables of its own, with deaths anywhere and a full  *)
(* disk, which its liveness survives.                                      *)
EXTENDS Database, TLC

CONSTANTS p1, p2, j1, j2

VARIABLES at, a_path, a_named, a_file, a_held, a_tomb, a_pc

a_vars == <<a_path, a_named, a_file, a_held, a_tomb, a_pc>>

\* Databases of version 0: the second project may be gone with rows of it left; jobs with any
\* project and parent, both with a call; an artifact of any of them; and the empty database
\* of a first installation.
LegacyDatabases ==
  {[projects |-> {}, blocks |-> {}, job |-> [j \in Jobs |-> None], calls |-> {},
    artifact |-> None, current |-> {}]} \cup
  {[projects |-> ps, blocks |-> Projects, job |-> js, calls |-> Jobs, artifact |-> a, current |-> c] :
     ps \in {{p1}, Projects},
     js \in [Jobs -> [project : Projects, parent : Jobs \cup {None}]],
     a \in {None} \cup [project : Projects, job : Jobs],
     c \in {{}, Projects}}

Anywhere == INSTANCE DatabaseLease WITH CrashAt <- Running, WritesMayFail <- TRUE,
              path <- a_path, named <- a_named, file <- a_file, held <- a_held,
              tomb <- a_tomb, pc <- a_pc

SideBySideInit ==
  /\ at \in {"lease", "lease anywhere", "migrations"}
  /\ DatabaseInit /\ Anywhere!Init
  /\ at # "migrations" => m_first.rows = M!NoTables

SideBySideNext ==
  \/ at = "lease" /\ LeaseMoves /\ UNCHANGED <<at, a_vars>>
  \/ at = "lease anywhere" /\ Anywhere!Next /\ UNCHANGED <<at, databaseVars>>
  \/ at = "migrations" /\ MigrationMoves /\ UNCHANGED <<at, a_vars>>

FairSideBySide ==
  SideBySideInit /\ [][SideBySideNext]_<<at, databaseVars, a_vars>> /\ Anywhere!Fairness

-----------------------------------------------------------------------------
(* Properties.                                                             *)

\* A process that starts alone gets the lease, wherever the others died (DatabaseLease).
LoneStarterGetsIt == Anywhere!LoneStarterServes
=============================================================================
